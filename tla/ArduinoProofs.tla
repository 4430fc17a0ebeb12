---------------------------- MODULE ArduinoProofs ----------------------------
(***************************************************************************)
(* Theorems about Controller and about Machine, which calls it: where the  *)
(* read pointer and the count of the answers can be, for every size of the *)
(* buffer, every line and every width of an int; what a ping and a pull    *)
(* tell when packets are all that the line carries; that it stays so when  *)
(* the calls are those of the XLCMD terminal; what it takes for the        *)
(* terminal to overrun an array; and that it implements Session.           *)
(***************************************************************************)
EXTENDS Machine, SuffixLemmas, FiniteSetTheorems

(* The line carries bytes.                                                   *)
LEMMA ByteIs == \A b : b \in Byte <=> b \in Nat /\ b < 256
BY DEF Byte

(* The two bytes of a word.                                                *)
LEMMA HalvesOfWord ==
    ASSUME NEW w \in Nat, w < 65536
    PROVE  WordLoByte(w) \in Byte /\ WordHiByte(w) \in Byte
<1>1. w % 256 \in Nat /\ w % 256 < 256
  OBVIOUS
<1>2. w \div 256 \in Nat /\ w \div 256 < 256
  OBVIOUS
<1> QED BY <1>1, <1>2, ByteIs DEF WordLoByte, WordHiByte

(* A packet on the line.                                                   *)
LEMMA FrameIsBytes ==
    ASSUME NEW id \in Byte, NEW instruction \in Byte, NEW params \in Seq(Byte),
           Len(params) <= 65532
    PROVE  Frame(id, instruction, params) \in Seq(Byte)
<1> DEFINE lo == WordLoByte(Len(params) + 3)
           hi == WordHiByte(Len(params) + 3)
<1>1. Len(params) \in Nat
  BY LenProperties
<1>2. lo \in Byte /\ hi \in Byte
  <2>1. Len(params) + 3 \in Nat /\ Len(params) + 3 < 65536
    BY <1>1
  <2> QED BY <2>1, HalvesOfWord
<1> HIDE DEF lo, hi
<1>3. Header \in Seq(Byte) /\ <<Reserve, id, lo, hi, instruction>> \in Seq(Byte)
      /\ <<255, 7>> \in Seq(Byte)
  BY <1>2 DEF Header, Reserve, Byte
<1>4. Header \o <<Reserve, id, lo, hi, instruction>> \in Seq(Byte)
  BY <1>3, ConcatProperties
<1>5. (Header \o <<Reserve, id, lo, hi, instruction>>) \o params \in Seq(Byte)
  BY <1>4, ConcatProperties
<1>6. ((Header \o <<Reserve, id, lo, hi, instruction>>) \o params) \o <<255, 7>>
        \in Seq(Byte)
  BY <1>3, <1>5, ConcatProperties
<1> QED BY <1>6 DEF Frame, lo, hi

(* The status a servo sends.                                               *)
LEMMA AnswerIsBytes ==
    ASSUME NEW id \in Byte, NEW op, NEW reg, op # "ping" => reg \in Regs
    PROVE  AnswerOf(id, op, reg) \in Seq(Byte)
<1> DEFINE params == IF op = "ping" THEN <<94, 1, 29>> ELSE Value[<<id, reg>>]
<1>1. params \in Seq(Byte) /\ Len(params) <= 3
  <2>1. <<94, 1, 29>> \in Seq(Byte) /\ Len(<<94, 1, 29>>) = 3
    BY DEF Byte
  <2>2. CASE op = "ping"
    BY <2>1, <2>2
  <2>3. CASE op # "ping"
    <3> DEFINE value == Value[<<id, reg>>]
    <3>1. params = value /\ reg \in Regs
      BY <2>3
    <3>2. value \in Seq(Byte) /\ Len(value) \in 1..2
      BY <3>1, LineAssumption
    <3> HIDE DEF params, value
    <3>3. Len(value) <= 3
      <4>1. \A n \in 1..2 : n <= 3
        OBVIOUS
      <4> QED BY <3>2, <4>1
    <3> QED BY <3>1, <3>2, <3>3
  <2> QED BY <2>2, <2>3
<1> HIDE DEF params
<1>2. /\ <<0>> \in Seq(Byte) /\ Len(<<0>>) = 1 /\ Status \in Byte
      /\ Len(params) \in Nat
  BY <1>1, LenProperties DEF Byte, Status
<1>3. <<0>> \o params \in Seq(Byte) /\ Len(<<0>> \o params) = 1 + Len(params)
  BY <1>1, <1>2, ConcatProperties
<1> DEFINE all == <<0>> \o params
<1>4. all \in Seq(Byte) /\ Len(all) <= 65532
  BY <1>1, <1>2, <1>3
<1>5. AnswerOf(id, op, reg) = Frame(id, Status, all)
  BY DEF AnswerOf, StatusFrame, params
<1> HIDE DEF all
<1>6. Frame(id, Status, all) \in Seq(Byte)
  BY <1>2, <1>4, FrameIsBytes
<1> QED BY <1>5, <1>6

(* All of them, in the order of the chain.                                 *)
LEMMA AnswersAreBytes ==
    ASSUME NEW who, NEW op, NEW reg, op # "ping" => who = {} \/ reg \in Regs
    PROVE  AnswersOf(who, op, reg) \in Seq(Byte)
<1> DEFINE one(i) == IF Chain[i] \in who THEN AnswerOf(Chain[i], op, reg) ELSE <<>>
<1>0. Chain \in Seq(0..252)
  BY LineAssumption
<1>1. Len(Chain) \in Nat /\ \A i \in 1..Len(Chain) : Chain[i] \in Byte
  <2>1. Len(Chain) \in Nat /\ \A i \in 1..Len(Chain) : Chain[i] \in 0..252
    BY <1>0, LenProperties, ElementOfSeq
  <2> QED BY <2>1 DEF Byte
<1>2. \A i \in 1..Len(Chain) : one(i) \in Seq(Byte)
  BY <1>1, AnswerIsBytes, EmptySeq
<1> HIDE DEF one
<1>3. [i \in 1..Len(Chain) |-> one(i)] \in Seq(Seq(Byte))
  BY <1>1, <1>2, IsASeq
<1>4. FlattenSeq([i \in 1..Len(Chain) |-> one(i)]) \in Seq(Byte)
  BY <1>3, FlattenType
<1> QED BY <1>4 DEF AnswersOf, one
-----------------------------------------------------------------------------
(* What getNextPacket sees.                                                  *)
LEMMA AtIsByte ==
    ASSUME TypeOK, NEW beyond \in Beyond, NEW i \in Nat
    PROVE  At(i, beyond) \in Byte
<1>1. beyond \in Byte /\ RxBufferSizeMax \in Nat
  BY LineAssumption, SizesAssumption
<1>2. i < RxBufferSizeMax => mRxBuffer[i] \in Byte
  BY <1>1 DEF TypeOK
<1> QED BY <1>1, <1>2 DEF At

(* A complete packet has at most the bytes that upSize has counted, for its  *)
(* size of 8 bits only loses some of them.                                   *)
LEMMA PacketIs ==
    ASSUME TypeOK, NEW beyond \in Beyond
    PROVE  /\ PackAt(beyond) \in Seq(Byte)
           /\ Len(PackAt(beyond)) = SizeAt(beyond)
           /\ SizeAt(beyond) \in Nat
           /\ UpSizeSum(beyond) \in Nat
           /\ SizeAt(beyond) <= UpSizeSum(beyond)
<1>0. mRxPtr \in Nat
  BY DEF TypeOK
<1>1. /\ At(mRxPtr + 5, beyond) \in Byte
      /\ At(mRxPtr + 6, beyond) \in Byte
  BY <1>0, AtIsByte
<1>2. LengthAt(beyond) \in Nat /\ LengthAt(beyond) < 65536
  BY <1>1, ByteIs DEF LengthAt, MakeWord
<1>3. SizeAt(beyond) \in Byte
  BY <1>2 DEF SizeAt, Byte
<1>4. /\ UpSizeSum(beyond) \in Nat
      /\ SizeAt(beyond) <= UpSizeSum(beyond)
  <2> DEFINE sum == 7 + LengthAt(beyond)
  <2>1. sum \in Nat
    BY <1>2
  <2> HIDE DEF sum
  <2>2. sum % 65536 \in Nat /\ sum % 131072 \in Nat
    BY <2>1
  <2>3. sum % 256 <= sum % 65536 /\ sum % 256 <= sum % 131072
    BY <2>1
  <2> QED BY <2>2, <2>3 DEF UpSizeSum, SizeAt, sum
<1>5. \A i \in 1..SizeAt(beyond) : At(mRxPtr + i - 1, beyond) \in Byte
  <2> SUFFICES ASSUME NEW i \in 1..SizeAt(beyond)
               PROVE  At(mRxPtr + i - 1, beyond) \in Byte
    OBVIOUS
  <2>1. mRxPtr + i - 1 \in Nat
    BY <1>0, <1>3 DEF Byte
  <2> QED BY <2>1, AtIsByte
<1>6. SizeAt(beyond) \in Nat
  BY <1>3 DEF Byte
<1>7. PackAt(beyond) \in Seq(Byte) /\ Len(PackAt(beyond)) = SizeAt(beyond)
  BY <1>5, <1>6, IsASeq DEF PackAt
<1> QED BY <1>4, <1>6, <1>7
-----------------------------------------------------------------------------
(* A call that receives has parsed nothing yet.                              *)
RxInv ==
    /\ TypeOK
    /\ pc = "receive" => ids = <<>> /\ mRxPtr = 0
    /\ OverrunNeedsCutHeader
    /\ AnswersBound

(* Steps that leave the receive buffer and the ids alone.                    *)
LEMMA RxUntouched ==
    ASSUME RxInv, TypeOK', UNCHANGED <<rxVars, ids>>, pc' = "receive" => pc = "receive"
    PROVE  RxInv'
BY DEF RxInv, OverrunNeedsCutHeader, AnswersBound, Overrun, rxVars

(* After begin.                                                            *)
LEMMA InitRx == Init => RxInv
<1> SUFFICES ASSUME Init PROVE RxInv
  OBVIOUS
<1>1. <<>> \in Seq(Byte) /\ Len(<<>>) = 0
  BY EmptySeq
<1>2. /\ 0 \in Byte /\ 1 \in Byte /\ 1 \in 0..SelectSizeMax
      /\ 0 \in 0..RxBufferSizeMax
  BY ByteIs, SizesAssumption
<1>3. mSelectIds \in [1..SelectSizeMax -> Byte]
      /\ mRxBuffer \in [0..RxBufferSizeMax-1 -> Byte]
  BY <1>2 DEF Init
<1>4. TypeOK
  BY <1>1, <1>2, <1>3 DEF Init, TypeOK
<1> QED BY <1>1, <1>4
       DEF Init, RxInv, OverrunNeedsCutHeader, AnswersBound, Overrun

(* A part of a sequence.                                                     *)
LEMMA PartType ==
    ASSUME NEW S, NEW s \in Seq(S), NEW n \in Nat, n <= Len(s)
    PROVE  SubSeq(s, 1, n) \in Seq(S) /\ SubSeq(s, n + 1, Len(s)) \in Seq(S)
<1>1. Len(s) \in Nat /\ \A i \in 1..Len(s) : s[i] \in S
  BY LenProperties, ElementOfSeq
<1> QED BY <1>1, SubSeqProperties

(* Bytes arrive at the serial port.                                        *)
LEMMA ArriveRx == ASSUME RxInv, Arrive PROVE RxInv'
<1>1. PICK n \in Chunks \cup {Len(line)} :
        /\ n <= Len(line) /\ uart' = SubSeq(line, 1, n)
        /\ line' = SubSeq(line, n + 1, Len(line))
        /\ UNCHANGED <<mXlSerialBaudRate, selectVars, rxVars, pc, call,
                       resultVars, calls, history>>
  BY DEF Arrive
<1>2. line \in Seq(Byte) /\ Len(line) \in Nat
  BY LenProperties DEF RxInv, TypeOK
<1>3. n \in Nat
  BY <1>2, LineAssumption
<1>4. uart' \in Seq(Byte) /\ line' \in Seq(Byte)
  BY <1>1, <1>2, <1>3, PartType
<1>5. TypeOK'
  BY <1>1, <1>4 DEF RxInv, TypeOK, selectVars, rxVars, resultVars
<1> QED BY <1>1, <1>5, RxUntouched DEF rxVars, resultVars

(* selectServo, for no more ids than the array has room for.               *)
LEMMA SelectRx ==
    ASSUME RxInv, NEW selection \in Seq(Byte), Len(selection) <= SelectSizeMax,
           selectServo(selection)
    PROVE  RxInv'
<1>1. Len(selection) \in Nat /\ \A i \in 1..Len(selection) : selection[i] \in Byte
  BY LenProperties, ElementOfSeq
<1>2. mSelectSize' \in 0..SelectSizeMax
  BY <1>1, SizesAssumption DEF selectServo
<1>3. mSelectIds' \in [1..SelectSizeMax -> Byte]
  BY <1>1 DEF selectServo, RxInv, TypeOK
<1>4. TypeOK'
  BY <1>2, <1>3 DEF selectServo, RxInv, TypeOK, rxVars, resultVars
<1> QED BY <1>4, RxUntouched DEF selectServo, rxVars, resultVars

(* setXlBaudRate.                                                          *)
LEMMA BaudRx ==
    ASSUME RxInv, NEW br \in Int, setXlBaudRate(br)
    PROVE  RxInv'
<1>1. TypeOK'
  BY EmptySeq DEF setXlBaudRate, RxInv, TypeOK, selectVars, rxVars, resultVars
<1> QED BY <1>1, RxUntouched DEF setXlBaudRate, rxVars, resultVars

(* sendBuffer: nothing is received or parsed for the new call.             *)
LEMMA SendRx ==
    ASSUME RxInv, NEW op, NEW reg, NEW who, NEW front \in Fronts, NEW back \in Backs,
           op # "ping" => who = {} \/ reg \in Regs, Send(op, reg, who, front, back)
    PROVE  RxInv'
<1> DEFINE reply == IF mXlSerialBaudRate = ServoBaud
                    THEN front \o AnswersOf(who, op, reg) \o back ELSE <<>>
<1>1. reply \in Seq(Byte)
  <2>1. front \in Seq(Byte) /\ back \in Seq(Byte)
    BY LineAssumption
  <2>2. AnswersOf(who, op, reg) \in Seq(Byte)
    BY AnswersAreBytes
  <2>3. front \o AnswersOf(who, op, reg) \in Seq(Byte)
    BY <2>1, <2>2, ConcatProperties
  <2>4. (front \o AnswersOf(who, op, reg)) \o back \in Seq(Byte)
    BY <2>1, <2>3, ConcatProperties
  <2> QED BY <2>4, EmptySeq
<1>2. /\ line' = line \o reply /\ mRxPtr' = 0 /\ mRxBufferSize' = 0
      /\ ids' = <<>> /\ number' = 0 /\ pc' = "receive"
      /\ UNCHANGED <<mXlSerialBaudRate, selectVars, mRxBuffer, uart>>
  BY DEF Send, dropRxData
<1> HIDE DEF reply
<1>3. line \in Seq(Byte)
  BY DEF RxInv, TypeOK
<1>4. line' \in Seq(Byte)
  BY <1>1, <1>2, <1>3, ConcatProperties
<1>5. ids' \in Seq(Byte) /\ Len(ids') = 0 /\ 0 \in Byte /\ 0 \in 0..RxBufferSizeMax
  BY <1>2, EmptySeq, ByteIs, SizesAssumption
<1>6. TypeOK'
  BY <1>2, <1>4, <1>5 DEF RxInv, TypeOK, selectVars
<1> QED BY <1>2, <1>5, <1>6
       DEF RxInv, OverrunNeedsCutHeader, AnswersBound, Overrun

(* A call up to receiveData.                                               *)
LEMMA CallRx ==
    ASSUME RxInv, NEW op, NEW reg, op = "pull" => reg \in Regs, Call(op, reg)
    PROVE  RxInv'
<1>1. PICK silent \in Silences, front \in Fronts, back \in Backs :
          Send(op, reg, Asked(op) \ silent, front, back)
  BY DEF Call
<1>2. op # "ping" => Asked(op) \ silent = {} \/ reg \in Regs
  BY DEF Asked
<1> QED BY <1>1, <1>2, SendRx

(* Any call of a sketch.                                                   *)
LEMMA SketchRx == ASSUME RxInv, Sketch PROVE RxInv'
<1>1. ASSUME NEW selection \in Selections, selectServo(selection) PROVE RxInv'
  BY <1>1, SelectRx, SelectAssumption
<1>2. ASSUME NEW br \in Bauds, setXlBaudRate(br) PROVE RxInv'
  BY <1>2, BaudRx, BaudAssumption
<1>3. ASSUME NEW op, NEW reg, op = "pull" => reg \in Regs, Call(op, reg)
      PROVE RxInv'
  BY <1>3, CallRx
<1> QED BY <1>1, <1>2, <1>3 DEF Sketch
-----------------------------------------------------------------------------
(* receiveData stays inside of mRxBuffer.                                  *)
LEMMA ReceiveRoundRx == ASSUME RxInv, ReceiveRound PROVE RxInv'
<1> DEFINE size == mRxBufferSize
           room == RxBufferSizeMax - size
<1>1. /\ size \in Nat /\ room \in Nat /\ uart \in Seq(Byte) /\ Len(uart) \in Nat
      /\ \A i \in 1..Len(uart) : uart[i] \in Byte
      /\ mRxBuffer \in [0..RxBufferSizeMax-1 -> Byte]
  BY LenProperties, ElementOfSeq, SizesAssumption DEF RxInv, TypeOK
<1>2. ReadSize \in Nat /\ ReadSize <= Len(uart) /\ ReadSize <= room
  <2>1. ReadSize = CHOOSE x \in {Len(uart), room} :
                        \A y \in {Len(uart), room} : x <= y
    BY DEF ReadSize, Min
  <2>2. \E x \in {Len(uart), room} : \A y \in {Len(uart), room} : x <= y
    BY <1>1
  <2> QED BY <1>1, <2>1, <2>2
<1>3. /\ mRxBuffer' = [i \in 0..RxBufferSizeMax-1 |->
            IF i \in size..size+ReadSize-1 THEN uart[i - size + 1] ELSE mRxBuffer[i]]
      /\ mRxBufferSize' = size + ReadSize /\ mRxPtr' = mRxPtr
      /\ uart' = SubSeq(uart, ReadSize + 1, Len(uart))
      /\ UNCHANGED <<mXlSerialBaudRate, selectVars, pc, resultVars, line>>
      /\ pc = "receive"
  BY DEF ReceiveRound
<1>4. mRxBuffer' \in [0..RxBufferSizeMax-1 -> Byte]
  <2>1. ASSUME NEW i \in 0..RxBufferSizeMax-1, i \in size..size+ReadSize-1
        PROVE  uart[i - size + 1] \in Byte
    <3>1. i - size + 1 \in 1..Len(uart)
      BY <1>1, <1>2, <2>1
    <3> QED BY <1>1, <3>1
  <2> DEFINE new(i) == IF i \in size..size+ReadSize-1 THEN uart[i - size + 1]
                       ELSE mRxBuffer[i]
  <2>2. \A i \in 0..RxBufferSizeMax-1 : new(i) \in Byte
    BY <1>1, <2>1
  <2>3. mRxBuffer' = [i \in 0..RxBufferSizeMax-1 |-> new(i)]
    BY <1>3
  <2> HIDE DEF new
  <2> QED BY <2>2, <2>3
<1>5. uart' \in Seq(Byte)
  BY <1>1, <1>2, <1>3, PartType
<1>6. mRxBufferSize' \in 0..RxBufferSizeMax
  BY <1>1, <1>2, <1>3, SizesAssumption
<1>7. TypeOK'
  BY <1>3, <1>4, <1>5, <1>6 DEF RxInv, TypeOK, selectVars, resultVars
<1>8. mRxPtr = 0 /\ ids = <<>> /\ Len(ids) = 0
  BY <1>3, EmptySeq DEF RxInv
<1>9. mRxPtr' = 0 /\ ids' = <<>> /\ Len(ids') = 0 /\ ~Overrun'
  BY <1>3, <1>6, <1>8 DEF resultVars, Overrun
<1> QED BY <1>7, <1>9 DEF RxInv, OverrunNeedsCutHeader, AnswersBound

(* The second is over.                                                     *)
LEMMA ReceiveEndsRx == ASSUME RxInv, ReceiveEnds PROVE RxInv'
<1>1. /\ pc' \in {"idle", "parse"} /\ ids' = ids /\ number' = number
      /\ UNCHANGED <<mXlSerialBaudRate, selectVars, mRxBuffer, uart, line>>
      /\ \/ UNCHANGED <<mRxBufferSize, mRxPtr>>
         \/ mRxBufferSize' = 0 /\ mRxPtr' = 0
      /\ mRxPtr = 0 /\ ids = <<>> /\ Len(ids) = 0
  BY EmptySeq DEF ReceiveEnds, dropRxData, RxInv
<1>2. mRxBufferSize' \in 0..RxBufferSizeMax /\ mRxPtr' = 0
  BY <1>1, SizesAssumption DEF RxInv, TypeOK
<1>3. TypeOK'
  BY <1>1, <1>2 DEF RxInv, TypeOK, selectVars
<1>4. ~Overrun' /\ Len(ids') = 0
  BY <1>1, <1>2 DEF Overrun
<1> QED BY <1>1, <1>2, <1>3, <1>4 DEF RxInv, OverrunNeedsCutHeader, AnswersBound
-----------------------------------------------------------------------------
(* While the pointer is within what was received, left does not wrap.        *)
LEMMA LeftIs ==
    ASSUME TypeOK, ~Overrun
    PROVE  Left = mRxBufferSize - mRxPtr
<1>1. /\ mRxBufferSize \in Nat /\ mRxPtr \in Nat /\ mRxBufferSize < 65536
      /\ mRxPtr <= mRxBufferSize
  BY SizesAssumption DEF TypeOK, Overrun
<1> QED BY <1>1 DEF Left

(* A wrong byte: the pointer passes the end only at the third byte of a header,
   or at the second, and then the last byte received was FF.               *)
LEMMA SkipBytesRx ==
    ASSUME RxInv, NEW beyond \in Beyond, SkipBytes(beyond)
    PROVE  RxInv'
<1>1. PICK k \in 0..2 :
        /\ pc = "parse" /\ Left > 0 /\ WrongHeader(k, beyond)
        /\ mRxPtr' = mRxPtr + k + 1
        /\ UNCHANGED <<mXlSerialBaudRate, selectVars, mRxBuffer, mRxBufferSize,
                       pc, resultVars, uart, line>>
  BY DEF SkipBytes
<1>2. mRxPtr \in Nat /\ mRxPtr' \in Nat /\ mRxPtr' > mRxPtr
      /\ mRxBufferSize \in Nat /\ mRxBufferSize <= RxBufferSizeMax
  BY <1>1, SizesAssumption DEF RxInv, TypeOK
<1>3. TypeOK'
  BY <1>1, <1>2 DEF RxInv, TypeOK, selectVars, resultVars
<1>4. OverrunNeedsCutHeader'
  <2>1. CASE Overrun
    BY <1>1, <2>1 DEF RxInv, OverrunNeedsCutHeader
  <2>2. CASE ~Overrun /\ Overrun'
    <3>1. Left = mRxBufferSize - mRxPtr
      BY <2>2, LeftIs DEF RxInv
    <3>2. mRxBufferSize < mRxPtr + k + 1
      BY <1>1, <2>2 DEF Overrun
    <3>3. k <= Left /\ Left > 0
      BY <1>1 DEF WrongHeader
    <3>4. k = mRxBufferSize - mRxPtr /\ k - 1 \in 0..k-1 /\ k \in {1, 2}
      BY <1>2, <3>1, <3>2, <3>3
    <3>5. At(mRxPtr + (k - 1), beyond) = Header[(k - 1) + 1]
      BY <1>1, <3>4 DEF WrongHeader
    <3>6. Header[(k - 1) + 1] = 255
      BY <3>4 DEF Header
    <3>7. mRxPtr + (k - 1) = mRxBufferSize - 1 /\ mRxBufferSize > 0
          /\ mRxBufferSize - 1 < RxBufferSizeMax
      BY <1>2, <3>4, SizesAssumption
    <3>8. mRxBuffer[mRxBufferSize - 1] = 255
      BY <3>5, <3>6, <3>7 DEF At
    <3> QED BY <1>1, <3>7, <3>8 DEF OverrunNeedsCutHeader
  <2> QED BY <2>1, <2>2 DEF OverrunNeedsCutHeader
<1>5. Len(ids') \in Nat /\ ids' = ids /\ Len(ids) \in Nat
  BY <1>1, LenProperties DEF resultVars, RxInv, TypeOK
<1>6. AnswersBound'
  <2>1. Overrun => Overrun'
    BY <1>1, <1>2 DEF Overrun
  <2> QED BY <1>2, <1>5, <2>1 DEF RxInv, AnswersBound
<1> QED BY <1>1, <1>3, <1>4, <1>6 DEF RxInv

(* ping and pull count a status and store an id.                           *)
LEMMA TakeStatusTypes ==
    ASSUME TypeOK, NEW id \in Byte, NEW value, TakeStatus(id, value)
    PROVE  /\ number' \in Byte /\ ids' \in Seq(Byte)
           /\ Len(ids) \in Nat /\ (ids' = ids \/ Len(ids') = Len(ids) + 1)
<1>1. ids \in Seq(Byte) /\ Len(ids) \in Nat /\ number \in Byte /\ number \in Nat
  BY LenProperties, ByteIs DEF TypeOK
<1>2. (number + 1) % 256 \in Byte
  BY <1>1, ByteIs
<1>3. number' = number \/ number' = (number + 1) % 256
  BY DEF TakeStatus
<1>4. ids' = ids \/ ids' = Append(ids, id)
  BY DEF TakeStatus
<1>5. Append(ids, id) \in Seq(Byte) /\ Len(Append(ids, id)) = Len(ids) + 1
  BY <1>1, AppendProperties
<1> QED BY <1>1, <1>2, <1>3, <1>4, <1>5

(* A packet that getNextPacket has found complete lies within what was received. *)
LEMMA TakePacketRx ==
    ASSUME RxInv, NEW beyond \in Beyond, TakePacket(beyond)
    PROVE  RxInv'
<1> DEFINE pack == PackAt(beyond)
           size == SizeAt(beyond)
<1>0. TypeOK
  BY DEF RxInv
<1>1. /\ pc = "parse" /\ CompletePacket(beyond) /\ mRxPtr' = mRxPtr + size
      /\ IF isInstructionStatus(pack) THEN TakeStatus(GetId(pack), PulledValue(pack))
         ELSE UNCHANGED resultVars
      /\ UNCHANGED <<mXlSerialBaudRate, selectVars, mRxBuffer, mRxBufferSize,
                     pc, uart, line>>
  BY DEF TakePacket, Consume
<1>2. /\ pack \in Seq(Byte) /\ Len(pack) = size /\ size \in Nat
      /\ UpSizeSum(beyond) \in Nat /\ size <= UpSizeSum(beyond)
  BY <1>0, PacketIs
<1>3. GetId(pack) \in Byte
  <2>1. Len(pack) >= 5 => pack[5] \in Byte
    <3>1. Len(pack) >= 5 => 5 \in 1..Len(pack)
      BY <1>2
    <3> QED BY <1>2, <3>1, ElementOfSeq
  <2>2. PacketError \in Byte
    BY ByteIs DEF PacketError
  <2> HIDE DEF pack
  <2>3. CASE Len(pack) < 5
    BY <2>2, <2>3 DEF GetId
  <2>4. CASE ~(Len(pack) < 5)
    <3>1. Len(pack) >= 5
      BY <1>2, <2>4
    <3> QED BY <2>1, <2>4, <3>1 DEF GetId, getId
  <2> QED BY <2>3, <2>4
<1>4. /\ number' \in Byte /\ ids' \in Seq(Byte) /\ Len(ids) \in Nat
      /\ (ids' = ids \/ (Len(ids') = Len(ids) + 1 /\ size >= 8))
  <2> HIDE DEF pack
  <2>1. CASE isInstructionStatus(pack)
    <3>1. size >= 8
      BY <1>2, <2>1 DEF isInstructionStatus
    <3>2. TakeStatus(GetId(pack), PulledValue(pack))
      BY <1>1, <2>1
    <3> QED BY <1>0, <1>3, <3>1, <3>2, TakeStatusTypes
  <2>2. CASE ~isInstructionStatus(pack)
    <3>1. ids' = ids /\ number' = number
      BY <1>1, <2>2 DEF resultVars
    <3>2. ids \in Seq(Byte) /\ Len(ids) \in Nat /\ number \in Byte
      BY <1>0, LenProperties DEF TypeOK
    <3> QED BY <3>1, <3>2
  <2> QED BY <2>1, <2>2
<1> HIDE DEF pack, size
<1>5. mRxPtr \in Nat /\ mRxPtr' \in Nat /\ mRxPtr' >= mRxPtr /\ mRxBufferSize \in Nat
  BY <1>0, <1>1, <1>2, SizesAssumption DEF TypeOK
<1>6. TypeOK'
  BY <1>0, <1>1, <1>4, <1>5 DEF TypeOK, selectVars
<1>7. Overrun <=> Overrun'
  <2>1. CASE Overrun
    BY <1>1, <1>5, <2>1 DEF Overrun
  <2>2. CASE ~Overrun
    <3>1. size <= mRxBufferSize - mRxPtr
      BY <1>0, <1>1, <1>2, <1>5, <2>2, LeftIs DEF CompletePacket
    <3> QED BY <1>1, <1>2, <1>5, <2>2, <3>1 DEF Overrun
  <2> QED BY <2>1, <2>2
<1>8. OverrunNeedsCutHeader'
  BY <1>1, <1>7 DEF RxInv, OverrunNeedsCutHeader
<1>9. AnswersBound'
  <2>1. CASE Overrun
    BY <1>7, <2>1 DEF AnswersBound
  <2>2. CASE ~Overrun
    <3>1. 8 * Len(ids) <= mRxPtr
      BY <2>2 DEF RxInv, AnswersBound
    <3>2. 8 * Len(ids') <= mRxPtr'
      BY <1>1, <1>2, <1>4, <1>5, <3>1
    <3> QED BY <3>2 DEF AnswersBound
  <2> QED BY <2>1, <2>2
<1> QED BY <1>1, <1>6, <1>8, <1>9 DEF RxInv

(* EndOfBuffer.                                                            *)
LEMMA ReturnRx ==
    ASSUME RxInv, NEW beyond \in Beyond, Return(beyond)
    PROVE  RxInv'
<1>1. TypeOK'
  BY DEF Return, RxInv, TypeOK, selectVars, rxVars, resultVars
<1> QED BY <1>1, RxUntouched DEF Return, rxVars, resultVars

(* The pointer is outside of the buffer only after an overrun.               *)
LEMMA ParseElsewhereRx == ASSUME RxInv, ParseElsewhere PROVE RxInv'
<1>0. TypeOK
  BY DEF RxInv
<1>1. Overrun
  <2> SUFFICES ASSUME ~Overrun PROVE FALSE
    OBVIOUS
  <2>1. Left = mRxBufferSize - mRxPtr
    BY <1>0, LeftIs
  <2>2. ~(mRxPtr < RxBufferSizeMax) /\ Left # 0
    BY DEF ParseElsewhere, InBuffer
  <2>3. mRxPtr \in Nat /\ mRxBufferSize \in Nat /\ mRxBufferSize <= RxBufferSizeMax
        /\ RxBufferSizeMax \in Nat /\ mRxPtr <= mRxBufferSize
    BY <1>0, SizesAssumption DEF TypeOK, Overrun
  <2> QED BY <2>1, <2>2, <2>3
<1>2. /\ pc' \in {"idle", "parse"}
      /\ UNCHANGED <<mXlSerialBaudRate, selectVars, rxVars, uart, line>>
  BY DEF ParseElsewhere
<1>3. number' \in Byte /\ ids' \in Seq(Byte)
  <2>1. CASE UNCHANGED resultVars
    BY <1>0, <2>1 DEF TypeOK, resultVars
  <2>2. ASSUME NEW id \in Beyond, NEW value \in Beyond, TakeStatus(id, value)
        PROVE  number' \in Byte /\ ids' \in Seq(Byte)
    <3>1. id \in Byte
      BY LineAssumption
    <3> QED BY <1>0, <2>2, <3>1, TakeStatusTypes
  <2> QED BY <2>1, <2>2 DEF ParseElsewhere
<1>4. TypeOK'
  BY <1>0, <1>2, <1>3 DEF TypeOK, selectVars, rxVars
<1> QED BY <1>1, <1>2, <1>4
       DEF RxInv, OverrunNeedsCutHeader, AnswersBound, Overrun, rxVars

(* Every step.                                                             *)
LEMMA NextRx == ASSUME RxInv, [Next]_vars PROVE RxInv'
<1>1. CASE UNCHANGED vars
  <2>1. TypeOK'
    BY <1>1 DEF RxInv, TypeOK, vars, selectVars, rxVars, resultVars
  <2> QED BY <1>1, <2>1, RxUntouched DEF vars, rxVars, resultVars
<1>2. CASE Parse
  BY <1>2, SkipBytesRx, TakePacketRx, ReturnRx, ParseElsewhereRx DEF Parse
<1> QED BY <1>1, <1>2, SketchRx, ArriveRx, ReceiveRoundRx, ReceiveEndsRx
       DEF Next, Step, Finished
-----------------------------------------------------------------------------
(* The invariant from which the theorems follow.                           *)
LEMMA RxAlways == Spec => []RxInv
<1>1. Init => RxInv
  BY InitRx
<1>2. RxInv /\ [Next]_vars => RxInv'
  BY NextRx
<1> QED BY <1>1, <1>2, PTL DEF Spec

(* The types: what is counted, selected and received stays in its array and  *)
(* its eight bits, whatever the line carries.                                *)
THEOREM ControllerTypes == Spec => []TypeOK
<1>1. RxInv => TypeOK
  BY DEF RxInv
<1> QED BY <1>1, RxAlways, PTL

(* getNextPacket leaves the received bytes only behind a cut FF FF: the one  *)
(* way in which a call comes to read what was not received.                  *)
THEOREM OnlyCutHeaders == Spec => []OverrunNeedsCutHeader
<1>1. RxInv => OverrunNeedsCutHeader
  BY DEF RxInv
<1> QED BY <1>1, RxAlways, PTL

(* ping stores at most one id for each eight bytes of the buffer.            *)
THEOREM IdsAreBounded == Spec => []AnswersBound
<1>1. RxInv => AnswersBound
  BY DEF RxInv
<1> QED BY <1>1, RxAlways, PTL
-----------------------------------------------------------------------------
(* The bytes in the length field of a packet of no more than 255 bytes.      *)
LEMMA SmallWord ==
    ASSUME NEW w \in Nat, w < 256
    PROVE  MakeWord(WordLoByte(w), WordHiByte(w)) = w
<1>1. w % 256 = w /\ w \div 256 = 0
  OBVIOUS
<1> QED BY <1>1 DEF MakeWord, WordLoByte, WordHiByte

(* A packet on the line, byte by byte.                                       *)
Framed(f, id, instruction, params, n) ==
    /\ f \in Seq(Byte) /\ Len(f) = n + 10
    /\ f[1] = 255 /\ f[2] = 255 /\ f[3] = 253
    /\ f[5] = id /\ f[8] = instruction
    /\ MakeWord(f[6], f[7]) = n + 3
    /\ \A i \in 1..n : f[8 + i] = params[i]

(* What a packet is on the line.                                             *)
LEMMA FrameIs ==
    ASSUME NEW id \in Byte, NEW instruction \in Byte,
           NEW n \in 0..200, NEW params, SizedSeq(Byte, n, params)
    PROVE  Framed(Frame(id, instruction, params), id, instruction, params, n)
<1> DEFINE f == Frame(id, instruction, params)
<1> DEFINE lo == WordLoByte(n + 3)
           hi == WordHiByte(n + 3)
           fields == <<Reserve, id, lo, hi, instruction>>
<1>1. n \in Nat /\ n + 3 \in Nat /\ n + 3 < 256 /\ n + 3 < 65536
  OBVIOUS
<1>2. lo \in Byte /\ hi \in Byte /\ MakeWord(lo, hi) = n + 3
  BY <1>1, HalvesOfWord, SmallWord
<1> HIDE DEF lo, hi
<1>3. SizedSeq(Byte, 3, Header)
  BY DEF Header, SizedSeq, Byte
<1>4. SizedSeq(Byte, 5, fields)
  <2>1. Reserve \in Byte
    BY ByteIs DEF Reserve
  <2> QED BY <1>2, <2>1 DEF SizedSeq
<1>5. SizedSeq(Byte, 2, <<255, 7>>)
  BY DEF SizedSeq, Byte
<1>6. /\ fields[2] = id /\ fields[3] = lo /\ fields[4] = hi
      /\ fields[5] = instruction
  OBVIOUS
<1> HIDE DEF fields
<1> DEFINE tail == <<255, 7>>
           joined == Header \o fields \o params \o tail
<1>a. SizedSeq(Byte, 2, tail)
  BY <1>5
<1> HIDE DEF tail
<1>c. /\ SizedSeq(Byte, 3 + 5 + n + 2, joined)
      /\ Carries(joined, 0, Header, 3) /\ Carries(joined, 3, fields, 5)
      /\ Carries(joined, 3 + 5, params, n)
  BY ONLY <1>3, <1>4, <1>a, SizedSeq(Byte, n, params), FourJoined, Zenon
<1>8. f = joined
  <2>1. Len(params) = n
    BY DEF SizedSeq
  <2> QED BY <2>1 DEF Frame, tail, fields, lo, hi
<1> HIDE DEF joined, f
<1>7. /\ SizedSeq(Byte, 3 + 5 + n + 2, f)
      /\ Carries(f, 0, Header, 3) /\ Carries(f, 3, fields, 5)
      /\ Carries(f, 3 + 5, params, n)
  BY <1>8, <1>c
<1>9. f \in Seq(Byte) /\ Len(f) = n + 10
  <2>1. 3 + 5 + n + 2 = n + 10
    BY <1>1
  <2> QED BY <1>7, <2>1 DEF SizedSeq
<1>10. f[0 + 1] = Header[1] /\ f[0 + 2] = Header[2] /\ f[0 + 3] = Header[3]
  BY <1>7 DEF Carries
<1>11. f[1] = 255 /\ f[2] = 255 /\ f[3] = 253
  BY <1>10 DEF Header
<1>12. /\ f[3 + 2] = fields[2] /\ f[3 + 3] = fields[3] /\ f[3 + 4] = fields[4]
       /\ f[3 + 5] = fields[5]
  BY <1>7 DEF Carries
<1>13. f[5] = id /\ f[6] = lo /\ f[7] = hi /\ f[8] = instruction
  BY <1>6, <1>12
<1>14. \A i \in 1..n : f[8 + i] = params[i]
  <2>1. 3 + 5 = 8
    OBVIOUS
  <2> QED BY <1>7, <2>1 DEF Carries
<1>15. MakeWord(f[6], f[7]) = n + 3
  BY <1>2, <1>13, SMTT(30)
<1> QED BY <1>9, <1>11, <1>13, <1>14, <1>15 DEF Framed, f

(* A packet that is taken as one and in one piece.                           *)
LEMMA WholeIs ==
    ASSUME NEW f \in Seq(Byte)
    PROVE  IsWhole(f) <=> /\ Len(f) \in 8..255
                          /\ f[1] = 255 /\ f[2] = 255 /\ f[3] = 253
                          /\ 7 + MakeWord(f[6], f[7]) = Len(f)
<1>1. Header[1] = 255 /\ Header[2] = 255 /\ Header[3] = 253
  BY DEF Header
<1>2. PacketSize(f) = 7 + MakeWord(f[6], f[7])
  BY DEF PacketSize, getLength
<1>3. ASSUME Len(f) \in 8..255
      PROVE  ~BadHeader(f) <=> f[1] = 255 /\ f[2] = 255 /\ f[3] = 253
  <2>1. 1 <= Len(f) /\ 2 <= Len(f) /\ 3 <= Len(f)
    <3>1. \A n \in 8..255 : 1 <= n /\ 2 <= n /\ 3 <= n
      OBVIOUS
    <3> QED BY <1>3, <3>1
  <2>2. 1..0 = {} /\ 1..1 = {1} /\ 1..2 = {1, 2} /\ 1..3 = {1, 2, 3}
    OBVIOUS
  <2>3. BadHeaderAt(f, 1) <=> f[1] # 255
    <3>1. 1..1-1 = {}
      OBVIOUS
    <3> QED BY <1>1, <2>1, <3>1 DEF BadHeaderAt
  <2>4. BadHeaderAt(f, 2) <=> f[1] = 255 /\ f[2] # 255
    <3>1. 1..2-1 = {1}
      OBVIOUS
    <3> QED BY <1>1, <2>1, <3>1 DEF BadHeaderAt
  <2>5. BadHeaderAt(f, 3) <=> f[1] = 255 /\ f[2] = 255 /\ f[3] # 253
    <3>1. 1..3-1 = {1, 2}
      OBVIOUS
    <3> QED BY <1>1, <2>1, <3>1 DEF BadHeaderAt
  <2>6. BadHeader(f) <=> BadHeaderAt(f, 1) \/ BadHeaderAt(f, 2) \/ BadHeaderAt(f, 3)
    BY <2>2, SMTT(30) DEF BadHeader
  <2> QED BY <2>3, <2>4, <2>5, <2>6
<1>4. ASSUME Len(f) \in 8..255, PacketSize(f) = Len(f)
      PROVE  Len(f) >= 7 /\ PacketSize(f) <= Len(f)
  <2>1. \A n \in 8..255 : n >= 7 /\ n <= n
    OBVIOUS
  <2> QED BY <1>4, <2>1
<1> QED BY <1>2, <1>3, <1>4 DEF IsWhole, HasPacket

(* What a servo says.                                                        *)
Said(id, op, reg) == IF op = "ping" THEN <<94, 1, 29>> ELSE Value[<<id, reg>>]

(* What one servo puts on the line, if it answers.                           *)
LEMMA SaidIs ==
    ASSUME NEW id \in Byte, NEW op, NEW reg, op # "ping" => reg \in Regs
    PROVE  /\ Said(id, op, reg) \in Seq(Byte) /\ Len(Said(id, op, reg)) \in 1..3
           /\ op # "ping" => /\ Said(id, op, reg) = Value[<<id, reg>>]
                             /\ Len(Said(id, op, reg)) \in 1..2
<1>1. CASE op = "ping"
  <2>1. <<94, 1, 29>> \in Seq(Byte) /\ Len(<<94, 1, 29>>) = 3
    BY DEF Byte
  <2> QED BY <1>1, <2>1 DEF Said
<1>2. CASE op # "ping"
  <2>1. Value[<<id, reg>>] \in Seq(Byte) /\ Len(Value[<<id, reg>>]) \in 1..2
    BY <1>2, LineAssumption
  <2>2. \A n \in 1..2 : n \in 1..3
    OBVIOUS
  <2> QED BY <1>2, <2>1, <2>2 DEF Said
<1> QED BY <1>1, <1>2

(* What a status says of a register.                                         *)
ValueIn(v) == IF Len(v) = 1 THEN v[1] ELSE MakeWord(v[1], v[2])

(* An answer is a whole packet that tells who sends it and, to pull, what    *)
(* the register holds.                                                       *)
LEMMA AnswerIs ==
    ASSUME NEW id \in Byte, NEW op, NEW reg, op # "ping" => reg \in Regs
    PROVE  LET f == AnswerOf(id, op, reg) IN
           /\ f \in Seq(Byte) /\ IsWhole(f) /\ f[8] = Status /\ f[5] = id
           /\ op # "ping" => PulledValue(f) = ValueIn(Value[<<id, reg>>])
<1> DEFINE v == Said(id, op, reg)
           f == AnswerOf(id, op, reg)
<1>1. v \in Seq(Byte) /\ Len(v) \in 1..3
  BY SaidIs
<1>2. op # "ping" => v = Value[<<id, reg>>] /\ Len(v) \in 1..2
  BY SaidIs
<1>3. f = Frame(id, Status, <<0>> \o v)
  BY DEF AnswerOf, StatusFrame, Said
<1> HIDE DEF v, f
<1>4. PICK n \in 1..3 : n = Len(v)
  BY <1>1
<1>5. n \in Nat /\ SizedSeq(Byte, n, v)
  BY <1>1, <1>4 DEF SizedSeq
<1>6. SizedSeq(Byte, 1, <<0>>) /\ Status \in Byte
  BY DEF SizedSeq, Byte, Status
<1> DEFINE params == <<0>> \o v
<1>7. SizedSeq(Byte, 1 + n, params) /\ Carries(params, 1, v, n)
  BY <1>5, <1>6, JoinedAre
<1> HIDE DEF params
<1>8. 1 + n \in 0..200
  <2>1. \A m \in 1..3 : 1 + m \in 0..200
    OBVIOUS
  <2> QED BY <2>1
<1>9. /\ f \in Seq(Byte) /\ Len(f) = 1 + n + 10
      /\ f[1] = 255 /\ f[2] = 255 /\ f[3] = 253
      /\ f[5] = id /\ f[8] = Status
      /\ MakeWord(f[6], f[7]) = 1 + n + 3
      /\ \A i \in 1..1+n : f[8 + i] = params[i]
  <2>1. Framed(f, id, Status, params, 1 + n)
    <3>1. Framed(Frame(id, Status, params), id, Status, params, 1 + n)
      BY <1>6, <1>7, <1>8, FrameIs
    <3> QED BY <1>3, <3>1 DEF params
  <2> QED BY <2>1 DEF Framed
<1>10. Len(f) \in 8..255 /\ 7 + MakeWord(f[6], f[7]) = Len(f)
  <2>1. \A m \in 1..3 : 1 + m + 10 \in 8..255 /\ 7 + (1 + m + 3) = 1 + m + 10
    BY SMTT(30)
  <2> QED BY <1>9, <2>1
<1>11. IsWhole(f)
  BY <1>9, <1>10, WholeIs
<1>12. ASSUME op # "ping" PROVE PulledValue(f) = ValueIn(v)
  <2>1. n \in 1..2
    BY <1>2, <1>4, <1>12
  <2>2. GetLength(f) = n + 4 /\ getParameterCount(f) % 256 = n + 1
    <3>1. ~(Len(f) < 7)
      BY <1>10
    <3>2. GetLength(f) = MakeWord(f[6], f[7])
      BY <3>1 DEF GetLength, getLength
    <3>3. GetLength(f) = n + 4
      BY <1>4, <1>9, <3>2
    <3>4. ((n + 4 - 3) % 65536) % 256 = n + 1
      BY <2>1
    <3> QED BY <3>3, <3>4 DEF getParameterCount
  <2>3. f[10] = v[1] /\ getParameter(f, 1) = f[10]
    <3>1. 1 + 1 \in 1..1+n /\ 1 \in 1..n /\ 8 + (1 + 1) = 10
      BY <2>1
    <3>2. params[1 + 1] = v[1]
      BY <1>7, <3>1 DEF Carries
    <3>3. f[8 + (1 + 1)] = params[1 + 1]
      BY <1>9, <3>1
    <3>4. ~(Len(f) < 9 + 1) /\ 9 + 1 = 10
      BY <1>9, <2>1
    <3> QED BY <3>1, <3>2, <3>3, <3>4 DEF getParameter
  <2>4. CASE n = 1
    <3>1. PulledValue(f) = getParameter(f, 1)
      BY <2>2, <2>4 DEF PulledValue
    <3> QED BY <1>4, <2>3, <2>4, <3>1 DEF ValueIn
  <2>5. CASE n = 2
    <3>1. PulledValue(f) = MakeWord(getParameter(f, 1), getParameter(f, 2))
      BY <2>2, <2>5 DEF PulledValue
    <3>2. f[11] = v[2] /\ getParameter(f, 2) = f[11]
      <4>1. 1 + 2 \in 1..1+n /\ 2 \in 1..n /\ 8 + (1 + 2) = 11
        BY <2>5
      <4>2. params[1 + 2] = v[2]
        BY <1>7, <4>1 DEF Carries
      <4>3. f[8 + (1 + 2)] = params[1 + 2]
        BY <1>9, <4>1
      <4>4. ~(Len(f) < 9 + 2) /\ 9 + 2 = 11
        BY <1>9, <2>5
      <4> QED BY <4>1, <4>2, <4>3, <4>4 DEF getParameter
    <3> QED BY <1>4, <2>3, <2>5, <3>1, <3>2 DEF ValueIn
  <2> QED BY <2>1, <2>4, <2>5
<1> QED BY <1>2, <1>9, <1>11, <1>12 DEF f
-----------------------------------------------------------------------------
(* As many elements as a sequence has without saying one twice.              *)
LEMMA InjectiveFits ==
    ASSUME NEW S, IsFiniteSet(S), NEW s \in Seq(S), IsInjective(s)
    PROVE  Len(s) <= Cardinality(S)
<1> DEFINE n == Len(s)
<1>1. n \in Nat /\ s \in [1..n -> S]
  BY LenProperties, ElementOfSeq
<1> HIDE DEF n
<1>2. s \in Injection(1..n, S)
  BY <1>1 DEF Injection
<1>3. Cardinality(1..n) <= Cardinality(S)
  BY <1>2, FS_Injection
<1>4. 1 \in Int /\ n \in Int
  BY <1>1
<1>5. Cardinality(1..n) = IF 1 > n THEN 0 ELSE n - 1 + 1
  BY <1>4, FS_Interval
<1>6. (IF 1 > n THEN 0 ELSE n - 1 + 1) = n
  BY <1>1
<1> QED BY <1>3, <1>5, <1>6 DEF n

(* No servo has two places on the line: its ids are fewer than eight bits count. *)
LEMMA ChainIsShort == Len(Chain) <= 253
<1>1. 0 \in Int /\ 252 \in Int
  OBVIOUS
<1>2. IsFiniteSet(0..252) /\ Cardinality(0..252) = IF 0 > 252 THEN 0 ELSE 252 - 0 + 1
  BY <1>1, FS_Interval
<1>3. Chain \in Seq(0..252) /\ IsInjective(Chain)
  BY LineAssumption
<1>4. Len(Chain) <= Cardinality(0..252)
  BY <1>2, <1>3, InjectiveFits
<1>5. (IF 0 > 252 THEN 0 ELSE 252 - 0 + 1) = 253
  OBVIOUS
<1> QED BY <1>2, <1>4, <1>5

(* No more ids are selected than it takes to name them.                      *)
LEMMA SelectedFew ==
    ASSUME TypeOK
    PROVE  IsFiniteSet(Selected) /\ Cardinality(Selected) <= mSelectSize
<1> DEFINE n == mSelectSize
           f == [i \in 1..n |-> mSelectIds[i]]
<1>1. n \in Nat
  BY SizesAssumption DEF TypeOK
<1>2. Selected = {mSelectIds[i] : i \in 1..n}
  BY DEF Selected
<1> HIDE DEF n
<1>3. f \in Surjection(1..n, Selected)
  <2>1. f \in [1..n -> Selected]
    BY <1>2
  <2>2. \A t \in Selected : \E i \in 1..n : f[i] = t
    BY <1>2
  <2> QED BY <2>1, <2>2 DEF Surjection
<1> HIDE DEF f
<1>4. 1 \in Int /\ n \in Int
  BY <1>1
<1>5. IsFiniteSet(1..n) /\ Cardinality(1..n) = IF 1 > n THEN 0 ELSE n - 1 + 1
  BY <1>4, FS_Interval
<1>6. (IF 1 > n THEN 0 ELSE n - 1 + 1) = n
  BY <1>1
<1>7. IsFiniteSet(Selected) /\ Cardinality(Selected) <= Cardinality(1..n)
  BY <1>3, <1>5, FS_Surjection
<1> QED BY <1>5, <1>6, <1>7 DEF n

(* s names some of who, none twice, each from the first k of the chain.      *)
Named(s, k, who) ==
    /\ s \in Seq(0..252) /\ Len(s) <= k /\ IsInjective(s)
    /\ \A j \in 1..Len(s) : s[j] \in who /\ \E i \in 1..k : s[j] = Chain[i]

(* The next of the chain is another one.                                     *)
LEMMA NameNext ==
    ASSUME NEW who, NEW k \in Nat, k < Len(Chain), NEW s, Named(s, k, who),
           NEW e, \/ e = <<>>
                  \/ Chain[k + 1] \in who /\ e = <<Chain[k + 1]>>
    PROVE  Named(s \o e, k + 1, who)
<1> DEFINE next == Chain[k + 1]
<1>1. /\ Len(Chain) \in Nat /\ s \in Seq(0..252) /\ Len(s) \in Nat /\ Len(s) <= k
      /\ \A a, b \in 1..Len(s) : s[a] = s[b] => a = b
      /\ \A j \in 1..Len(s) : s[j] \in who /\ \E i \in 1..k : s[j] = Chain[i]
      /\ \A a, b \in 1..Len(Chain) : Chain[a] = Chain[b] => a = b
  BY LineAssumption, LenProperties DEF Named, IsInjective
<1>2. CASE e = <<>>
  <2>1. s \o e = s
    BY <1>1, <1>2, ConcatEmptySeq
  <2>2. Len(s) <= k + 1
    BY <1>1
  <2>3. \A i \in 1..k : i \in 1..k+1
    OBVIOUS
  <2> QED BY <2>1, <2>2, <2>3 DEF Named
<1>3. CASE next \in who /\ e = <<next>>
  <2>0. k + 1 \in 1..Len(Chain) /\ k + 1 \in 1..k+1 /\ \A i \in 1..k : i \in 1..Len(Chain)
        /\ i # k + 1 /\ i \in 1..k+1
    BY <1>1
  <2>1. next \in 0..252
    BY <2>0, LineAssumption, ElementOfSeq
  <2> DEFINE t == Append(s, next)
  <2>2. s \o e = t
    BY <1>1, <1>3, <2>1, AppendIsConcat
  <2>3. /\ t \in Seq(0..252) /\ Len(t) = Len(s) + 1
        /\ \A j \in 1..Len(s) : t[j] = s[j]
        /\ t[Len(s) + 1] = next
    BY <1>1, <2>1, AppendProperties
  <2>4. \A j \in 1..Len(s) : s[j] # next
    BY <1>1, <2>0
  <2> HIDE DEF t, next
  <2>5. \A j \in 1..Len(t) : j \in 1..Len(s) \/ j = Len(s) + 1
    BY <1>1, <2>3
  <2>6. \A a, b \in 1..Len(t) : t[a] = t[b] => a = b
    BY <1>1, <2>3, <2>4, <2>5
  <2>7. IsInjective(t)
    <3>1. DOMAIN t = 1..Len(t)
      BY <2>3, LenProperties
    <3> QED BY <2>6, <3>1 DEF IsInjective
  <2>8. \A j \in 1..Len(t) : t[j] \in who /\ \E i \in 1..k+1 : t[j] = Chain[i]
    <3>1. t[Len(s) + 1] \in who /\ \E i \in 1..k+1 : t[Len(s) + 1] = Chain[i]
      BY <1>3, <2>0, <2>3 DEF next
    <3> QED BY <1>1, <2>0, <2>3, <2>5, <3>1
  <2>9. Len(t) <= k + 1
    BY <1>1, <2>3
  <2> QED BY <2>2, <2>3, <2>7, <2>8, <2>9 DEF Named
<1> QED BY <1>2, <1>3
-----------------------------------------------------------------------------
(* A turn on a quiet line, and who speaks: nobody, a packet that is no       *)
(* answer, or a servo that answers.                                          *)
Turn(bytes, names, op, reg) ==
    \/ bytes = <<>> /\ names = <<>>
    \/ /\ bytes \in Seq(Byte) /\ IsWhole(bytes) /\ bytes[8] # Status
       /\ names = <<>>
    \/ \E id \in Byte : bytes = AnswerOf(id, op, reg) /\ names = <<id>>

(* What comes, turn by turn, and who speaks in it.                           *)
Script(b, w, op, reg) ==
    /\ b \in Seq(Seq(Byte)) /\ w \in Seq(Seq(Byte)) /\ Len(w) = Len(b)
    /\ \A i \in 1..Len(b) : Turn(b[i], w[i], op, reg)

(* The answers of the chain, and its names.                                  *)
Answers(who, op, reg) == [i \in 1..Len(Chain) |->
    IF Chain[i] \in who THEN AnswerOf(Chain[i], op, reg) ELSE <<>>]
Names(who) == [i \in 1..Len(Chain) |->
    IF Chain[i] \in who THEN <<Chain[i]>> ELSE <<>>]

(* Who answers says its name, once.                                          *)
LEMMA NamesAre ==
    ASSUME NEW who
    PROVE  Named(InOrder(who), Len(Chain), who)
<1> DEFINE names == Names(who)
           Bad(k) == ~Named(FirstOf(names, k), k, who)
           T == {k \in 0..Len(Chain) : Bad(k)}
<1>1. Len(Chain) \in Nat /\ \A i \in 1..Len(Chain) : Chain[i] \in 0..252
  BY LineAssumption, LenProperties, ElementOfSeq
<1>2. /\ names \in Seq(Seq(0..252)) /\ Len(names) = Len(Chain)
      /\ \A i \in 1..Len(Chain) :
            names[i] = IF Chain[i] \in who THEN <<Chain[i]>> ELSE <<>>
  <2> DEFINE e(i) == IF Chain[i] \in who THEN <<Chain[i]>> ELSE <<>>
  <2>1. \A i \in 1..Len(Chain) : e(i) \in Seq(0..252)
    <3>1. \A x \in 0..252 : <<x>> \in Seq(0..252)
      OBVIOUS
    <3> QED BY <1>1, <3>1, EmptySeq
  <2>2. names = [i \in 1..Len(Chain) |-> e(i)]
    BY DEF Names
  <2> HIDE DEF e
  <2>3. names \in Seq(Seq(0..252)) /\ Len(names) = Len(Chain)
        /\ \A i \in 1..Len(Chain) : names[i] = e(i)
    BY <1>1, <2>1, <2>2, IsASeq
  <2> QED BY <2>3 DEF e
<1>3. InOrder(who) = FirstOf(names, Len(Chain))
  <2>1. InOrder(who) = FlattenSeq(names)
    BY DEF InOrder, Names
  <2> QED BY <1>2, <2>1, NoneAndAll
<1> HIDE DEF names
<1>4. ~Bad(0)
  <2>1. FirstOf(names, 0) = <<>>
    BY <1>2, NoneAndAll
  <2>2. PICK s \in Seq(0..252) : s = <<>>
    BY EmptySeq
  <2>3. Len(s) = 0 /\ Len(s) <= 0 /\ 1..Len(s) = {}
    BY <2>2, EmptySeq
  <2>4. IsInjective(s)
    <3>1. DOMAIN s = {}
      BY <2>2, EmptySeq, LenProperties
    <3> QED BY <3>1 DEF IsInjective
  <2>5. Named(s, 0, who)
    BY <2>3, <2>4 DEF Named
  <2> QED BY <2>1, <2>2, <2>5
<1>5. ASSUME NEW k \in Nat, k < Len(Chain), ~Bad(k) PROVE ~Bad(k + 1)
  <2>1. FirstOf(names, k + 1) = FirstOf(names, k) \o names[k + 1]
    BY <1>2, <1>5, NextOf
  <2>2. k + 1 \in 1..Len(Chain)
    BY <1>1, <1>5
  <2>3. \/ names[k + 1] = <<>>
        \/ Chain[k + 1] \in who /\ names[k + 1] = <<Chain[k + 1]>>
    BY <1>2, <2>2
  <2>4. Named(FirstOf(names, k), k, who)
    BY <1>5
  <2>5. Named(FirstOf(names, k) \o names[k + 1], k + 1, who)
    BY <1>5, <2>3, <2>4, NameNext
  <2> QED BY <2>1, <2>5
<1> HIDE DEF Bad
<1>6. T = {}
  <2> SUFFICES ASSUME T # {} PROVE FALSE
    OBVIOUS
  <2>1. T \in SUBSET Nat
    BY <1>1
  <2>2. PICK x \in T : \A y \in T : x <= y
    <3> HIDE DEF T
    <3> QED BY <2>1, Smallest
  <2>3. x \in 0..Len(Chain) /\ Bad(x)
    OBVIOUS
  <2>4. x # 0
    BY <1>4, <2>3
  <2>5. x - 1 \in Nat /\ x - 1 < Len(Chain) /\ x - 1 \in 0..Len(Chain)
        /\ ~(x <= x - 1) /\ x - 1 + 1 = x
    BY <1>1, <2>3, <2>4
  <2>6. ~Bad(x - 1)
    BY <2>2, <2>5
  <2> HIDE DEF T
  <2> QED BY <1>5, <2>3, <2>5, <2>6
<1>7. Len(Chain) \in 0..Len(Chain)
  BY <1>1
<1>8. ~Bad(Len(Chain))
  BY <1>6, <1>7
<1> QED BY <1>3, <1>8 DEF Bad

(* The answers of the chain are turns.                                       *)
LEMMA ChainSpeaks ==
    ASSUME NEW who, NEW op, NEW reg, op # "ping" => who = {} \/ reg \in Regs
    PROVE  Script(Answers(who, op, reg), Names(who), op, reg)
<1> DEFINE b == Answers(who, op, reg)
           w == Names(who)
           n == Len(Chain)
<1>1. n \in Nat /\ \A i \in 1..n : Chain[i] \in Byte
  <2>1. n \in Nat /\ \A i \in 1..n : Chain[i] \in 0..252
    BY LineAssumption, LenProperties, ElementOfSeq
  <2>2. \A x \in 0..252 : x \in Nat /\ x < 256
    OBVIOUS
  <2> QED BY <2>1, <2>2, ByteIs
<1> HIDE DEF n
<1> DEFINE e(i) == IF Chain[i] \in who THEN AnswerOf(Chain[i], op, reg) ELSE <<>>
           f(i) == IF Chain[i] \in who THEN <<Chain[i]>> ELSE <<>>
<1>2. b = [i \in 1..n |-> e(i)] /\ w = [i \in 1..n |-> f(i)]
  BY DEF Answers, Names, n
<1>3. ASSUME NEW i \in 1..n
      PROVE  e(i) \in Seq(Byte) /\ f(i) \in Seq(Byte) /\ Turn(e(i), f(i), op, reg)
  <2>1. CASE Chain[i] \in who
    <3>1. AnswerOf(Chain[i], op, reg) \in Seq(Byte)
      BY <1>1, <2>1, AnswerIsBytes
    <3>2. \A x \in Byte : <<x>> \in Seq(Byte)
      OBVIOUS
    <3>3. <<Chain[i]>> \in Seq(Byte)
      BY <1>1, <3>2
    <3>4. Turn(AnswerOf(Chain[i], op, reg), <<Chain[i]>>, op, reg)
      BY <1>1, Zenon DEF Turn
    <3> QED BY <2>1, <3>1, <3>3, <3>4
  <2>2. CASE Chain[i] \notin who
    <3>1. e(i) = <<>> /\ f(i) = <<>>
      BY <2>2
    <3>2. <<>> \in Seq(Byte)
      BY EmptySeq
    <3> HIDE DEF e, f
    <3> QED BY <3>1, <3>2 DEF Turn
  <2> QED BY <2>1, <2>2
<1> HIDE DEF b, w, e, f
<1>4. b \in Seq(Seq(Byte)) /\ Len(b) = n /\ \A i \in 1..n : b[i] = e(i)
  BY <1>1, <1>2, <1>3, IsASeq
<1>5. w \in Seq(Seq(Byte)) /\ Len(w) = n /\ \A i \in 1..n : w[i] = f(i)
  BY <1>1, <1>2, <1>3, IsASeq
<1>6. Script(b, w, op, reg)
  BY <1>3, <1>4, <1>5 DEF Script
<1> QED BY <1>6 DEF b, w

(* A turn before others, in which no servo speaks.                           *)
Opened(c, v, front, b, w, op, reg) ==
    /\ Script(c, v, op, reg)
    /\ FlattenSeq(c) = front \o FlattenSeq(b) /\ FlattenSeq(v) = FlattenSeq(w)

(* What is before the answers is no answer.                                  *)
LEMMA FrontSpeaks ==
    ASSUME NEW op, NEW reg, NEW b, NEW w, Script(b, w, op, reg),
           NEW front \in Seq(Byte), Turn(front, <<>>, op, reg)
    PROVE  Opened(<<front>> \o b, <<<<>>>> \o w, front, b, w, op, reg)
<1>1. /\ b \in Seq(Seq(Byte)) /\ w \in Seq(Seq(Byte)) /\ Len(w) = Len(b)
      /\ \A i \in 1..Len(b) : Turn(b[i], w[i], op, reg)
  BY DEF Script
<1>2. <<>> \in Seq(Byte)
  BY EmptySeq
<1> DEFINE c == <<front>> \o b
           v == <<<<>>>> \o w
<1>3. /\ c \in Seq(Seq(Byte)) /\ Len(c) = Len(b) + 1 /\ c[1] = front
      /\ \A i \in 1..Len(b) : c[i + 1] = b[i]
      /\ FlattenSeq(c) = front \o FlattenSeq(b)
  <2>1. Fronted(Byte, c, front, b)
    BY <1>1, FlattenCons
  <2> QED BY <2>1 DEF Fronted
<1>4. /\ v \in Seq(Seq(Byte)) /\ Len(v) = Len(w) + 1 /\ v[1] = <<>>
      /\ \A i \in 1..Len(w) : v[i + 1] = w[i]
      /\ FlattenSeq(v) = <<>> \o FlattenSeq(w)
  <2>1. Fronted(Byte, v, <<>>, w)
    BY <1>1, <1>2, FlattenCons
  <2> QED BY <2>1 DEF Fronted
<1>5. <<>> \o FlattenSeq(w) = FlattenSeq(w)
  BY <1>1, FlattenType, ConcatEmptySeq
<1>6. Len(b) \in Nat
  BY <1>1, LenProperties
<1> HIDE DEF c, v
<1>7. ASSUME NEW i \in 1..Len(c) PROVE Turn(c[i], v[i], op, reg)
  <2>1. CASE i = 1
    BY <1>3, <1>4, <2>1
  <2>2. CASE i # 1
    <3>1. PICK j \in 1..Len(b) : j + 1 = i
      <4>1. i - 1 \in 1..Len(b) /\ (i - 1) + 1 = i
        BY <1>3, <1>6, <2>2
      <4> QED BY <4>1
    <3>2. c[i] = b[j] /\ v[i] = w[j]
      BY <1>1, <1>3, <1>4, <3>1
    <3> QED BY <1>1, <3>2
  <2> QED BY <2>1, <2>2
<1>8. Script(c, v, op, reg)
  BY <1>1, <1>3, <1>4, <1>7 DEF Script
<1> QED BY <1>3, <1>4, <1>5, <1>8 DEF c, v, Opened
-----------------------------------------------------------------------------
(* What was received of the turns, and what is still to come.                *)
Received(b) ==
    LET r == FlattenSeq(b) IN
    /\ mRxBufferSize <= Len(r)
    /\ \A i \in 1..mRxBufferSize : mRxBuffer[i - 1] = r[i]
    /\ uart \o line = From(r, mRxBufferSize + 1)

(* Who answers, each once, and to pull only who was selected.                *)
Answering(w) ==
    /\ answered = FlattenSeq(w) /\ IsInjective(answered)
    /\ Len(answered) <= Len(Chain)
    /\ call.op # "ping" => /\ Len(answered) <= mSelectSize
                           /\ ToSet(answered) \subseteq Selected

(* What the call knows after the answers of taken.                           *)
ToldPull(taken) ==
    /\ ids = <<>>
    /\ \A i \in 1..mSelectSize :
        /\ returnVector[i] \in {NoAnswer, ValueOf(mSelectIds[i])}
        /\ mSelectIds[i] \in ToSet(taken) /\ FirstIndex(mSelectIds[i], i)
            => returnVector[i] = ValueOf(mSelectIds[i])

Told(taken) ==
    /\ number = Len(taken)
    /\ call.op = "ping" => ids = taken
    /\ call.op # "ping" => ToldPull(taken)

(* The pointer is behind the n-th turn.                                      *)
AtTurn(b, w, n) == mRxPtr = Len(FirstOf(b, n)) /\ Told(FirstOf(w, n))

CallInv(b, w) ==
    /\ Script(b, w, call.op, call.reg) /\ Received(b) /\ Answering(w)
    /\ call.op = "pull" => call.reg \in Regs
    /\ pc = "receive" => number = 0
    /\ pc = "parse" => call.op \in {"ping", "pull"}
    /\ pc = "parse" /\ ~Overrun => \E n \in 0..Len(b) : AtTurn(b, w, n)

(* A call on a quiet line knows where it is.                                 *)
QuietInv ==
    /\ fresh /\ ~noisy /\ pc # "idle" => \E b, w : CallInv(b, w)
    /\ fresh /\ ~noisy /\ ~Overrun => Len(ids) <= Len(Chain)

(* The types of a script.                                                    *)
LEMMA ScriptIs ==
    ASSUME NEW b, NEW w, NEW op, NEW reg, Script(b, w, op, reg)
    PROVE  /\ b \in Seq(Seq(Byte)) /\ w \in Seq(Seq(Byte))
           /\ Len(b) \in Nat /\ Len(w) = Len(b)
           /\ FlattenSeq(b) \in Seq(Byte) /\ FlattenSeq(w) \in Seq(Byte)
           /\ Len(FlattenSeq(b)) \in Nat /\ Len(FlattenSeq(w)) \in Nat
<1>1. b \in Seq(Seq(Byte)) /\ w \in Seq(Seq(Byte)) /\ Len(w) = Len(b)
  BY DEF Script
<1>2. FlattenSeq(b) \in Seq(Byte) /\ FlattenSeq(w) \in Seq(Byte)
  BY <1>1, FlattenType
<1> QED BY <1>1, <1>2, LenProperties

(* After the turn that the pointer has reached comes the end, or another one. *)
LEMMA TurnAhead ==
    ASSUME NEW b, NEW w, CallInv(b, w), pc = "parse", ~Overrun
    PROVE  \E n \in 0..Len(b) : /\ AtTurn(b, w, n)
                                /\ n < Len(b) => b[n + 1] # <<>>
<1> DEFINE T == {m \in 0..Len(b) : AtTurn(b, w, Len(b) - m)}
<1>1. /\ b \in Seq(Seq(Byte)) /\ w \in Seq(Seq(Byte)) /\ Len(b) \in Nat /\ Len(w) = Len(b)
      /\ \A i \in 1..Len(b) : Turn(b[i], w[i], call.op, call.reg)
  BY ScriptIs DEF CallInv, Script
<1>2. PICK k \in 0..Len(b) : AtTurn(b, w, k)
  BY DEF CallInv
<1>3. T # {} /\ T \in SUBSET Nat
  <2>1. Len(b) - k \in 0..Len(b) /\ Len(b) - (Len(b) - k) = k
    BY <1>1
  <2>2. AtTurn(b, w, Len(b) - (Len(b) - k))
    BY <1>2, <2>1
  <2>3. Len(b) - k \in T
    BY <2>1, <2>2
  <2>4. T \in SUBSET Nat
    BY <1>1
  <2> QED BY <2>3, <2>4
<1>4. PICK m \in T : \A y \in T : m <= y
  <2> HIDE DEF T
  <2> QED BY <1>3, Smallest
<1>5. m \in 0..Len(b) /\ AtTurn(b, w, Len(b) - m)
  OBVIOUS
<1>6. PICK n \in 0..Len(b) : n = Len(b) - m
  BY <1>1, <1>5
<1>7. AtTurn(b, w, n)
  BY <1>5, <1>6
<1>8. ASSUME n < Len(b), b[n + 1] = <<>> PROVE FALSE
  <2>1. n \in Nat /\ n + 1 \in 1..Len(b) /\ n < Len(w)
    BY <1>1, <1>8
  <2>2. FirstOf(b, n + 1) = FirstOf(b, n) \o b[n + 1] /\ FirstOf(b, n) \in Seq(Byte)
    BY <1>1, <1>8, <2>1, NextOf
  <2>3. FirstOf(w, n + 1) = FirstOf(w, n) \o w[n + 1] /\ FirstOf(w, n) \in Seq(Byte)
    BY <1>1, <2>1, NextOf
  <2>4. w[n + 1] = <<>>
    <3>1. Turn(<<>>, w[n + 1], call.op, call.reg)
      <4>1. Turn(b[n + 1], w[n + 1], call.op, call.reg)
        BY <1>1, <2>1
      <4> QED BY <1>8, <4>1
    <3>2. Len(<<>>) = 0 /\ ~IsWhole(<<>>)
      BY EmptySeq DEF IsWhole
    <3>3. CASE \E id \in Byte : <<>> = AnswerOf(id, call.op, call.reg)
      <4>1. PICK id \in Byte : <<>> = AnswerOf(id, call.op, call.reg)
        BY <3>3
      <4>2. call.op # "ping" => call.reg \in Regs
        BY DEF CallInv
      <4>3. IsWhole(AnswerOf(id, call.op, call.reg))
        BY <4>2, AnswerIs
      <4> QED BY <3>2, <4>1, <4>3
    <3> QED BY <3>1, <3>2, <3>3 DEF Turn
  <2>5. FirstOf(b, n + 1) = FirstOf(b, n) /\ FirstOf(w, n + 1) = FirstOf(w, n)
    BY <1>8, <2>2, <2>3, <2>4, ConcatEmptySeq
  <2>6. AtTurn(b, w, n + 1)
    BY <1>7, <2>5 DEF AtTurn
  <2>7. m - 1 \in 0..Len(b) /\ Len(b) - (m - 1) = n + 1 /\ ~(m <= m - 1)
    BY <1>1, <1>5, <1>6, <1>8
  <2>8. m - 1 \in T
    BY <2>6, <2>7
  <2> HIDE DEF T
  <2> QED BY <1>4, <2>7, <2>8
<1> QED BY <1>7, <1>8
-----------------------------------------------------------------------------
(* What of f was received lies at the pointer.                               *)
Seen(f, beyond) ==
    \A i \in 1..Len(f) : i <= Left => At(mRxPtr + i - 1, beyond) = f[i]

(* What the buffer holds behind the pointer is the packet that lies there.   *)
LEMMA SeenIs ==
    ASSUME RxInv, ~Overrun, NEW b, Received(b), FlattenSeq(b) \in Seq(Byte),
           NEW f \in Seq(Byte), Lies(FlattenSeq(b), mRxPtr, f), NEW beyond
    PROVE  Seen(f, beyond)
<1> SUFFICES ASSUME NEW i \in 1..Len(f), i <= Left
             PROVE  At(mRxPtr + i - 1, beyond) = f[i]
  BY DEF Seen
<1>1. /\ mRxPtr \in Nat /\ mRxBufferSize \in Nat /\ RxBufferSizeMax \in Nat
      /\ mRxBufferSize <= RxBufferSizeMax /\ Len(f) \in Nat
      /\ Left = mRxBufferSize - mRxPtr
  BY SizesAssumption, LeftIs, LenProperties DEF RxInv, TypeOK
<1>2. mRxPtr + i \in 1..mRxBufferSize /\ mRxPtr + i - 1 < RxBufferSizeMax
  BY <1>1
<1>3. mRxBuffer[mRxPtr + i - 1] = FlattenSeq(b)[mRxPtr + i]
  <2>1. PICK j \in 1..mRxBufferSize : j = mRxPtr + i
    BY <1>2
  <2>2. mRxBuffer[j - 1] = FlattenSeq(b)[j]
    BY DEF Received
  <2> QED BY <1>1, <2>1, <2>2
<1>4. FlattenSeq(b)[mRxPtr + i] = f[i]
  BY DEF Lies, Carries
<1> QED BY <1>2, <1>3, <1>4 DEF At

(* The bytes that upSize and the length field are read from.                 *)
LEMMA SeenBytes ==
    ASSUME RxInv, NEW f \in Seq(Byte), IsWhole(f), NEW beyond, Seen(f, beyond)
    PROVE  /\ \A k \in 0..2 : k < Left => At(mRxPtr + k, beyond) = Header[k + 1]
           /\ 7 <= Left => /\ 7 + LengthAt(beyond) = Len(f)
                           /\ UpSizeSum(beyond) = Len(f)
                           /\ SizeAt(beyond) = Len(f)
<1>1. /\ Len(f) \in 8..255 /\ f[1] = 255 /\ f[2] = 255 /\ f[3] = 253
      /\ 7 + MakeWord(f[6], f[7]) = Len(f)
  BY WholeIs
<1>7. Len(f) \in 8..255
  BY WholeIs
<1>8. PICK n \in 8..255 : n = Len(f)
  BY <1>7
<1>2. Header[0 + 1] = 255 /\ Header[1 + 1] = 255 /\ Header[2 + 1] = 253
  BY DEF Header
<1>3. mRxPtr \in Nat /\ Left \in Nat
  BY SizesAssumption DEF RxInv, TypeOK, Left
<1>4. ASSUME NEW i \in 1..8, i <= Left PROVE At(mRxPtr + (i - 1), beyond) = f[i]
  <2>0. i \in 1..Len(f)
    <3>1. i \in 1..n
      OBVIOUS
    <3> QED BY <1>8, <3>1
  <2>1. i \in 1..Len(f) /\ mRxPtr + i - 1 = mRxPtr + (i - 1)
    BY <1>3, <2>0
  <2>2. At(mRxPtr + i - 1, beyond) = f[i]
    BY <1>4, <2>1 DEF Seen
  <2> QED BY <2>1, <2>2, SMTT(30)
<1>5. ASSUME NEW k \in 0..2, k < Left PROVE At(mRxPtr + k, beyond) = Header[k + 1]
  <2>1. k + 1 \in 1..8 /\ k + 1 <= Left /\ k + 1 - 1 = k
    BY <1>3, <1>5
  <2>2. At(mRxPtr + (k + 1 - 1), beyond) = f[k + 1]
    BY <1>4, <2>1
  <2>3. f[k + 1] = Header[k + 1]
    <3>1. k = 0 \/ k = 1 \/ k = 2
      OBVIOUS
    <3>2. f[0 + 1] = 255 /\ f[1 + 1] = 255 /\ f[2 + 1] = 253
      BY <1>1, SMTT(30)
    <3> QED BY <1>2, <3>1, <3>2
  <2> QED BY <2>1, <2>2, <2>3
<1>6. ASSUME 7 <= Left
      PROVE  /\ 7 + LengthAt(beyond) = Len(f)
             /\ UpSizeSum(beyond) = Len(f) /\ SizeAt(beyond) = Len(f)
  <2>1. 6 \in 1..8 /\ 7 \in 1..8 /\ 6 <= Left /\ 6 - 1 = 5 /\ 7 - 1 = 6
    BY <1>3, <1>6
  <2>2. At(mRxPtr + 5, beyond) = f[6] /\ At(mRxPtr + 6, beyond) = f[7]
    BY <1>4, <1>6, <2>1
  <2>3. 7 + LengthAt(beyond) = Len(f)
    BY <1>1, <2>2, SMTT(30) DEF LengthAt
  <2>4. n % 256 = n /\ n % 65536 = n /\ n % 131072 = n
    OBVIOUS
  <2> DEFINE sum == 7 + LengthAt(beyond)
  <2>5. sum = n
    BY <1>8, <2>3
  <2> HIDE DEF sum
  <2>6. sum % 256 = n /\ sum % 65536 = n /\ sum % 131072 = n
    BY <2>4, <2>5
  <2>7. UpSizeSum(beyond) = n /\ SizeAt(beyond) = n
    BY <2>6 DEF UpSizeSum, SizeAt, sum
  <2> QED BY <1>8, <2>3, <2>7
<1> QED BY <1>5, <1>6, SMTT(30)

(* A packet that was received is found, and taken as it was sent.            *)
LEMMA WholeIsTaken ==
    ASSUME RxInv, NEW f \in Seq(Byte), IsWhole(f), NEW beyond, Seen(f, beyond),
           Len(f) <= Left
    PROVE  /\ CompletePacket(beyond) /\ PackAt(beyond) = f
           /\ SizeAt(beyond) = Len(f)
           /\ \A k \in 0..2 : ~WrongHeader(k, beyond)
<1>1. Len(f) \in 8..255 /\ Left \in Nat
  BY WholeIs, SizesAssumption DEF RxInv, TypeOK, Left
<1>2. 7 <= Left /\ \A k \in 0..2 : k < Left /\ k <= Left
  <2>1. \A n \in 8..255 : \A l \in Nat : n <= l =>
            7 <= l /\ \A k \in 0..2 : k < l /\ k <= l
    OBVIOUS
  <2> QED BY <1>1, <2>1
<1>3. \A k \in 0..2 : At(mRxPtr + k, beyond) = Header[k + 1]
  BY <1>2, SeenBytes
<1>4. UpSizeSum(beyond) = Len(f) /\ SizeAt(beyond) = Len(f)
  BY <1>2, SeenBytes
<1>5. CompletePacket(beyond)
  BY <1>2, <1>3, <1>4 DEF CompletePacket, GoodHeader
<1>6. \A k \in 0..2 : ~WrongHeader(k, beyond)
  BY <1>3 DEF WrongHeader
<1>7. PackAt(beyond) = f
  <2> DEFINE n == Len(f)
             a(i) == At(mRxPtr + i - 1, beyond)
             p == [i \in 1..n |-> a(i)]
  <2>1. PackAt(beyond) = p
    BY <1>4 DEF PackAt
  <2>2. \A i \in 1..n : i <= Left
    BY <1>1
  <2>3. \A i \in 1..n : a(i) = f[i]
    BY <2>2 DEF Seen
  <2>4. n \in Nat /\ f = [i \in 1..n |-> f[i]]
    BY LenProperties
  <2> HIDE DEF a, n
  <2>5. p = [i \in 1..n |-> f[i]]
    BY <2>3
  <2> QED BY <2>1, <2>4, <2>5
<1> QED BY <1>4, <1>5, <1>6, <1>7, SMTT(30)

(* Of a packet that is cut nothing is taken: the call ends, or the pointer   *)
(* leaves what was received.                                                 *)
LEMMA CutIsNotTaken ==
    ASSUME RxInv, NEW f \in Seq(Byte), IsWhole(f), NEW beyond, Seen(f, beyond),
           Left < Len(f)
    PROVE  /\ ~CompletePacket(beyond)
           /\ \A k \in 0..2 : WrongHeader(k, beyond) => k = Left
<1>1. Len(f) \in 8..255 /\ Left \in Nat
  BY WholeIs, SizesAssumption DEF RxInv, TypeOK, Left
<1>2. 7 <= Left => UpSizeSum(beyond) = Len(f)
  BY SeenBytes
<1>3. ~CompletePacket(beyond)
  BY <1>1, <1>2 DEF CompletePacket
<1>4. ASSUME NEW k \in 0..2, WrongHeader(k, beyond) PROVE k = Left
  <2>1. k <= Left /\ At(mRxPtr + k, beyond) # Header[k + 1]
    BY <1>4 DEF WrongHeader
  <2>2. ~(k < Left)
    BY <2>1, SeenBytes
  <2> QED BY <1>1, <2>1, <2>2
<1> QED BY <1>3, <1>4, SMTT(30)
-----------------------------------------------------------------------------
(* Steps that the call has no part in.                                       *)
LEMMA CallKept ==
    ASSUME NEW b, NEW w, CallInv(b, w),
           UNCHANGED <<selectVars, rxVars, pc, call, resultVars, answered>>,
           (uart \o line)' = uart \o line
    PROVE  CallInv(b, w)'
<1>1. /\ UNCHANGED <<mSelectIds, mSelectSize, mRxBuffer, mRxBufferSize, mRxPtr>>
      /\ UNCHANGED <<pc, call, number, ids, returnVector, answered>>
  BY DEF selectVars, rxVars, resultVars
<1>2. Received(b)'
  BY <1>1 DEF CallInv, Received
<1>3. Answering(w)'
  BY <1>1 DEF CallInv, Answering, Selected
<1>4. ASSUME NEW taken PROVE Told(taken)' <=> Told(taken)
  BY <1>1 DEF Told, ToldPull, FirstIndex, ValueOf
<1>5. ASSUME NEW n PROVE AtTurn(b, w, n)' <=> AtTurn(b, w, n)
  BY <1>1, <1>4 DEF AtTurn
<1>6. Overrun' <=> Overrun
  BY <1>1 DEF Overrun
<1> QED BY <1>1, <1>2, <1>3, <1>5, <1>6 DEF CallInv

(* Steps that no call has a part in.                                         *)
LEMMA QuietKept ==
    ASSUME QuietInv, UNCHANGED <<selectVars, rxVars, pc, call, resultVars>>,
           UNCHANGED history, (uart \o line)' = uart \o line
    PROVE  QuietInv'
<1>1. UNCHANGED <<mRxBufferSize, mRxPtr, ids, answered, fresh, noisy, pc>>
  BY DEF rxVars, resultVars, history
<1>2. ASSUME fresh', ~noisy', pc' # "idle" PROVE \E b, w : CallInv(b, w)'
  <2>1. PICK b, w : CallInv(b, w)
    BY <1>1, <1>2 DEF QuietInv
  <2>2. CallInv(b, w)'
    BY <1>1, <2>1, CallKept
  <2> QED BY <2>2
<1>3. fresh' /\ ~noisy' /\ ~Overrun' => Len(ids') <= Len(Chain)
  BY <1>1 DEF QuietInv, Overrun
<1> QED BY <1>2, <1>3 DEF QuietInv

(* Between the calls.                                                        *)
LEMMA IdleQuiet ==
    ASSUME QuietInv, pc' = "idle", UNCHANGED <<rxVars, ids, fresh, noisy>>
    PROVE  QuietInv'
BY DEF QuietInv, Overrun, rxVars

(* Bytes come, and none is lost on the way.                                  *)
LEMMA ArriveQuiet == ASSUME RxInv, QuietInv, Arrive PROVE QuietInv'
<1>1. PICK n \in Chunks \cup {Len(line)} :
        /\ uart = <<>> /\ n <= Len(line) /\ uart' = SubSeq(line, 1, n)
        /\ line' = SubSeq(line, n + 1, Len(line))
        /\ UNCHANGED <<selectVars, rxVars, pc, call, resultVars>>
        /\ UNCHANGED history
  BY DEF Arrive
<1>2. line \in Seq(Byte) /\ Len(line) \in Nat
  BY LenProperties DEF RxInv, TypeOK
<1>3. n \in Nat
  BY <1>2, LineAssumption
<1>4. SubSeq(line, 1, n) \o From(line, n + 1) = line
  BY <1>1, <1>2, <1>3, CutAndJoin
<1>5. <<>> \o line = line
  BY <1>2, ConcatEmptySeq
<1>6. (uart \o line)' = uart \o line
  BY <1>1, <1>4, <1>5 DEF From
<1> QED BY <1>1, <1>6, QuietKept
-----------------------------------------------------------------------------
(* A new call: the whole answer is on the line, nothing has come of it.      *)
LEMMA SendStarts ==
    ASSUME RxInv, RxInv', NEW op, NEW reg, NEW who, NEW front \in Fronts, NEW back \in Backs,
           op # "ping" => who = {} \/ reg \in Regs, op # "ping" => who \subseteq Selected,
           op = "pull" => reg \in Regs, Send(op, reg, who, front, back),
           fresh', ~noisy'
    PROVE  \E b, w : CallInv(b, w)'
<1>1. /\ call'.op = op /\ call'.reg = reg /\ pc' = "receive"
      /\ mRxBufferSize' = 0 /\ mRxPtr' = 0 /\ number' = 0
      /\ line = <<>> /\ uart = <<>> /\ uart' = <<>>
      /\ UNCHANGED selectVars
  BY DEF Send, dropRxData
<1>2. <<>> \in Seq(Byte) /\ Len(<<>>) = 0 /\ <<>> \in Seq(Seq(Byte))
  BY EmptySeq
<1>3. TypeOK /\ TypeOK' /\ Selected' = Selected /\ mSelectSize' = mSelectSize
  BY <1>1 DEF RxInv, Selected, selectVars
<1>4. SUFFICES ASSUME NEW b, NEW w, Script(b, w, op, reg), line' = FlattenSeq(b),
                      answered' = FlattenSeq(w), Named(FlattenSeq(w), Len(Chain), who)
               PROVE  CallInv(b, w)'
  <2>1. CASE mXlSerialBaudRate = ServoBaud
    <3>1. /\ front \in Quiet /\ back = <<>> /\ answered' = InOrder(who)
          /\ line' = line \o (front \o AnswersOf(who, op, reg) \o back)
      BY <2>1 DEF Send
    <3>2. front \in Seq(Byte) /\ AnswersOf(who, op, reg) \in Seq(Byte)
      BY LineAssumption, AnswersAreBytes
    <3>3. front \o AnswersOf(who, op, reg) \in Seq(Byte)
      BY <3>2, ConcatProperties
    <3>4. line' = front \o AnswersOf(who, op, reg)
      BY <1>1, <3>1, <3>3, ConcatEmptySeq
    <3>5. Turn(front, <<>>, op, reg)
      BY <3>1, <3>2, QuietAssumption DEF Turn, getInstruction
    <3> DEFINE a == Answers(who, op, reg)
               v == Names(who)
               b == <<front>> \o a
               w == <<<<>>>> \o v
    <3>6. Script(a, v, op, reg)
      BY ChainSpeaks
    <3>7. FlattenSeq(a) = AnswersOf(who, op, reg) /\ FlattenSeq(v) = InOrder(who)
      BY DEF Answers, Names, AnswersOf, InOrder
    <3> HIDE DEF a, v
    <3>8. /\ Script(b, w, op, reg) /\ FlattenSeq(b) = front \o FlattenSeq(a)
          /\ FlattenSeq(w) = FlattenSeq(v)
      <4>1. Opened(b, w, front, a, v, op, reg)
        BY <3>2, <3>5, <3>6, FrontSpeaks
      <4> QED BY <4>1 DEF Opened
    <3>9. Named(FlattenSeq(w), Len(Chain), who)
      BY <3>7, <3>8, NamesAre
    <3> HIDE DEF b, w
    <3>10. line' = FlattenSeq(b) /\ answered' = FlattenSeq(w)
      BY <3>1, <3>4, <3>7, <3>8
    <3> QED BY <1>4, <3>8, <3>9, <3>10
  <2>2. CASE mXlSerialBaudRate # ServoBaud
    <3>1. answered' = <<>> /\ line' = line \o <<>>
      BY <2>2 DEF Send
    <3>2. line' = <<>>
      BY <1>1, <1>2, <3>1, ConcatEmptySeq
    <3>3. Script(<<>>, <<>>, op, reg)
      <4>1. PICK e \in Seq(Seq(Byte)) : e = <<>>
        BY <1>2
      <4>2. Len(e) = 0 /\ 1..Len(e) = {}
        BY <1>2, <4>1
      <4>3. Script(e, e, op, reg)
        BY <4>2 DEF Script
      <4> QED BY <4>1, <4>3
    <3>4. Named(<<>>, Len(Chain), who)
      <4>1. PICK s \in Seq(0..252) : s = <<>>
        BY EmptySeq
      <4>2. Len(Chain) \in Nat
        BY LineAssumption, LenProperties
      <4>3. Len(s) = 0 /\ Len(s) <= Len(Chain) /\ 1..Len(s) = {} /\ DOMAIN s = {}
        BY <1>2, <4>1, <4>2, LenProperties
      <4>4. Named(s, Len(Chain), who)
        BY <4>3 DEF Named, IsInjective
      <4> QED BY <4>1, <4>4
    <3> QED BY <1>4, <3>1, <3>2, <3>3, <3>4, FlattenEmpty
  <2> QED BY <2>1, <2>2
<1>5. Received(b)'
  <2> DEFINE r == FlattenSeq(b)
  <2>1. r \in Seq(Byte) /\ Len(r) \in Nat
    BY <1>4, ScriptIs
  <2>2. uart' \o line' = r
    BY <1>1, <1>4, <2>1, ConcatEmptySeq
  <2>3. From(r, 0 + 1) = r
    BY <2>1, SubSeqFull DEF From
  <2> HIDE DEF r
  <2>4. mRxBufferSize' <= Len(r) /\ 1..mRxBufferSize' = {}
    BY <1>1, <2>1
  <2> QED BY <1>1, <2>2, <2>3, <2>4 DEF Received, r
<1>6. Answering(w)'
  <2> DEFINE s == FlattenSeq(w)
  <2>1. s \in Seq(0..252) /\ Len(s) <= Len(Chain) /\ IsInjective(s)
        /\ \A j \in 1..Len(s) : s[j] \in who
    BY <1>4 DEF Named
  <2> HIDE DEF s
  <2>2. ASSUME op # "ping" PROVE Len(s) <= mSelectSize /\ ToSet(s) \subseteq Selected
    <3>1. \A j \in 1..Len(s) : s[j] \in Selected
      BY <2>1, <2>2
    <3>2. DOMAIN s = 1..Len(s) /\ Len(s) \in Nat
      BY <2>1, LenProperties
    <3>3. s \in Seq(Selected)
      <4>1. s = [j \in 1..Len(s) |-> s[j]]
        BY <2>1, LenProperties
      <4>2. [j \in 1..Len(s) |-> s[j]] \in Seq(Selected)
        BY <3>1, <3>2, IsASeq
      <4> QED BY <4>1, <4>2
    <3>4. IsFiniteSet(Selected) /\ Cardinality(Selected) <= mSelectSize
      BY <1>3, SelectedFew
    <3>5. Len(s) <= Cardinality(Selected) /\ Cardinality(Selected) \in Nat
      BY <2>1, <3>3, <3>4, InjectiveFits, FS_CardinalityType
    <3>6. mSelectSize \in Nat
      BY <1>3, SizesAssumption DEF TypeOK
    <3>7. Len(s) <= mSelectSize
      BY <3>2, <3>4, <3>5, <3>6
    <3> QED BY <3>1, <3>2, <3>7 DEF ToSet
  <2> QED BY <1>1, <1>3, <1>4, <2>1, <2>2 DEF Answering, s
<1> QED BY <1>1, <1>4, <1>5, <1>6 DEF CallInv

(* What a call sends brings the answers of those who are asked.              *)
LEMMA SendQuiet ==
    ASSUME RxInv, QuietInv, NEW op, NEW reg, NEW who, NEW front \in Fronts, NEW back \in Backs,
           op # "ping" => who = {} \/ reg \in Regs, op # "ping" => who \subseteq Selected,
           op = "pull" => reg \in Regs, Send(op, reg, who, front, back)
    PROVE  QuietInv'
<1>1. RxInv'
  BY SendRx
<1>2. ASSUME fresh', ~noisy' PROVE \E b, w : CallInv(b, w)'
  BY <1>1, <1>2, SendStarts
<1>3. Len(ids') = 0 /\ Len(Chain) \in Nat
  BY EmptySeq, LineAssumption, LenProperties DEF Send
<1>4. Len(ids') <= Len(Chain)
  BY <1>3
<1> QED BY <1>2, <1>4 DEF QuietInv

(* So a call starts with nothing told and all still to come.                 *)
LEMMA CallQuiet ==
    ASSUME RxInv, QuietInv, NEW op, NEW reg, op = "pull" => reg \in Regs, Call(op, reg)
    PROVE  QuietInv'
<1>1. PICK silent \in Silences, front \in Fronts, back \in Backs :
          Send(op, reg, Asked(op) \ silent, front, back)
  BY DEF Call
<1>2. op # "ping" => Asked(op) \ silent = {} \/ reg \in Regs
  BY DEF Asked
<1>3. op # "ping" => Asked(op) \ silent \subseteq Selected
  BY DEF Asked
<1> QED BY <1>1, <1>2, <1>3, SendQuiet

(* So it is for the calls of the sketch.                                     *)
LEMMA SketchQuiet == ASSUME RxInv, QuietInv, Sketch PROVE QuietInv'
<1>1. ASSUME NEW selection \in Selections, selectServo(selection) PROVE QuietInv'
  BY <1>1, IdleQuiet DEF selectServo, rxVars, resultVars, history
<1>2. ASSUME NEW br \in Bauds, setXlBaudRate(br) PROVE QuietInv'
  BY <1>2, IdleQuiet DEF setXlBaudRate, rxVars, resultVars, history
<1>3. ASSUME NEW op, NEW reg, op = "pull" => reg \in Regs, Call(op, reg)
      PROVE QuietInv'
  BY <1>3, CallQuiet
<1> QED BY <1>1, <1>2, <1>3 DEF Sketch
-----------------------------------------------------------------------------
(* receiveData: the bytes go into the buffer in the order in which they came. *)
LEMMA ReceiveRoundQuiet == ASSUME RxInv, QuietInv, ReceiveRound PROVE QuietInv'
<1> DEFINE size == mRxBufferSize
           room == RxBufferSizeMax - size
<1>1. /\ size \in Nat /\ room \in Nat /\ size + room = RxBufferSizeMax
      /\ uart \in Seq(Byte) /\ line \in Seq(Byte) /\ Len(uart) \in Nat
  BY LenProperties, SizesAssumption DEF RxInv, TypeOK
<1>2. ReadSize \in Nat /\ ReadSize <= Len(uart) /\ ReadSize <= room
  <2>1. ReadSize = CHOOSE x \in {Len(uart), room} :
                        \A y \in {Len(uart), room} : x <= y
    BY DEF ReadSize, Min
  <2>2. \E x \in {Len(uart), room} : \A y \in {Len(uart), room} : x <= y
    BY <1>1
  <2> QED BY <1>1, <2>1, <2>2
<1>3. PICK n \in Nat : n = ReadSize
  BY <1>2
<1>4. /\ mRxBuffer' = [i \in 0..RxBufferSizeMax-1 |->
            IF i \in size..size+n-1 THEN uart[i - size + 1] ELSE mRxBuffer[i]]
      /\ mRxBufferSize' = size + n /\ uart' = From(uart, n + 1)
      /\ pc = "receive" /\ pc' = "receive"
      /\ UNCHANGED <<selectVars, mRxPtr, call, resultVars, line, history>>
  BY <1>3 DEF ReceiveRound, From
<1>5. UNCHANGED <<mSelectIds, mSelectSize, number, ids, answered, fresh, noisy>>
  BY <1>4 DEF selectVars, resultVars, history
<1>6. ASSUME NEW b, NEW w, CallInv(b, w) PROVE CallInv(b, w)'
  <2> DEFINE r == FlattenSeq(b)
  <2>1. r \in Seq(Byte) /\ Len(r) \in Nat /\ size <= Len(r)
        /\ (\A i \in 1..size : mRxBuffer[i - 1] = r[i])
        /\ uart \o line = From(r, size + 1)
    BY <1>6, ScriptIs DEF CallInv, Received
  <2> HIDE DEF r
  <2>2. uart' \o line' = From(r, size + n + 1)
    <3>1. n + 1 \in Nat \ {0} /\ n + 1 <= Len(uart) + 1
      BY <1>1, <1>2, <1>3
    <3>2. From(uart, n + 1) \o line = From(uart \o line, n + 1)
      BY <1>1, <3>1, FromConcat
    <3>3. size + 1 \in Nat \ {0} /\ size + 1 <= Len(r) + 1
      BY <1>1, <2>1
    <3>4. Len(From(r, size + 1)) = Len(r) - (size + 1) + 1
      BY <2>1, <3>3, FromType
    <3>5. Len(uart) + Len(line) = Len(r) - size /\ Len(line) \in Nat
      <4>1. Len(uart \o line) = Len(uart) + Len(line) /\ Len(line) \in Nat
        BY <1>1, ConcatProperties, LenProperties
      <4>2. Len(r) - (size + 1) + 1 = Len(r) - size
        BY <1>1, <2>1
      <4> QED BY <2>1, <3>4, <4>1, <4>2
    <3>6. (size + 1) + (n + 1) <= Len(r) + 2 /\ (size + 1) + (n + 1) - 1 = size + n + 1
      BY <1>1, <1>2, <1>3, <2>1, <3>5
    <3>7. From(From(r, size + 1), n + 1) = From(r, (size + 1) + (n + 1) - 1)
      BY <2>1, <3>1, <3>3, <3>6, FromFrom
    <3> QED BY <1>4, <2>1, <3>2, <3>6, <3>7
  <2>3. size + n <= Len(r) /\ \A i \in 1..n : uart[i] = r[size + i]
    <3>1. size + 1 \in Nat \ {0} /\ size + 1 <= Len(r) + 1
      BY <1>1, <2>1
    <3>2. /\ Len(From(r, size + 1)) = Len(r) - (size + 1) + 1
          /\ \A i \in 1..(Len(r) - (size + 1) + 1) :
                From(r, size + 1)[i] = r[(size + 1) + i - 1]
      BY <2>1, <3>1, FromType
    <3>3. /\ Len(uart \o line) = Len(uart) + Len(line) /\ Len(line) \in Nat
          /\ \A i \in 1..Len(uart)+Len(line) :
                (uart \o line)[i] = IF i <= Len(uart) THEN uart[i] ELSE line[i - Len(uart)]
      BY <1>1, ConcatProperties, LenProperties
    <3>4. Len(uart) + Len(line) = Len(r) - (size + 1) + 1
      BY <2>1, <3>2, <3>3
    <3>5. size + n <= Len(r)
      BY <1>1, <1>2, <1>3, <2>1, <3>3, <3>4
    <3>6. ASSUME NEW i \in 1..n PROVE uart[i] = r[size + i]
      <4>1. /\ i \in 1..Len(uart)+Len(line) /\ i <= Len(uart)
            /\ i \in 1..(Len(r) - (size + 1) + 1) /\ (size + 1) + i - 1 = size + i
        BY <1>1, <1>2, <1>3, <3>3, <3>4
      <4>2. (uart \o line)[i] = uart[i]
        BY <3>3, <4>1
      <4>3. From(r, size + 1)[i] = r[(size + 1) + i - 1]
        BY <3>2, <4>1
      <4> QED BY <2>1, <4>1, <4>2, <4>3
    <3> QED BY <3>5, <3>6
  <2>4. ASSUME NEW i \in 1..size+n PROVE mRxBuffer'[i - 1] = r[i]
    <3>1. i - 1 \in 0..RxBufferSizeMax-1
      BY <1>1, <1>2, <1>3
    <3>2. CASE i <= size
      <4>1. i \in 1..size /\ i - 1 \notin size..size+n-1
        BY <1>1, <3>2
      <4> QED BY <1>4, <2>1, <3>1, <4>1
    <3>3. CASE ~(i <= size)
      <4>1. /\ i - 1 \in size..size+n-1 /\ i - size \in 1..n
            /\ i - 1 - size + 1 = i - size /\ size + (i - size) = i
        BY <1>1, <3>3
      <4>2. mRxBuffer'[i - 1] = uart[i - 1 - size + 1]
        BY <1>4, <3>1, <4>1
      <4>3. uart[i - size] = r[size + (i - size)]
        BY <2>3, <4>1
      <4> QED BY <4>1, <4>2, <4>3
    <3> QED BY <3>2, <3>3
  <2>5. Received(b)'
    <3>1. mRxBufferSize' = size + n
      BY <1>4
    <3> QED BY <2>2, <2>3, <2>4, <3>1 DEF Received, r
  <2>6. Answering(w)'
    BY <1>4, <1>5, <1>6 DEF CallInv, Answering, Selected
  <2> QED BY <1>4, <1>5, <1>6, <2>5, <2>6 DEF CallInv
<1>7. ids' = <<>> /\ Len(ids') <= Len(Chain)
  <2>1. ids' = <<>> /\ Len(<<>>) = 0 /\ Len(Chain) \in Nat
    BY <1>4, <1>5, EmptySeq, LineAssumption, LenProperties DEF RxInv
  <2> QED BY <2>1
<1>8. ASSUME fresh', ~noisy' PROVE \E b, w : CallInv(b, w)'
  <2>1. PICK b, w : CallInv(b, w)
    BY <1>4, <1>5, <1>8 DEF QuietInv
  <2> QED BY <1>6, <2>1
<1> QED BY <1>7, <1>8 DEF QuietInv

(* The second is over: nothing has been told yet.                            *)
LEMMA ReceiveEndsQuiet == ASSUME RxInv, QuietInv, ReceiveEnds PROVE QuietInv'
<1>1. /\ pc = "receive" /\ ids = <<>> /\ mRxPtr = 0 /\ ids' = ids /\ number' = number
      /\ returnVector' = IF call.op = "pull"
                       THEN [i \in 1..mSelectSize |-> NoAnswer] ELSE <<>>
      /\ UNCHANGED <<mSelectIds, mSelectSize, mRxBuffer, call, uart, line>>
      /\ UNCHANGED <<answered, fresh, noisy>>
  BY DEF ReceiveEnds, RxInv, selectVars, history
<1>2. Len(ids') <= Len(Chain)
  <2>1. Len(<<>>) = 0 /\ Len(Chain) \in Nat
    BY EmptySeq, LineAssumption, LenProperties
  <2> QED BY <1>1, <2>1
<1>3. ASSUME NEW b, NEW w, CallInv(b, w), pc' # "idle" PROVE CallInv(b, w)'
  <2>1. /\ call.op \in {"ping", "pull"} /\ pc' = "parse"
        /\ mRxBufferSize' = mRxBufferSize /\ mRxPtr' = mRxPtr
    BY <1>3 DEF ReceiveEnds
  <2>2. Received(b)'
    BY <1>1, <1>3, <2>1 DEF CallInv, Received
  <2>3. Answering(w)'
    BY <1>1, <1>3 DEF CallInv, Answering, Selected
  <2>4. b \in Seq(Seq(Byte)) /\ w \in Seq(Seq(Byte)) /\ Len(b) \in Nat
    BY <1>3, ScriptIs DEF CallInv
  <2>5. FirstOf(b, 0) = <<>> /\ FirstOf(w, 0) = <<>> /\ Len(<<>>) = 0
    BY <2>4, NoneAndAll, EmptySeq
  <2>6. Told(<<>>)'
    <3>1. ToSet(<<>>) = {}
      BY EmptySeq DEF ToSet
    <3>2. call.op # "ping" => ToldPull(<<>>)'
      <4> SUFFICES ASSUME call.op # "ping" PROVE ToldPull(<<>>)'
        OBVIOUS
      <4>1. returnVector' = [i \in 1..mSelectSize |-> NoAnswer]
        BY <1>1, <2>1
      <4>2. \A i \in 1..mSelectSize' : returnVector'[i] = NoAnswer
        BY <1>1, <4>1
      <4> QED BY <1>1, <3>1, <4>2 DEF ToldPull
    <3>3. number' = Len(<<>>)
      BY <1>1, <1>3, <2>5 DEF CallInv
    <3> QED BY <1>1, <3>2, <3>3 DEF Told
  <2>7. AtTurn(b, w, 0)'
    BY <1>1, <2>1, <2>5, <2>6 DEF AtTurn
  <2>8. 0 \in 0..Len(b)
    BY <2>4
  <2> QED BY <1>1, <1>3, <2>1, <2>2, <2>3, <2>7, <2>8 DEF CallInv
<1>4. ASSUME fresh', ~noisy', pc' # "idle" PROVE \E b, w : CallInv(b, w)'
  <2>1. PICK b, w : CallInv(b, w)
    BY <1>1, <1>4 DEF QuietInv
  <2> QED BY <1>3, <1>4, <2>1
<1> QED BY <1>2, <1>4 DEF QuietInv
-----------------------------------------------------------------------------
(* A status of one more servo.                                               *)
LEMMA TellNext ==
    ASSUME TypeOK, NEW taken \in Seq(Byte), Told(taken), Len(taken) < 253,
           NEW id \in Byte, NEW value,
           call.op # "ping" => id \in Selected /\ value = ValueOf(id),
           TakeStatus(id, value), UNCHANGED <<mSelectIds, mSelectSize, call>>
    PROVE  Told(Append(taken, id))'
<1> DEFINE next == Append(taken, id)
<1>1. Len(taken) \in Nat /\ Len(next) = Len(taken) + 1 /\ next \in Seq(Byte)
      /\ (\A i \in 1..Len(taken) : next[i] = taken[i]) /\ next[Len(taken) + 1] = id
  BY LenProperties, AppendProperties
<1>2. (Len(taken) + 1) % 256 = Len(taken) + 1 /\ number = Len(taken)
  <2>1. number = Len(taken)
    BY DEF Told
  <2>2. \A n \in Nat : n < 253 => (n + 1) % 256 = n + 1
    OBVIOUS
  <2> QED BY <1>1, <2>1, <2>2
<1>3. CASE call.op = "ping"
  <2>1. ids' = Append(ids, id) /\ number' = (number + 1) % 256 /\ ids = taken
    BY <1>3 DEF TakeStatus, Told
  <2>2. number' = Len(next) /\ ids' = next
    BY <1>1, <1>2, <2>1
  <2> HIDE DEF next
  <2>3. Told(next)'
    BY <1>3, <2>2 DEF Told
  <2> QED BY <2>3 DEF next
<1>4. CASE call.op # "ping"
  <2>1. mSelectSize \in Nat
    BY SizesAssumption DEF TypeOK
  <2>2. \E i \in 1..mSelectSize : FirstIndex(id, i)
    <3> DEFINE T == {i \in 1..mSelectSize : mSelectIds[i] = id}
    <3>1. T # {}
      BY <1>4 DEF Selected
    <3>2. T \in SUBSET Nat
      BY <2>1
    <3>3. PICK i \in T : \A y \in T : i <= y
      <4> HIDE DEF T
      <4> QED BY <3>1, <3>2, Smallest
    <3>4. i \in 1..mSelectSize /\ mSelectIds[i] = id
      OBVIOUS
    <3>5. ASSUME NEW j \in 1..i-1, mSelectIds[j] = id PROVE FALSE
      <4>1. j \in 1..mSelectSize /\ ~(i <= j)
        BY <2>1, <3>4
      <4>2. j \in T
        BY <3>5, <4>1
      <4> HIDE DEF T
      <4> QED BY <3>3, <4>1, <4>2
    <3>6. FirstIndex(id, i)
      BY <3>4, <3>5 DEF FirstIndex
    <3> QED BY <3>4, <3>6
  <2>3. /\ returnVector' = [i \in 1..mSelectSize |->
                IF FirstIndex(id, i) THEN value ELSE returnVector[i]]
        /\ number' = (number + 1) % 256 /\ ids' = ids
    BY <1>4, <2>2 DEF TakeStatus
  <2>4. ToldPull(taken) /\ value = ValueOf(id)
    BY <1>4 DEF Told
  <2>5. \A x \in ToSet(next) : x \in ToSet(taken) \/ x = id
    <3>1. DOMAIN next = 1..Len(taken)+1 /\ DOMAIN taken = 1..Len(taken)
      BY <1>1, LenProperties
    <3>2. \A i \in 1..Len(taken)+1 : i \in 1..Len(taken) \/ i = Len(taken) + 1
      BY <1>1
    <3> HIDE DEF next
    <3> QED BY <1>1, <3>1, <3>2 DEF ToSet
  <2> HIDE DEF next
  <2>6. ASSUME NEW i \in 1..mSelectSize
        PROVE  /\ returnVector'[i] \in {NoAnswer, ValueOf(mSelectIds[i])}
               /\ mSelectIds[i] \in ToSet(next) /\ FirstIndex(mSelectIds[i], i)
                    => returnVector'[i] = ValueOf(mSelectIds[i])
    <3>1. CASE FirstIndex(id, i)
      <4>1. mSelectIds[i] = id /\ returnVector'[i] = value
        BY <2>3, <3>1 DEF FirstIndex
      <4> QED BY <2>4, <4>1
    <3>2. CASE ~FirstIndex(id, i)
      <4>1. returnVector'[i] = returnVector[i]
        BY <2>3, <3>2
      <4>2. /\ returnVector[i] \in {NoAnswer, ValueOf(mSelectIds[i])}
            /\ mSelectIds[i] \in ToSet(taken) /\ FirstIndex(mSelectIds[i], i)
                => returnVector[i] = ValueOf(mSelectIds[i])
        BY <2>4 DEF ToldPull
      <4>3. mSelectIds[i] = id => ~FirstIndex(mSelectIds[i], i)
        BY <3>2
      <4> QED BY <2>5, <4>1, <4>2, <4>3
    <3> QED BY <3>1, <3>2
  <2>7. \A x : ValueOf(x)' = ValueOf(x)
    BY DEF ValueOf
  <2>8. \A x, i : FirstIndex(x, i)' <=> FirstIndex(x, i)
    BY DEF FirstIndex
  <2>9. ids' = <<>>
    BY <2>3, <2>4 DEF ToldPull
  <2>10. ToldPull(next)'
    BY <2>6, <2>7, <2>8, <2>9 DEF ToldPull
  <2>11. number' = Len(next)
    BY <1>1, <1>2, <2>3
  <2>12. Told(next)'
    BY <1>4, <2>10, <2>11 DEF Told
  <2> QED BY <2>12 DEF next
<1> QED BY <1>3, <1>4

(* Where the parser is: at the end of all, or before a whole packet of which *)
(* it sees what was received.                                                *)
Before(b, w, n, f) ==
    /\ n \in Nat /\ n < Len(b) /\ AtTurn(b, w, n) /\ f = b[n + 1]
    /\ f \in Seq(Byte) /\ IsWhole(f) /\ \A beyond : Seen(f, beyond)
    /\ mRxPtr + Len(f) <= Len(FlattenSeq(b))
AtEnd(b, w) ==
    /\ AtTurn(b, w, Len(b)) /\ Left = 0

(* A call is at its end or has a whole packet in front of the pointer.       *)
LEMMA Ahead ==
    ASSUME RxInv, NEW b, NEW w, CallInv(b, w), pc = "parse", ~Overrun
    PROVE  AtEnd(b, w) \/ \E n, f : Before(b, w, n, f)
<1>1. /\ b \in Seq(Seq(Byte)) /\ Len(b) \in Nat /\ FlattenSeq(b) \in Seq(Byte)
      /\ Len(FlattenSeq(b)) \in Nat
      /\ \A i \in 1..Len(b) : Turn(b[i], w[i], call.op, call.reg)
  BY ScriptIs DEF CallInv, Script
<1>2. PICK n \in 0..Len(b) : AtTurn(b, w, n) /\ (n < Len(b) => b[n + 1] # <<>>)
  BY TurnAhead
<1>3. /\ Received(b) /\ Left = mRxBufferSize - mRxPtr
      /\ mRxPtr \in Nat /\ mRxBufferSize \in Nat /\ mRxPtr <= mRxBufferSize
      /\ mRxBufferSize <= Len(FlattenSeq(b))
  BY LeftIs, SizesAssumption DEF RxInv, TypeOK, CallInv, Received, Overrun
<1>4. CASE n = Len(b)
  <2>1. FirstOf(b, Len(b)) = FlattenSeq(b)
    BY <1>1, NoneAndAll
  <2>2. mRxPtr = Len(FlattenSeq(b))
    BY <1>2, <1>4, <2>1 DEF AtTurn
  <2>3. Left = 0
    BY <1>1, <1>3, <2>2
  <2> QED BY <1>2, <1>4, <2>3 DEF AtEnd
<1>5. CASE n # Len(b)
  <2>1. n \in Nat /\ n < Len(b) /\ n + 1 \in 1..Len(b)
    BY <1>1, <1>5
  <2>2. PICK f : f = b[n + 1]
    OBVIOUS
  <2>3. f \in Seq(Byte) /\ Lies(FlattenSeq(b), Len(FirstOf(b, n)), f)
    BY <1>1, <2>1, <2>2, NextOf
  <2>4. Turn(f, w[n + 1], call.op, call.reg) /\ f # <<>>
    BY <1>1, <1>2, <2>1, <2>2
  <2>5. IsWhole(f)
    <3>1. CASE \E id \in Byte : f = AnswerOf(id, call.op, call.reg)
      <4>1. PICK id \in Byte : f = AnswerOf(id, call.op, call.reg)
        BY <3>1
      <4>2. call.op # "ping" => call.reg \in Regs
        BY DEF CallInv
      <4>3. IsWhole(AnswerOf(id, call.op, call.reg))
        BY <4>2, AnswerIs
      <4> QED BY <4>1, <4>3
    <3> QED BY <2>4, <3>1 DEF Turn
  <2>6. Lies(FlattenSeq(b), mRxPtr, f)
    BY <1>2, <2>3 DEF AtTurn
  <2>7. \A beyond : Seen(f, beyond)
    <3> SUFFICES ASSUME NEW beyond PROVE Seen(f, beyond)
      OBVIOUS
    <3> QED BY <1>1, <1>3, <2>3, <2>6, SeenIs
  <2>8. mRxPtr + Len(f) <= Len(FlattenSeq(b))
    BY <2>6 DEF Lies
  <2>9. Before(b, w, n, f)
    BY <1>2, <2>1, <2>2, <2>3, <2>5, <2>7, <2>8 DEF Before
  <2> QED BY <2>9
<1> QED BY <1>4, <1>5

(* A packet is taken whole, and what it says is told.                        *)
LEMMA TakeTells ==
    ASSUME RxInv, NEW b, NEW w, CallInv(b, w), ~Overrun,
           NEW beyond \in Beyond, TakePacket(beyond)
    PROVE  \E n \in 0..Len(b) : AtTurn(b, w, n)'
<1>1. /\ pc = "parse" /\ Left > 0 /\ CompletePacket(beyond)
      /\ mRxPtr' = mRxPtr + SizeAt(beyond)
      /\ IF isInstructionStatus(PackAt(beyond))
         THEN TakeStatus(GetId(PackAt(beyond)), PulledValue(PackAt(beyond)))
         ELSE UNCHANGED resultVars
      /\ UNCHANGED <<mSelectIds, mSelectSize, call>>
  BY DEF TakePacket, Consume, selectVars
<1>2. /\ b \in Seq(Seq(Byte)) /\ w \in Seq(Seq(Byte)) /\ Len(b) \in Nat /\ Len(w) = Len(b)
      /\ \A i \in 1..Len(b) : Turn(b[i], w[i], call.op, call.reg)
  BY ScriptIs DEF CallInv, Script
<1>3. ~AtEnd(b, w)
  <2>1. ~(0 > 0)
    OBVIOUS
  <2> QED BY <1>1, <2>1 DEF AtEnd
<1>4. PICK n, f : Before(b, w, n, f)
  BY <1>1, <1>3, Ahead
<1>5. /\ n \in Nat /\ n < Len(b) /\ n < Len(w) /\ AtTurn(b, w, n) /\ f = b[n + 1]
      /\ f \in Seq(Byte) /\ IsWhole(f) /\ Seen(f, beyond)
  BY <1>2, <1>4 DEF Before
<1>6. Len(f) \in Nat /\ Left \in Nat /\ mRxPtr \in Nat
  BY <1>5, LenProperties, SizesAssumption DEF RxInv, TypeOK, Left
<1>7. Len(f) <= Left
  <2>1. ~(Left < Len(f))
    BY <1>1, <1>5, CutIsNotTaken
  <2> QED BY <1>6, <2>1
<1>8. PackAt(beyond) = f /\ SizeAt(beyond) = Len(f)
  BY <1>5, <1>7, WholeIsTaken
<1>9. FirstOf(b, n + 1) = FirstOf(b, n) \o b[n + 1] /\ FirstOf(b, n) \in Seq(Byte)
  BY <1>2, <1>5, NextOf
<1>10. FirstOf(w, n + 1) = FirstOf(w, n) \o w[n + 1] /\ FirstOf(w, n) \in Seq(Byte)
  BY <1>2, <1>5, NextOf
<1>11. mRxPtr' = Len(FirstOf(b, n + 1))
  <2>1. Len(FirstOf(b, n) \o f) = Len(FirstOf(b, n)) + Len(f)
    BY <1>5, <1>9, ConcatProperties
  <2>2. mRxPtr = Len(FirstOf(b, n))
    BY <1>5 DEF AtTurn
  <2>3. mRxPtr' = mRxPtr + Len(f)
    BY <1>1, <1>8
  <2> QED BY <1>5, <1>9, <2>1, <2>2, <2>3
<1>12. n + 1 \in 1..Len(b) /\ n + 1 \in 0..Len(b) /\ n + 1 \in 0..Len(w)
  BY <1>2, <1>5
<1>13. Turn(f, w[n + 1], call.op, call.reg) /\ f # <<>>
  <2>1. Turn(b[n + 1], w[n + 1], call.op, call.reg)
    BY <1>2, <1>12, SMTT(30)
  <2>2. f # <<>>
    <3>1. Len(f) \in 8..255
      BY <1>5, WholeIs
    <3>2. Len(<<>>) = 0 /\ 0 \notin 8..255
      BY EmptySeq
    <3> QED BY <3>1, <3>2, Zenon
  <2> QED BY <1>5, <2>1, <2>2
<1> DEFINE taken == FirstOf(w, n)
<1>14. Told(taken)
  BY <1>5 DEF AtTurn
<1>15. isInstructionStatus(f) <=> f[8] = Status
  <2>1. Len(f) >= 8
    <3>1. Len(f) \in 8..255
      BY <1>5, WholeIs
    <3>2. \A k \in 8..255 : k >= 8
      OBVIOUS
    <3> QED BY <3>1, <3>2
  <2> QED BY <2>1 DEF isInstructionStatus, getInstruction
<1>16. call.op # "ping" => call.reg \in Regs
  BY <1>1 DEF CallInv
<1>17. Told(FirstOf(w, n + 1))'
  <2>1. CASE f[8] # Status /\ w[n + 1] = <<>>
    <3>1. UNCHANGED resultVars
      BY <1>1, <1>8, <1>15, <2>1
    <3>2. FirstOf(w, n + 1) = taken
      BY <1>10, <2>1, ConcatEmptySeq
    <3>3. UNCHANGED <<number, ids, returnVector, mSelectIds, mSelectSize, call>>
      BY <1>1, <3>1 DEF resultVars
    <3> HIDE DEF taken
    <3>4. Told(taken)'
      BY <1>14, <3>3 DEF Told, ToldPull, FirstIndex, ValueOf
    <3> QED BY <3>2, <3>4
  <2>2. ASSUME NEW id \in Byte, f = AnswerOf(id, call.op, call.reg), w[n + 1] = <<id>>
        PROVE  Told(FirstOf(w, n + 1))'
    <3>1. /\ f[8] = Status /\ f[5] = id
          /\ call.op # "ping" => PulledValue(f) = ValueIn(Value[<<id, call.reg>>])
      BY <1>16, <2>2, AnswerIs
    <3>2. GetId(f) = id
      <4>1. Len(f) \in 8..255
        BY <1>5, WholeIs
      <4>2. \A k \in 8..255 : ~(k < 5)
        OBVIOUS
      <4>3. ~(Len(f) < 5)
        BY <4>1, <4>2
      <4> QED BY <3>1, <4>3, SMTT(30) DEF GetId, getId
    <3>3. TakeStatus(id, PulledValue(f))
      BY <1>1, <1>8, <1>15, <3>1, <3>2
    <3>4. FirstOf(w, n + 1) = Append(taken, id)
      BY <1>10, <2>2, AppendIsConcat
    <3>5. /\ answered = FlattenSeq(w) /\ Len(answered) <= Len(Chain)
          /\ call.op # "ping" => ToSet(answered) \subseteq Selected
      BY DEF CallInv, Answering
    <3>6. IsPrefix(Append(taken, id), answered)
      BY <1>2, <1>12, <3>4, <3>5, FirstIs
    <3>7. taken \in Seq(Byte) /\ Len(taken) \in Nat
      BY <1>10, LenProperties
    <3> HIDE DEF taken
    <3>8. /\ Len(Append(taken, id)) = Len(taken) + 1
          /\ Append(taken, id)[Len(taken) + 1] = id
      BY <3>7, AppendProperties
    <3>9. /\ Len(taken) + 1 <= Len(answered)
          /\ answered[Len(taken) + 1] = id
      <4>1. Len(taken) + 1 \in 1..Len(taken)+1
        BY <3>7
      <4> QED BY <3>6, <3>8, <4>1 DEF IsPrefix
    <3>10. answered \in Seq(Byte) /\ Len(answered) \in Nat
      BY <1>2, <3>5, FlattenType, LenProperties
    <3>11. Len(taken) < 253
      <4>1. Len(Chain) \in Nat
        BY LineAssumption, LenProperties
      <4> QED BY <3>5, <3>7, <3>9, <3>10, <4>1, ChainIsShort
    <3>12. id \in ToSet(answered)
      <4>1. Len(taken) + 1 \in 1..Len(answered)
        BY <3>7, <3>9, <3>10
      <4>2. DOMAIN answered = 1..Len(answered)
        BY <3>10, LenProperties
      <4> QED BY <3>9, <4>1, <4>2 DEF ToSet
    <3>13. call.op # "ping" => id \in Selected /\ PulledValue(f) = ValueOf(id)
      BY <3>1, <3>5, <3>12 DEF ValueOf, ValueIn
    <3>14. TypeOK
      BY DEF RxInv
    <3>15. PICK value : value = PulledValue(f)
      OBVIOUS
    <3>16. Told(Append(taken, id))'
      <4>1. TakeStatus(id, value) /\ (call.op # "ping" => id \in Selected /\ value = ValueOf(id))
        BY <3>3, <3>13, <3>15
      <4> QED BY <1>1, <1>14, <3>7, <3>11, <3>14, <4>1, TellNext
    <3> QED BY <3>4, <3>16
  <2>3. CASE f[8] = Status
    BY <1>13, <2>2, <2>3 DEF Turn
  <2> QED BY <1>13, <2>1, <2>2, <2>3 DEF Turn
<1>18. AtTurn(b, w, n + 1)'
  BY <1>11, <1>17 DEF AtTurn
<1> QED BY <1>12, <1>18
-----------------------------------------------------------------------------
(* The parser looks elsewhere only after an overrun.                         *)
LEMMA ElsewhereIsOverrun == ASSUME TypeOK, ~InBuffer PROVE Overrun
<1> SUFFICES ASSUME ~Overrun PROVE FALSE
  OBVIOUS
<1>1. Left = mRxBufferSize - mRxPtr
  BY LeftIs
<1>2. ~(mRxPtr < RxBufferSizeMax) /\ Left # 0
  BY DEF InBuffer
<1>3. mRxPtr \in Nat /\ mRxBufferSize \in Nat /\ mRxBufferSize <= RxBufferSizeMax
      /\ RxBufferSizeMax \in Nat /\ mRxPtr <= mRxBufferSize
  BY SizesAssumption DEF TypeOK, Overrun
<1> QED BY <1>1, <1>2, <1>3

(* A step of the parser leaves to the call what it was told by the line.     *)
LEMMA ParseKeeps ==
    ASSUME NEW b, NEW w, CallInv(b, w), pc = "parse", pc' = "parse",
           UNCHANGED <<mSelectIds, mSelectSize, mRxBuffer, mRxBufferSize,
                       call, uart, line, answered>>,
           Overrun' \/ \E n \in 0..Len(b) : AtTurn(b, w, n)'
    PROVE  CallInv(b, w)'
<1>1. Received(b)'
  BY DEF CallInv, Received
<1>2. Answering(w)'
  BY DEF CallInv, Answering, Selected
<1> QED BY <1>1, <1>2 DEF CallInv

(* What is told after some turns is the start of all that is told.           *)
LEMMA TakenIs ==
    ASSUME NEW b, NEW w, NEW op, NEW reg, Script(b, w, op, reg), Answering(w),
           NEW n \in 0..Len(b)
    PROVE  /\ FirstOf(w, n) \in Seq(Byte) /\ Len(FirstOf(w, n)) \in Nat
           /\ answered \in Seq(Byte) /\ Len(answered) \in Nat
           /\ IsPrefix(FirstOf(w, n), answered)
           /\ Len(FirstOf(w, n)) <= Len(answered)
           /\ n = Len(b) => FirstOf(w, n) = answered
<1>1. w \in Seq(Seq(Byte)) /\ Len(w) = Len(b) /\ n \in 0..Len(w)
  BY ScriptIs
<1>2. answered = FlattenSeq(w)
  BY DEF Answering
<1>3. answered \in Seq(Byte) /\ FirstOf(w, n) \in Seq(Byte)
      /\ IsPrefix(FirstOf(w, n), answered) /\ Len(FirstOf(w, n)) <= Len(answered)
  BY <1>1, <1>2, FlattenType, FirstIs
<1>4. FirstOf(w, Len(w)) = answered
  BY <1>1, <1>2, NoneAndAll
<1> QED BY <1>1, <1>3, <1>4, LenProperties

(* getNextPacket finds no header: on a quiet line only in a packet that was  *)
(* cut, and then the pointer leaves what was received.                       *)
LEMMA SkipIsOverrun ==
    ASSUME RxInv, QuietInv, fresh, ~noisy, NEW beyond \in Beyond, SkipBytes(beyond)
    PROVE  Overrun'
<1>1. PICK k \in 0..2 :
        /\ pc = "parse" /\ Left > 0 /\ WrongHeader(k, beyond)
        /\ mRxPtr' = mRxPtr + k + 1 /\ UNCHANGED mRxBufferSize
  BY DEF SkipBytes
<1>2. mRxPtr \in Nat /\ mRxBufferSize \in Nat
  BY SizesAssumption DEF RxInv, TypeOK
<1>3. CASE Overrun
  BY <1>1, <1>2, <1>3 DEF Overrun
<1>4. CASE ~Overrun
  <2>1. PICK b, w : CallInv(b, w)
    BY <1>1 DEF QuietInv
  <2>2. ~AtEnd(b, w)
    <3>1. ~(0 > 0)
      OBVIOUS
    <3> QED BY <1>1, <3>1 DEF AtEnd
  <2>3. PICK n, f : Before(b, w, n, f)
    BY <1>1, <1>4, <2>1, <2>2, Ahead
  <2>4. f \in Seq(Byte) /\ IsWhole(f) /\ Seen(f, beyond) /\ Len(f) \in Nat
    BY <2>3, LenProperties DEF Before
  <2>5. Left = mRxBufferSize - mRxPtr
    BY <1>4, LeftIs DEF RxInv
  <2>6. ~(Len(f) <= Left)
    BY <1>1, <2>4, WholeIsTaken
  <2>7. Left < Len(f)
    BY <1>2, <2>4, <2>5, <2>6
  <2>8. k = Left
    BY <1>1, <2>4, <2>7, CutIsNotTaken
  <2> QED BY <1>1, <1>2, <2>5, <2>8 DEF Overrun
<1> QED BY <1>3, <1>4

(* On a quiet line bytes are skipped behind the received ones only.          *)
LEMMA SkipQuiet ==
    ASSUME RxInv, QuietInv, NEW beyond \in Beyond, SkipBytes(beyond)
    PROVE  QuietInv'
<1>1. /\ pc = "parse" /\ pc' = "parse"
      /\ UNCHANGED <<mSelectIds, mSelectSize, mRxBuffer, mRxBufferSize,
                     call, uart, line, answered, fresh, noisy>>
  BY DEF SkipBytes, selectVars, history
<1>2. ASSUME fresh', ~noisy' PROVE Overrun' /\ \E b, w : CallInv(b, w)'
  <2>1. Overrun'
    BY <1>1, <1>2, SkipIsOverrun
  <2>2. PICK b, w : CallInv(b, w)
    BY <1>1, <1>2 DEF QuietInv
  <2>3. CallInv(b, w)'
    BY <1>1, <2>1, <2>2, ParseKeeps
  <2> QED BY <2>1, <2>3
<1> QED BY <1>2 DEF QuietInv

(* A packet that is taken tells what its servo has said.                     *)
LEMMA TakeQuiet ==
    ASSUME RxInv, QuietInv, NEW beyond \in Beyond, TakePacket(beyond)
    PROVE  QuietInv'
<1>1. /\ pc = "parse" /\ pc' = "parse" /\ mRxPtr' = mRxPtr + SizeAt(beyond)
      /\ UNCHANGED <<mSelectIds, mSelectSize, mRxBuffer, mRxBufferSize,
                     call, uart, line, answered, fresh, noisy>>
  BY DEF TakePacket, Consume, selectVars, history
<1>2. SizeAt(beyond) \in Nat /\ mRxPtr \in Nat /\ mRxBufferSize \in Nat
  BY PacketIs, SizesAssumption DEF RxInv, TypeOK
<1>3. Overrun => Overrun'
  BY <1>1, <1>2 DEF Overrun
<1>4. ASSUME fresh', ~noisy', NEW b, NEW w, CallInv(b, w)
      PROVE  CallInv(b, w)' /\ (~Overrun' => Len(ids') <= Len(Chain))
  <2>1. CASE Overrun
    BY <1>1, <1>3, <1>4, <2>1, ParseKeeps
  <2>2. CASE ~Overrun
    <3>1. PICK n \in 0..Len(b) : AtTurn(b, w, n)'
      BY <1>4, <2>2, TakeTells
    <3>2. CallInv(b, w)'
      BY <1>1, <1>4, <3>1, ParseKeeps
    <3>3. /\ Len(FirstOf(w, n)) \in Nat /\ Len(answered) \in Nat
          /\ Len(FirstOf(w, n)) <= Len(answered)
      BY <1>4, TakenIs DEF CallInv
    <3>4. Len(answered) <= Len(Chain) /\ Len(Chain) \in Nat
      BY <1>4, LineAssumption, LenProperties DEF CallInv, Answering
    <3>5. ids' = FirstOf(w, n) \/ ids' = <<>>
      BY <3>1 DEF AtTurn, Told, ToldPull
    <3>6. Len(<<>>) = 0
      BY EmptySeq
    <3>7. Len(ids') <= Len(Chain)
      BY <3>3, <3>4, <3>5, <3>6
    <3> QED BY <3>2, <3>7
  <2> QED BY <2>1, <2>2
<1>5. ASSUME fresh', ~noisy'
      PROVE  (\E b, w : CallInv(b, w)') /\ (~Overrun' => Len(ids') <= Len(Chain))
  <2>1. PICK b, w : CallInv(b, w)
    BY <1>1, <1>5 DEF QuietInv
  <2> QED BY <1>4, <1>5, <2>1
<1> QED BY <1>5 DEF QuietInv

(* Behind the received bytes nothing is promised.                            *)
LEMMA ElsewhereQuiet == ASSUME RxInv, QuietInv, ParseElsewhere PROVE QuietInv'
<1>1. /\ pc = "parse" /\ pc' \in {"idle", "parse"} /\ ~InBuffer
      /\ UNCHANGED <<mSelectIds, mSelectSize, mRxBuffer, mRxBufferSize, mRxPtr,
                     call, uart, line, answered, fresh, noisy>>
  BY DEF ParseElsewhere, selectVars, rxVars, history
<1>2. Overrun'
  <2>1. Overrun
    BY <1>1, ElsewhereIsOverrun DEF RxInv
  <2> QED BY <1>1, <2>1 DEF Overrun
<1>3. ASSUME fresh', ~noisy', pc' # "idle" PROVE \E b, w : CallInv(b, w)'
  <2>1. PICK b, w : CallInv(b, w)
    BY <1>1, <1>3 DEF QuietInv
  <2>2. CallInv(b, w)'
    BY <1>1, <1>2, <1>3, <2>1, ParseKeeps
  <2> QED BY <2>2
<1> QED BY <1>2, <1>3 DEF QuietInv

(* Every step of the controller, whoever calls it.                           *)
LEMMA StepQuiet == ASSUME RxInv, QuietInv, Step PROVE QuietInv'
<1>1. ASSUME NEW beyond \in Beyond, Return(beyond) PROVE QuietInv'
  BY <1>1, IdleQuiet DEF Return, resultVars, history
<1> QED BY <1>1, ReceiveRoundQuiet, ReceiveEndsQuiet, SkipQuiet, TakeQuiet,
           ElsewhereQuiet DEF Step, Parse

(* A stutter changes nothing.                                                *)
LEMMA StillQuiet == ASSUME QuietInv, UNCHANGED vars PROVE QuietInv'
BY QuietKept DEF vars

(* At the start no call is under way.                                        *)
LEMMA InitQuiet == Init => QuietInv
<1> SUFFICES ASSUME Init PROVE QuietInv
  OBVIOUS
<1>1. Len(<<>>) = 0 /\ Len(Chain) \in Nat
  BY EmptySeq, LineAssumption, LenProperties
<1>2. Len(ids) <= Len(Chain)
  BY <1>1 DEF Init
<1> QED BY <1>2 DEF Init, QuietInv

(* No step of the controller breaks it.                                      *)
LEMMA NextQuiet == ASSUME RxInv, QuietInv, [Next]_vars PROVE QuietInv'
BY SketchQuiet, ArriveQuiet, StepQuiet, StillQuiet DEF Next, Finished

(* So it holds always.                                                       *)
LEMMA QuietAlways == Spec => [](RxInv /\ QuietInv)
<1>1. Init => RxInv /\ QuietInv
  BY InitRx, InitQuiet
<1>2. RxInv /\ QuietInv /\ [Next]_vars => (RxInv /\ QuietInv)'
  BY NextRx, NextQuiet
<1> QED BY <1>1, <1>2, PTL DEF Spec
-----------------------------------------------------------------------------
(* What is told when the call ends.                                          *)
LEMMA TakenTold ==
    ASSUME TypeOK, NEW b, NEW w, CallInv(b, w), NEW n \in 0..Len(b), AtTurn(b, w, n),
           Complete => n = Len(b)
    PROVE  /\ call.op = "ping" => PingTold
           /\ call.op = "pull" => PullTold
<1> DEFINE taken == FirstOf(w, n)
<1>1. /\ taken \in Seq(Byte) /\ Len(taken) \in Nat
      /\ answered \in Seq(Byte) /\ Len(answered) \in Nat
      /\ Len(taken) <= Len(answered)
      /\ n = Len(b) => taken = answered
      /\ \A i \in 1..Len(taken) : answered[i] = taken[i]
  BY TakenIs DEF CallInv, IsPrefix
<1>2. Told(taken) /\ IsInjective(answered)
  BY DEF AtTurn, CallInv, Answering
<1> HIDE DEF taken
<1>3. DOMAIN taken = 1..Len(taken) /\ DOMAIN answered = 1..Len(answered)
      /\ \A i \in 1..Len(taken) : i \in 1..Len(answered)
  BY <1>1, LenProperties
<1>4. ToSet(taken) \subseteq ToSet(answered)
  BY <1>1, <1>3 DEF ToSet
<1>5. IsInjective(taken)
  BY <1>1, <1>2, <1>3 DEF IsInjective
<1>6. ASSUME call.op = "ping" PROVE PingTold
  BY <1>1, <1>2, <1>4, <1>5, <1>6 DEF Told, PingTold
<1>7. ASSUME call.op = "pull" PROVE PullTold
  <2>1. ToldPull(taken) /\ number = Len(taken) /\ Len(answered) <= mSelectSize
    BY <1>2, <1>7 DEF Told, CallInv, Answering
  <2>2. number <= mSelectSize
    <3>1. mSelectSize \in Nat
      BY SizesAssumption DEF TypeOK
    <3> QED BY <1>1, <2>1, <3>1
  <2>3. ASSUME Complete, NEW i \in 1..mSelectSize, NEW j \in 1..Len(answered),
               answered[j] = mSelectIds[i], FirstIndex(answered[j], i)
        PROVE  returnVector[i] = ValueOf(mSelectIds[i])
    <3>1. mSelectIds[i] \in ToSet(taken)
      BY <1>1, <1>3, <2>3 DEF ToSet
    <3>2. FirstIndex(mSelectIds[i], i)
      BY <2>3
    <3> QED BY <2>1, <3>1, <3>2 DEF ToldPull
  <2> QED BY <2>1, <2>2, <2>3 DEF PullTold, ToldPull
<1> QED BY <1>6, <1>7

(* What ping and pull return on a quiet line.                                *)
LEMMA ReturnTells ==
    ASSUME RxInv, QuietInv, [Next]_vars, Returns, fresh, ~noisy
    PROVE  /\ call.op = "ping" => PingTold
           /\ call.op = "pull" => PullTold
<1>1. pc = "parse" /\ pc' = "idle" /\ ~Overrun /\ TypeOK
  BY DEF Returns, RxInv
<1>2. PICK beyond \in Beyond : Return(beyond)
  <2>1. Parse
    BY <1>1 DEF Next, Sketch, selectServo, setXlBaudRate, Call, Arrive, Step,
                ReceiveRound, ReceiveEnds, Finished, vars
  <2>2. ~ParseElsewhere
    BY <1>1, ElsewhereIsOverrun DEF ParseElsewhere
  <2> QED BY <1>1, <2>1, <2>2 DEF Parse, SkipBytes, TakePacket
<1>3. PICK b, w : CallInv(b, w)
  BY <1>1 DEF QuietInv
<1>4. CASE AtEnd(b, w)
  <2>1. Len(b) \in 0..Len(b)
    BY <1>3, ScriptIs DEF CallInv
  <2> QED BY <1>1, <1>3, <1>4, <2>1, TakenTold DEF AtEnd
<1>5. ASSUME NEW n, NEW f, Before(b, w, n, f)
      PROVE  /\ call.op = "ping" => PingTold
             /\ call.op = "pull" => PullTold
  <2> DEFINE r == FlattenSeq(b)
  <2>1. /\ n \in 0..Len(b) /\ AtTurn(b, w, n)
        /\ f \in Seq(Byte) /\ IsWhole(f) /\ Seen(f, beyond) /\ Len(f) \in Nat
        /\ mRxPtr + Len(f) <= Len(r) /\ r \in Seq(Byte) /\ Len(r) \in Nat
    BY <1>3, <1>5, ScriptIs, LenProperties DEF Before, CallInv
  <2>2. /\ Left = mRxBufferSize - mRxPtr /\ mRxPtr \in Nat /\ mRxBufferSize \in Nat
        /\ mRxBufferSize <= Len(r) /\ uart \o line = From(r, mRxBufferSize + 1)
    BY <1>1, <1>3, LeftIs, SizesAssumption, SMTT(30) DEF TypeOK, CallInv, Received
  <2>3. Left < Len(f)
    <3>1. CASE Left = 0
      <4>1. Len(f) \in 8..255
        BY <2>1, WholeIs
      <4>2. \A k \in 8..255 : 0 < k
        OBVIOUS
      <4> QED BY <3>1, <4>1, <4>2
    <3>2. CASE Left # 0
      <4>1. ~CompletePacket(beyond)
        BY <1>2, <3>2 DEF Return
      <4>2. ~(Len(f) <= Left)
        BY <2>1, <4>1, WholeIsTaken
      <4> QED BY <2>1, <2>2, <4>2
    <3> QED BY <3>1, <3>2
  <2>4. mRxBufferSize < Len(r)
    BY <2>1, <2>2, <2>3
  <2> HIDE DEF r
  <2>5. ~Complete
    <3> SUFFICES ASSUME line = <<>>, uart = <<>> PROVE FALSE
      BY DEF Complete
    <3>1. <<>> \o <<>> = <<>> /\ Len(<<>>) = 0
      BY EmptySeq, ConcatEmptySeq
    <3>2. Len(From(r, mRxBufferSize + 1)) = 0
      BY <2>2, <3>1
    <3>3. mRxBufferSize + 1 \in Nat \ {0} /\ mRxBufferSize + 1 <= Len(r) + 1
      BY <2>1, <2>2
    <3>4. Len(From(r, mRxBufferSize + 1)) = Len(r) - (mRxBufferSize + 1) + 1
      BY <2>1, <3>3, FromType
    <3> QED BY <2>1, <2>2, <2>4, <3>2, <3>4
  <2> QED BY <1>1, <1>3, <2>1, <2>5, TakenTold
<1> QED BY <1>1, <1>3, <1>4, <1>5, Ahead

(* A ping that begins with nothing on its way, on a line that carries only   *)
(* packets, returns servos that answered it, each once and in their order,   *)
(* counts as many, and leaves none out if all was received, wherever the     *)
(* second ended (controller.cpp, ping and getNextPacket).                    *)
THEOREM PingOnQuietLine ==
    Spec => [][Returns /\ call.op = "ping" /\ fresh /\ ~noisy => PingTold]_vars
<1>1. RxInv /\ QuietInv /\ [Next]_vars
        => [Returns /\ call.op = "ping" /\ fresh /\ ~noisy => PingTold]_vars
  BY ReturnTells
<1> QED BY <1>1, QuietAlways, PTL DEF Spec

(* And a pull returns, for each servo that is selected, the value that it    *)
(* has answered or the mark of one that is silent.                           *)
THEOREM PullOnQuietLine ==
    Spec => [][Returns /\ call.op = "pull" /\ fresh /\ ~noisy => PullTold]_vars
<1>1. RxInv /\ QuietInv /\ [Next]_vars
        => [Returns /\ call.op = "pull" /\ fresh /\ ~noisy => PullTold]_vars
  BY ReturnTells
<1> QED BY <1>1, QuietAlways, PTL DEF Spec

(* A line that carries nothing but packets is never noisy.                   *)
LEMMA PacketsAreNoNoise ==
    ASSUME Fronts \subseteq Quiet, Backs \subseteq {<<>>}
    PROVE  Spec => [](noisy = FALSE)
<1>1. Init => noisy = FALSE
  BY DEF Init
<1>2. noisy = FALSE /\ [Next]_vars => (noisy = FALSE)'
  <2> SUFFICES ASSUME noisy = FALSE, [Next]_vars PROVE noisy' = FALSE
    OBVIOUS
  <2>1. ASSUME NEW op, NEW reg, Call(op, reg) PROVE noisy' = FALSE
    <3>1. PICK silent \in Silences, front \in Fronts, back \in Backs :
              Send(op, reg, Asked(op) \ silent, front, back)
      BY <2>1 DEF Call
    <3>2. front \in Quiet /\ back = <<>>
      OBVIOUS
    <3> QED BY <3>1, <3>2 DEF Send
  <2>2. UNCHANGED noisy \/ \E op, reg : Call(op, reg)
    BY DEF Next, Sketch, selectServo, setXlBaudRate, Arrive, Step, ReceiveRound,
                ReceiveEnds, Parse, SkipBytes, TakePacket, Return, ParseElsewhere,
                Finished, vars, history
  <2> QED BY <2>1, <2>2
<1> QED BY <1>1, <1>2, PTL DEF Spec

(* So there ping tells who answers, and pull the truth.                      *)
THEOREM PingOnPacketLine ==
    ASSUME Fronts \subseteq Quiet, Backs \subseteq {<<>>}
    PROVE  Spec => PingTellsWho
<1>1. Spec => [](noisy = FALSE)
  BY PacketsAreNoNoise
<1>2. noisy = FALSE /\ [Returns /\ call.op = "ping" /\ fresh /\ ~noisy => PingTold]_vars
        => [Returns /\ call.op = "ping" /\ fresh => PingTold]_vars
  OBVIOUS
<1> QED BY <1>1, <1>2, PingOnQuietLine, PTL DEF PingTellsWho

(* On such a line pull tells the truth about each selected servo.            *)
THEOREM PullOnPacketLine ==
    ASSUME Fronts \subseteq Quiet, Backs \subseteq {<<>>}
    PROVE  Spec => PullTellsTruth
<1>1. Spec => [](noisy = FALSE)
  BY PacketsAreNoNoise
<1>2. noisy = FALSE /\ [Returns /\ call.op = "pull" /\ fresh /\ ~noisy => PullTold]_vars
        => [Returns /\ call.op = "pull" /\ fresh => PullTold]_vars
  OBVIOUS
<1> QED BY <1>1, <1>2, PullOnQuietLine, PTL DEF PullTellsTruth
-----------------------------------------------------------------------------
(* What a cell of the buffer may hold.                                       *)
Cell == STRING \cup {"NUL", ","}

(* What the terminal has read of a line, and whether it has replied.         *)
TerminalInv ==
    /\ mCmdPtr \in 0..CmdBufferSize
    /\ mCmdBuffer \in [0..CmdBufferSize-1 -> Cell]
    /\ mode \in {"loop", "parse", "wait", "lost"}
    /\ stream = <<>> \/ IsLine(stream)
    /\ mode # "loop" => stream = <<>>
    /\ typed \in Seq(Lines)
    /\ \E S : log \in Seq(S)
    /\ Len(typed) = Len(log) + (IF mode = "loop" /\ stream = <<>> THEN 0 ELSE 1)

(* The controller is in order too, whoever calls it.                         *)
MachineInv == RxInv /\ TerminalInv

(* The size of the buffer of a line.                                         *)
LEMMA SizeIs == CmdBufferSize \in Nat /\ CmdBufferSize >= 5
<1>1. CmdBufferSize \in 5..128
  BY BufferAssumption
<1> QED BY <1>1

(* Before setup.                                                             *)
LEMMA InitTerminal == MachineInit => TerminalInv
<1> SUFFICES ASSUME MachineInit PROVE TerminalInv
  OBVIOUS
<1>1. typed \in Seq(Lines) /\ log \in Seq({}) /\ Len(typed) = 0 /\ Len(log) = 0
  BY EmptySeq DEF MachineInit
<1>2. mCmdBuffer \in [0..CmdBufferSize-1 -> Cell]
  BY DEF Cell, MachineInit
<1>3. mCmdPtr \in 0..CmdBufferSize
  BY SizeIs DEF MachineInit
<1> QED BY <1>1, <1>2, <1>3 DEF MachineInit, TerminalInv

(* A line is typed while there is none.                                      *)
LEMMA TypeTerminal ==
    ASSUME TerminalInv, NEW text \in Lines, Type(text)
    PROVE  TerminalInv'
<1> DEFINE tokens == Tokens(text)
<1>1. /\ stream = <<>> /\ mode = "loop" /\ typed' = Append(typed, text)
      /\ stream' = stream \o tokens /\ UNCHANGED <<mCmdPtr, mCmdBuffer, mode, log>>
  BY DEF Type, bufferVars
<1>2. IsLine(tokens)
  BY LinesAssumption
<1> HIDE DEF tokens
<1>3. stream' = tokens
  <2>1. tokens \in Seq(STRING)
    BY <1>2 DEF IsLine
  <2> QED BY <1>1, <2>1, ConcatEmptySeq
<1>4. typed' \in Seq(Lines) /\ Len(typed') = Len(typed) + 1
  <2>1. typed \in Seq(Lines)
    BY DEF TerminalInv
  <2> QED BY <1>1, <2>1, AppendProperties
<1>5. IsLine(stream') /\ stream' # <<>>
  BY <1>2, <1>3 DEF IsLine
<1> QED BY <1>1, <1>4, <1>5 DEF TerminalInv

(* addCmdChar stays inside of the buffer.                                    *)
LEMMA AddCmdCharFits ==
    ASSUME NEW cmd, NEW c \in Cell, cmd.ptr \in 0..CmdBufferSize,
           cmd.cells \in [0..CmdBufferSize-1 -> Cell]
    PROVE  LET next == AddCmdChar(cmd, c) IN
           /\ next.ptr \in 0..CmdBufferSize
           /\ next.cells \in [0..CmdBufferSize-1 -> Cell]
<1>1. CASE cmd.ptr < CmdBufferSize
  <2>1. cmd.ptr + 1 \in 0..CmdBufferSize
    BY <1>1, SizeIs
  <2>2. [cmd.cells EXCEPT ![cmd.ptr] = c] \in [0..CmdBufferSize-1 -> Cell]
    OBVIOUS
  <2> QED BY <1>1, <2>1, <2>2 DEF AddCmdChar
<1>2. CASE ~(cmd.ptr < CmdBufferSize)
  BY <1>2 DEF AddCmdChar
<1> QED BY <1>1, <1>2

(* The first token of a line, and what is left: a line or nothing.           *)
LEMMA LineTail ==
    ASSUME NEW s, IsLine(s)
    PROVE  /\ Head(s) \in STRING
           /\ Head(s) = "\n" <=> Tail(s) = <<>>
           /\ Tail(s) # <<>> => IsLine(Tail(s))
<1>1. s \in Seq(STRING) /\ s # <<>> /\ \A i \in 1..Len(s) : s[i] = "\n" <=> i = Len(s)
  BY DEF IsLine
<1> DEFINE t == Tail(s)
<1>2. /\ Len(s) \in Nat \ {0} /\ Head(s) = s[1]
      /\ t \in Seq(STRING) /\ Len(t) = Len(s) - 1
      /\ \A i \in 1..Len(t) : t[i] = s[i + 1]
  <2>1. Len(s) \in Nat \ {0}
    BY <1>1, LenProperties, EmptySeq
  <2>2. t \in Seq(STRING) /\ Len(t) = Len(s) - 1 /\ \A i \in 1..Len(t) : t[i] = s[i + 1]
    BY <1>1, HeadTailProperties
  <2>3. Head(s) = s[1]
    BY <1>1, HeadTailProperties
  <2> QED BY <2>1, <2>2, <2>3
<1> HIDE DEF t
<1>3. Head(s) \in STRING
  BY <1>1, <1>2, ElementOfSeq
<1>4. 1 \in 1..Len(s)
  BY <1>2
<1>5. Head(s) = "\n" <=> Len(t) = 0
  BY <1>1, <1>2, <1>4
<1>6. Len(t) = 0 <=> t = <<>>
  BY <1>2, EmptySeq
<1>7. ASSUME NEW i \in 1..Len(t) PROVE t[i] = "\n" <=> i = Len(t)
  <2>1. i + 1 \in 1..Len(s) /\ (i + 1 = Len(s) <=> i = Len(t))
    BY <1>2
  <2> QED BY <1>1, <1>2, <2>1
<1>8. t # <<>> => IsLine(t)
  BY <1>2, <1>7 DEF IsLine
<1> QED BY <1>3, <1>5, <1>6, <1>8 DEF t

(* A character of the line goes into the buffer; the last one starts parse.  *)
LEMMA ReadCharTerminal == ASSUME TerminalInv, ReadChar PROVE TerminalInv'
<1> DEFINE c == Head(stream)
           read == AddCmdChar(Buffer, c)
           buffer == IF c = "\n" THEN AddCmdChar(read, "NUL") ELSE read
<1>1. /\ mode = "loop" /\ stream # <<>> /\ stream' = Tail(stream)
      /\ mCmdPtr' = buffer.ptr /\ mCmdBuffer' = buffer.cells
      /\ mode' = IF c = "\n" THEN "parse" ELSE "loop"
      /\ UNCHANGED <<typed, log>>
  BY DEF ReadChar
<1>2. IsLine(stream)
  BY <1>1 DEF TerminalInv
<1>3. /\ c \in Cell /\ (c = "\n" <=> stream' = <<>>)
      /\ stream' # <<>> => IsLine(stream')
  BY <1>1, <1>2, LineTail DEF Cell
<1>4. Buffer.ptr \in 0..CmdBufferSize /\ Buffer.cells \in [0..CmdBufferSize-1 -> Cell]
  BY DEF Buffer, TerminalInv
<1>5. read.ptr \in 0..CmdBufferSize /\ read.cells \in [0..CmdBufferSize-1 -> Cell]
  BY <1>3, <1>4, AddCmdCharFits
<1>6. buffer.ptr \in 0..CmdBufferSize /\ buffer.cells \in [0..CmdBufferSize-1 -> Cell]
  <2> HIDE DEF read, c
  <2>1. /\ AddCmdChar(read, "NUL").ptr \in 0..CmdBufferSize
        /\ AddCmdChar(read, "NUL").cells \in [0..CmdBufferSize-1 -> Cell]
    BY <1>5, AddCmdCharFits DEF Cell
  <2>2. CASE c = "\n"
    BY <2>1, <2>2
  <2>3. CASE c # "\n"
    BY <1>5, <2>3
  <2> QED BY <2>2, <2>3
<1> HIDE DEF c, buffer
<1> QED BY <1>1, <1>3, <1>6 DEF TerminalInv
-----------------------------------------------------------------------------
(* The parser stops in the buffer or at its end.                             *)
LEMMA StopIs ==
    ASSUME NEW p \in Nat, NEW ends
    PROVE  Stop(p, ends) \in Nat /\ Stop(p, ends) <= CmdBufferSize
<1> DEFINE S == {CmdBufferSize} \cup
                {i \in p..CmdBufferSize-1 : mCmdBuffer[i] \in ends}
<1>1. S \in SUBSET Nat /\ S # {} /\ \A i \in S : i <= CmdBufferSize
  BY SizeIs
<1>2. Stop(p, ends) = CHOOSE x \in S : \A y \in S : x <= y
  BY DEF Stop, Min
<1> HIDE DEF S
<1>3. \E x \in S : \A y \in S : x <= y
  BY <1>1, Smallest
<1>4. Stop(p, ends) \in S
  BY <1>2, <1>3
<1> QED BY <1>1, <1>4

(* There are as many arguments as commas.                                    *)
LEMMA ArgTokensIs ==
    ASSUME NEW text \in Seq(Cell)
    PROVE  Len(ArgTokens(text)) \in Nat
<1> DEFINE all == IF text = <<>> \/ text[1] = "," THEN text ELSE <<",">> \o text
           commas == {j \in 1..Len(all) : all[j] = ","}
           n == Cardinality(commas)
<1>1. all \in Seq(Cell)
  <2>0. "," \in Cell
    BY DEF Cell
  <2>1. <<",">> \in Seq(Cell)
    <3>1. \A c \in Cell : <<c>> \in Seq(Cell)
      OBVIOUS
    <3> QED BY <2>0, <3>1
  <2>2. <<",">> \o text \in Seq(Cell)
    BY <2>1, ConcatProperties
  <2> QED BY <2>2
<1>2. Len(all) \in Nat
  BY <1>1, LenProperties
<1> DEFINE CommasTo(i) == Cardinality({j \in 1..i : all[j] = ","})
           Nth(k) == CHOOSE i \in 1..Len(all) : all[i] = "," /\ CommasTo(i) = k
           arg(k) == IF Nth(k) < Len(all) /\ all[Nth(k) + 1] # ","
                     THEN all[Nth(k) + 1] ELSE ""
<1>3. ArgTokens(text) = [k \in 1..n |-> arg(k)]
  BY DEF ArgTokens
<1> HIDE DEF all, arg
<1>4. n \in Nat
  <2>1. 1 \in Int /\ Len(all) \in Int
    BY <1>2
  <2>2. IsFiniteSet(1..Len(all))
    BY <2>1, FS_Interval
  <2>3. commas \in SUBSET (1..Len(all))
    OBVIOUS
  <2>4. IsFiniteSet(commas)
    BY <2>2, <2>3, FS_Subset
  <2> QED BY <2>4, FS_CardinalityType
<1> HIDE DEF n
<1>5. Len([k \in 1..n |-> arg(k)]) = n
  BY <1>4
<1> QED BY <1>3, <1>4, <1>5

(* A line has some arguments, maybe none.                                   *)
LEMMA ParsedArgs ==
    ASSUME TerminalInv
    PROVE  Len(Parsed.args) \in Nat
<1> DEFINE end == Stop(3, CmdEnds)
           stop == Stop(end + 1, ArgEnds)
           cells == [i \in 1..CmdBufferSize |-> mCmdBuffer[i - 1]]
           text == SubSeq(cells, end + 2, stop)
<1>1. Parsed.args = ArgTokens(text)
  BY DEF Parsed
<1>2. /\ end \in Nat /\ stop \in Nat /\ stop <= CmdBufferSize
  <2>1. end \in Nat
    BY StopIs
  <2> HIDE DEF end
  <2>2. end + 1 \in Nat
    BY <2>1
  <2> QED BY <2>1, <2>2, StopIs
<1>3. \A i \in 1..CmdBufferSize : cells[i] \in Cell
  BY SizeIs DEF TerminalInv
<1> HIDE DEF end, stop, cells
<1>4. end + 2 \in Int /\ stop \in Int /\ \A i \in end + 2..stop : i \in 1..CmdBufferSize
  BY <1>2, SizeIs
<1>5. \A i \in end + 2..stop : cells[i] \in Cell
  BY <1>3, <1>4
<1>6. text \in Seq(Cell)
  BY <1>4, <1>5, SubSeqProperties
<1> HIDE DEF text
<1> QED BY <1>1, <1>6, ArgTokensIs

(* The ids of SEL are cut to eight bits.                                     *)
LEMMA SelectedFit ==
    ASSUME TerminalInv, ArgsFit(Parsed.args)
    PROVE  LET numbers == ToIntList(Parsed.args)
               chosen == [n \in 1..Len(numbers) |-> numbers[n] % 256]
           IN  chosen \in Seq(Byte) /\ Len(chosen) <= SelectSizeMax
<1> DEFINE args == Parsed.args
           numbers == ToIntList(args)
           chosen == [n \in 1..Len(numbers) |-> numbers[n] % 256]
<1>1. Len(args) \in Nat /\ Len(args) <= SelectSizeMax
  BY ParsedArgs DEF ArgsFit
<1> HIDE DEF args
<1>2. \A n \in 1..Len(args) : ToInt(args[n]) \in Int
  BY NumbersAssumption DEF ToInt
<1>3. numbers = [n \in 1..Len(args) |-> ToInt(args[n])]
  BY DEF ToIntList
<1>4. Len(numbers) = Len(args) /\ \A n \in 1..Len(args) : numbers[n] \in Int
  BY <1>1, <1>2, <1>3
<1> HIDE DEF numbers
<1>5. \A n \in 1..Len(args) : numbers[n] % 256 \in Byte
  <2>1. \A x \in Int : x % 256 \in Nat /\ x % 256 < 256
    OBVIOUS
  <2> QED BY <1>4, <2>1, ByteIs
<1>6. chosen = [n \in 1..Len(args) |-> numbers[n] % 256]
  BY <1>4
<1>7. chosen \in [1..Len(args) -> Byte]
  BY <1>5, <1>6
<1> HIDE DEF chosen
<1>8. chosen \in Seq(Byte) /\ Len(chosen) = Len(args)
  BY <1>1, <1>7
<1> QED BY <1>1, <1>8 DEF args, numbers, chosen

(* What parse does keeps what it says of itself: either it replies, or the   *)
(* controller is called and the reply comes later.                           *)
LEMMA ReplyTerminal ==
    ASSUME TerminalInv, mode # "loop", NEW said, NEW values, Reply(said, values),
           mode' = "loop", UNCHANGED <<stream, typed>>,
           mCmdPtr' \in 0..CmdBufferSize,
           mCmdBuffer' \in [0..CmdBufferSize-1 -> Cell]
    PROVE  TerminalInv'
<1> DEFINE entry == [line |-> typed[Len(log) + 1],
                     reply |-> [said |-> said, values |-> values]]
<1>1. log' = Append(log, entry)
  BY DEF Reply
<1> HIDE DEF entry
<1>2. PICK S : log \in Seq(S)
  BY DEF TerminalInv
<1>3. log \in Seq(S \cup {entry}) /\ entry \in S \cup {entry}
  BY <1>2
<1>4. log' \in Seq(S \cup {entry}) /\ Len(log') = Len(log) + 1 /\ Len(log) \in Nat
  BY <1>1, <1>3, AppendProperties, LenProperties
<1>5. stream' = <<>> /\ Len(typed) = Len(log) + 1
  BY DEF TerminalInv
<1>6. \E T : log' \in Seq(T)
  BY <1>4
<1> QED BY <1>4, <1>5, <1>6 DEF TerminalInv

(* The commands that are replied to at once.                                 *)
AtOnce(cmd) == \/ NoCommand(cmd) \/ Refuse(cmd) \/ GetXBaud(cmd) \/ SetXBaud(cmd)
               \/ SetPing(cmd) \/ GetSelect(cmd) \/ SetSelect(cmd)

(* They answer, leave the controller alone and forget the line.             *)
LEMMA AtOnceReplies ==
    ASSUME NEW cmd, AtOnce(cmd)
    PROVE  /\ \E said, values : Reply(said, values)
           /\ mode' = "loop" /\ mCmdPtr' = 0 /\ UNCHANGED <<stream, typed>>
           /\ EndName(cmd) \/ UNCHANGED mCmdBuffer
<1>1. CASE NoCommand(cmd)
  BY <1>1 DEF NoCommand, RstCmdPtr
<1>2. CASE Refuse(cmd)
  BY <1>2 DEF Refuse, RstCmdPtr
<1>3. CASE GetXBaud(cmd)
  BY <1>3 DEF GetXBaud, RstCmdPtr
<1>4. CASE SetXBaud(cmd)
  BY <1>4 DEF SetXBaud, RstCmdPtr
<1>5. CASE SetPing(cmd)
  BY <1>5 DEF SetPing, RstCmdPtr
<1>6. CASE GetSelect(cmd)
  BY <1>6 DEF GetSelect, RstCmdPtr
<1>7. CASE SetSelect(cmd)
  BY <1>7 DEF SetSelect, RstCmdPtr
<1> QED BY <1>1, <1>2, <1>3, <1>4, <1>5, <1>6, <1>7 DEF AtOnce

(* The others call the controller.                                           *)
Calls(cmd) == GetPing(cmd) \/ GetReg(cmd) \/ SetReg(cmd)

(* They call it once and leave the rest to its return.                      *)
LEMMA CallsController ==
    ASSUME NEW cmd, Calls(cmd)
    PROVE  /\ \E op, reg : (op = "pull" => reg \in Regs) /\ Call(op, reg)
           /\ mode' = "wait" /\ mCmdPtr' = 0 /\ UNCHANGED <<stream, typed, log>>
           /\ EndName(cmd)
<1>1. CASE GetPing(cmd)
  BY <1>1 DEF GetPing, CallController, RstCmdPtr
<1>2. CASE GetReg(cmd)
  BY <1>2 DEF GetReg, CallController, RstCmdPtr
<1>3. CASE SetReg(cmd)
  BY <1>3 DEF SetReg, CallController, RstCmdPtr
<1> QED BY <1>1, <1>2, <1>3 DEF Calls

(* The mark put at the end of the name stays inside the buffer.             *)
LEMMA EndNameKeeps ==
    ASSUME TerminalInv, NEW cmd, EndName(cmd) \/ UNCHANGED mCmdBuffer
    PROVE  mCmdBuffer' \in [0..CmdBufferSize-1 -> Cell]
BY DEF EndName, TerminalInv, Cell

(* Parsing a line keeps the terminal in order.                              *)
LEMMA ParseLineTerminal == ASSUME TerminalInv, ParseLine PROVE TerminalInv'
<1>1. mode = "parse"
  BY DEF ParseLine
<1>2. PICK cmd \in {Parsed} : AtOnce(cmd) \/ Calls(cmd) \/ ParsePast(cmd)
  BY DEF ParseLine, AtOnce, Calls
<1>3. 0 \in 0..CmdBufferSize
  BY SizeIs
<1>4. CASE AtOnce(cmd)
  <2>1. mCmdBuffer' \in [0..CmdBufferSize-1 -> Cell]
    BY <1>4, AtOnceReplies, EndNameKeeps
  <2>2. /\ \E said, values : Reply(said, values)
        /\ mode' = "loop" /\ mCmdPtr' = 0 /\ UNCHANGED <<stream, typed>>
    BY <1>4, AtOnceReplies
  <2>3. mCmdPtr' \in 0..CmdBufferSize /\ mode # "loop"
    BY <1>1, <1>3, <2>2
  <2> QED BY <2>1, <2>2, <2>3, ReplyTerminal
<1>5. CASE Calls(cmd)
  <2>1. mCmdBuffer' \in [0..CmdBufferSize-1 -> Cell]
    BY <1>5, CallsController, EndNameKeeps
  <2>2. mode' = "wait" /\ mCmdPtr' = 0 /\ UNCHANGED <<stream, typed, log>>
    BY <1>5, CallsController
  <2> QED BY <1>1, <1>3, <2>1, <2>2 DEF TerminalInv
<1>6. CASE ParsePast(cmd)
  BY <1>1, <1>6 DEF ParsePast, TerminalInv, bufferVars
<1> QED BY <1>2, <1>4, <1>5, <1>6

(* The reply to a call of the controller, or its end outside of an array.    *)
LEMMA ReturnTerminal ==
    ASSUME TerminalInv, ReplyToCall \/ PingPast
    PROVE  TerminalInv'
<1>1. CASE ReplyToCall
  <2>1. /\ \E said, values : Reply(said, values)
        /\ mode # "loop" /\ mode' = "loop"
        /\ UNCHANGED <<stream, mCmdPtr, mCmdBuffer, typed>>
    BY <1>1 DEF ReplyToCall, ControllerReturned, bufferVars
  <2>2. mCmdPtr' \in 0..CmdBufferSize /\ mCmdBuffer' \in [0..CmdBufferSize-1 -> Cell]
    BY <2>1 DEF TerminalInv
  <2> QED BY <2>1, <2>2, ReplyTerminal
<1>2. CASE PingPast
  BY <1>2 DEF PingPast, ControllerReturned, TerminalInv, bufferVars
<1> QED BY <1>1, <1>2

(* A step that the terminal has no part in.                                  *)
LEMMA TerminalUntouched ==
    ASSUME TerminalInv, UNCHANGED machineVars
    PROVE  TerminalInv'
BY DEF TerminalInv, machineVars, bufferVars

(* Every step of the terminal.                                               *)
LEMMA NextTerminal == ASSUME TerminalInv, [MachineNext]_allVars PROVE TerminalInv'
<1>1. CASE UNCHANGED machineVars
  BY <1>1, TerminalUntouched
<1>2. ASSUME NEW text \in Lines, Type(text) PROVE TerminalInv'
  BY <1>2, TypeTerminal
<1>3. CASE Loop
  BY <1>3, ReadCharTerminal, ParseLineTerminal, ReturnTerminal DEF Loop
<1> QED BY <1>1, <1>2, <1>3 DEF MachineNext, Setup, Rest, Lost, allVars
-----------------------------------------------------------------------------
(* A step of the terminal that does not call the controller.                 *)
LEMMA ControllerUntouched ==
    ASSUME RxInv, UNCHANGED vars
    PROVE  RxInv'
BY NextRx

(* What parse does to the controller.                                        *)
LEMMA ParseLineRx == ASSUME RxInv, TerminalInv, ParseLine PROVE RxInv'
<1>1. PICK cmd \in {Parsed} : AtOnce(cmd) \/ Calls(cmd) \/ ParsePast(cmd)
  BY DEF ParseLine, AtOnce, Calls
<1>2. CASE SetXBaud(cmd)
  <2>1. PICK br \in IF Len(cmd.args) = 0 THEN Bauds ELSE {ToIntList(cmd.args)[1]} :
            setXlBaudRate(br)
    BY <1>2 DEF SetXBaud
  <2>2. Len(cmd.args) # 0 => ToIntList(cmd.args)[1] \in Int
    <3>1. Len(cmd.args) \in Nat
      BY <1>1, ParsedArgs
    <3>2. Len(cmd.args) # 0 => 1 \in 1..Len(cmd.args)
      BY <3>1
    <3>3. \A t : ToInt(t) \in Int
      BY NumbersAssumption DEF ToInt
    <3> QED BY <3>2, <3>3 DEF ToIntList
  <2>3. br \in Int
    BY <2>1, <2>2, BaudAssumption
  <2> QED BY <2>1, <2>3, BaudRx
<1>3. CASE SetSelect(cmd)
  <2> DEFINE numbers == ToIntList(Parsed.args)
             chosen == [n \in 1..Len(numbers) |-> numbers[n] % 256]
  <2>1. selectServo(chosen) /\ ArgsFit(Parsed.args)
    BY <1>3 DEF SetSelect, Setter
  <2>2. chosen \in Seq(Byte) /\ Len(chosen) <= SelectSizeMax
    BY <2>1, SelectedFit
  <2> HIDE DEF chosen
  <2> QED BY <2>1, <2>2, SelectRx
<1>4. CASE Calls(cmd)
  <2>1. PICK op, reg : (op = "pull" => reg \in Regs) /\ Call(op, reg)
    BY <1>4, CallsController
  <2> QED BY <2>1, CallRx
<1>5. CASE UNCHANGED vars
  BY <1>5, ControllerUntouched
<1>6. UNCHANGED vars \/ SetXBaud(cmd) \/ SetSelect(cmd) \/ Calls(cmd)
  BY <1>1 DEF AtOnce, NoCommand, Refuse, GetXBaud, SetPing, GetSelect, ParsePast
<1> QED BY <1>2, <1>3, <1>4, <1>5, <1>6

(* Every step of the terminal.                                               *)
LEMMA MachineRx == ASSUME MachineInv, [MachineNext]_allVars PROVE RxInv'
<1>0. RxInv /\ TerminalInv
  BY DEF MachineInv
<1>1. CASE UNCHANGED vars
  BY <1>0, <1>1, ControllerUntouched
<1>2. CASE Setup
  BY <1>0, <1>2, BaudRx DEF Setup
<1>3. CASE ParseLine
  BY <1>0, <1>3, ParseLineRx
<1>4. CASE Arrive \/ Step
  BY <1>0, <1>4, NextRx DEF Next
<1>5. UNCHANGED vars \/ Setup \/ ParseLine \/ Arrive \/ Step
  BY DEF MachineNext, Loop, Type, ReadChar, ReplyToCall, PingPast, Rest, Lost, allVars
<1> QED BY <1>1, <1>2, <1>3, <1>4, <1>5

(* Terminal and controller stay in order.                                   *)
LEMMA MachineAlways == MachineSpec => []MachineInv
<1>1. MachineInit => MachineInv
  BY InitRx, InitTerminal DEF MachineInit, MachineInv
<1>2. MachineInv /\ [MachineNext]_allVars => MachineInv'
  BY MachineRx, NextTerminal DEF MachineInv
<1> QED BY <1>1, <1>2, PTL DEF MachineSpec

(* No character is stored outside of mCmdBuffer, no line is replied to       *)
(* twice, and no more servos are selected than the arrays have room for,     *)
(* whatever is typed (Machine.cpp:73-100, 267-274).                          *)
THEOREM MachineTypes == MachineSpec => []MachineTypeOK
<1>1. MachineInv => MachineTypeOK
  <2> SUFFICES ASSUME MachineInv PROVE MachineTypeOK
    OBVIOUS
  <2>1. Len(log) <= Len(typed)
    <3>1. Len(log) \in Nat
      BY LenProperties DEF MachineInv, TerminalInv
    <3> QED BY <3>1 DEF MachineInv, TerminalInv
  <2> QED BY <2>1 DEF MachineInv, TerminalInv, RxInv, TypeOK, MachineTypeOK
<1> QED BY <1>1, MachineAlways, PTL

(* What is proved of the controller holds of the one that the terminal calls *)
(* whenever a line tells it to.                                              *)
THEOREM TerminalKeepsController ==
    MachineSpec => [](TypeOK /\ OverrunNeedsCutHeader /\ AnswersBound)
<1>1. MachineInv => TypeOK /\ OverrunNeedsCutHeader /\ AnswersBound
  BY DEF MachineInv, RxInv
<1> QED BY <1>1, MachineAlways, PTL
-----------------------------------------------------------------------------
(* Where the parser stops.                                                   *)
LEMMA StopAt ==
    ASSUME NEW p \in Nat, NEW ends
    PROVE  /\ Stop(p, ends) < CmdBufferSize
                => p <= Stop(p, ends) /\ mCmdBuffer[Stop(p, ends)] \in ends
           /\ \A i \in p..CmdBufferSize-1 : mCmdBuffer[i] \in ends => Stop(p, ends) <= i
<1> DEFINE S == {CmdBufferSize} \cup
                {i \in p..CmdBufferSize-1 : mCmdBuffer[i] \in ends}
<1>1. S \in SUBSET Nat /\ S # {}
  BY SizeIs
<1>2. Stop(p, ends) = CHOOSE x \in S : \A y \in S : x <= y
  BY DEF Stop, Min
<1> HIDE DEF S
<1>3. \E x \in S : \A y \in S : x <= y
  BY <1>1, Smallest
<1>4. Stop(p, ends) \in S /\ \A y \in S : Stop(p, ends) <= y
  BY <1>2, <1>3
<1> QED BY <1>4, SizeIs DEF S

(* Fewer elements, if each has one of its own a fixed way behind it.         *)
LEMMA Shifted ==
    ASSUME NEW S \in SUBSET Int, NEW T, IsFiniteSet(T), NEW d \in Int,
           \A x \in S : x + d \in T
    PROVE  IsFiniteSet(S) /\ Cardinality(S) <= Cardinality(T)
<1> DEFINE f == [x \in S |-> x + d]
<1>1. f \in Injection(S, T)
  BY DEF Injection, IsInjective
<1> HIDE DEF f
<1> QED BY <1>1, FS_Injection

(* Where the commas of a text are.                                           *)
CommasOf(text) == {i \in 1..Len(text) : text[i] = ","}

(* They can be counted.                                                      *)
LEMMA CommasAre ==
    ASSUME NEW S, NEW text \in Seq(S)
    PROVE  IsFiniteSet(CommasOf(text)) /\ Cardinality(CommasOf(text)) \in Nat
<1>1. 1 \in Int /\ Len(text) \in Int
  BY LenProperties
<1>2. IsFiniteSet(1..Len(text)) /\ CommasOf(text) \in SUBSET (1..Len(text))
  BY <1>1, FS_Interval DEF CommasOf
<1>3. IsFiniteSet(CommasOf(text))
  BY <1>2, FS_Subset
<1> QED BY <1>3, FS_CardinalityType

(* The text that getNextArg sees: with a comma before the first argument.    *)
Led(text) == IF text = <<>> \/ text[1] = "," THEN text ELSE <<",">> \o text

(* It has a comma more at most, and nothing else that is new.                *)
LEMMA LedIs ==
    ASSUME NEW text \in Seq(Cell)
    PROVE  /\ Led(text) \in Seq(Cell)
           /\ Cardinality(CommasOf(Led(text))) <= Cardinality(CommasOf(text)) + 1
           /\ \A i \in 2..Len(Led(text)) : \E j \in 1..Len(text) : Led(text)[i] = text[j]
<1>1. CASE text = <<>> \/ text[1] = ","
  <2>1. Led(text) = text
    BY <1>1 DEF Led
  <2>2. Cardinality(CommasOf(text)) \in Nat
    BY CommasAre
  <2>3. \A i \in 2..Len(text) : i \in 1..Len(text)
    BY LenProperties
  <2> QED BY <2>1, <2>2, <2>3
<1>2. CASE ~(text = <<>> \/ text[1] = ",")
  <2> DEFINE all == Led(text)
             lead == <<",">>
  <2>1. lead \in Seq(Cell) /\ Len(lead) = 1
    <3>1. "," \in Cell
      BY DEF Cell
    <3>2. \A c \in Cell : <<c>> \in Seq(Cell) /\ Len(<<c>>) = 1
      OBVIOUS
    <3> QED BY <3>1, <3>2
  <2>2. all = lead \o text
    BY <1>2 DEF Led
  <2> HIDE DEF lead, all
  <2>3. /\ all \in Seq(Cell) /\ Len(text) \in Nat /\ Len(all) = Len(text) + 1
        /\ \A i \in 2..Len(all) : all[i] = text[i - 1]
    <3>1. /\ all \in Seq(Cell) /\ Len(all) = Len(lead) + Len(text)
          /\ \A i \in 1..Len(lead) + Len(text) : all[i] =
                IF i <= Len(lead) THEN lead[i] ELSE text[i - Len(lead)]
      BY <2>1, <2>2, ConcatProperties
    <3>2. Len(text) \in Nat
      BY LenProperties
    <3>3. ASSUME NEW i \in 2..Len(all) PROVE all[i] = text[i - 1]
      BY <2>1, <3>1, <3>2
    <3> QED BY <2>1, <3>1, <3>2, <3>3
  <2>4. IsFiniteSet(CommasOf(text)) /\ Cardinality(CommasOf(text)) \in Nat
        /\ IsFiniteSet(CommasOf(all)) /\ Cardinality(CommasOf(all)) \in Nat
    BY <2>3, CommasAre
  <2>5. \A i \in CommasOf(all) \ {1} : i + -1 \in CommasOf(text)
    <3> SUFFICES ASSUME NEW i \in CommasOf(all), i # 1 PROVE i + -1 \in CommasOf(text)
      OBVIOUS
    <3>1. i \in 1..Len(all) /\ all[i] = ","
      BY DEF CommasOf
    <3>5. Len(text) \in Nat /\ Len(all) = Len(text) + 1
      BY <2>3
    <3>6. i \in 1..Len(all) /\ i # 1
      BY <3>1
    <3>2. i \in 2..Len(all) /\ i - 1 \in 1..Len(text)
      BY <3>5, <3>6
    <3>4. i + -1 = i - 1
      BY <3>2
    <3>3. text[i - 1] = ","
      BY <2>3, <3>1, <3>2
    <3> QED BY <3>2, <3>3, <3>4 DEF CommasOf
  <2>6. CommasOf(all) \ {1} \in SUBSET Int
    <3>1. CommasOf(all) \subseteq 1..Len(all)
      BY DEF CommasOf
    <3> QED BY <2>3, <3>1
  <2>7. Cardinality(CommasOf(all) \ {1}) <= Cardinality(CommasOf(text))
    <3>1. -1 \in Int
      OBVIOUS
    <3> QED BY <2>4, <2>5, <2>6, <3>1, Shifted
  <2>8. Cardinality(CommasOf(all)) <= Cardinality(CommasOf(all) \ {1}) + 1
    <3>1. Cardinality(CommasOf(all) \ {1}) =
            IF 1 \in CommasOf(all) THEN Cardinality(CommasOf(all)) - 1
            ELSE Cardinality(CommasOf(all))
      BY <2>4, FS_RemoveElement
    <3> QED BY <2>4, <3>1
  <2>9. Cardinality(CommasOf(all) \ {1}) \in Nat
    BY <2>4, FS_RemoveElement, FS_CardinalityType
  <2>10. \A i \in 2..Len(all) : i - 1 \in 1..Len(text) /\ all[i] = text[i - 1]
    BY <2>3
  <2>11. \A i \in 2..Len(all) : \E j \in 1..Len(text) : all[i] = text[j]
    BY <2>10
  <2>12. Cardinality(CommasOf(all)) <= Cardinality(CommasOf(text)) + 1
    BY <2>4, <2>7, <2>8, <2>9
  <2> QED BY <2>3, <2>11, <2>12 DEF all
<1> QED BY <1>1, <1>2

(* Each argument has its comma.                                              *)
LEMMA NthComma ==
    ASSUME NEW S, NEW all \in Seq(S), NEW k \in 1..Cardinality(CommasOf(all))
    PROVE  \E i \in 1..Len(all) :
              all[i] = "," /\ Cardinality({j \in 1..i : all[j] = ","}) = k
<1> DEFINE To(i) == {j \in 1..i : all[j] = ","}
           T == {i \in 1..Len(all) : Cardinality(To(i)) >= k}
<1>1. Len(all) \in Nat /\ Cardinality(CommasOf(all)) \in Nat /\ k \in Nat /\ k >= 1
      /\ k <= Cardinality(CommasOf(all))
  BY LenProperties, CommasAre
<1>2. \A i \in 0..Len(all) : IsFiniteSet(To(i)) /\ Cardinality(To(i)) \in Nat
  <2> TAKE i \in 0..Len(all)
  <2>1. 1 \in Int /\ i \in Int
    BY <1>1
  <2>3. To(i) \in SUBSET (1..i)
    OBVIOUS
  <2>2. IsFiniteSet(1..i)
    BY <2>1, FS_Interval
  <2> QED BY <2>2, <2>3, FS_Subset, FS_CardinalityType
<1>3. To(Len(all)) = CommasOf(all)
  BY DEF CommasOf
<1>4. To(0) = {}
  OBVIOUS
<1>5. \A i \in 1..Len(all) : To(i) = IF all[i] = "," THEN To(i - 1) \cup {i} ELSE To(i - 1)
  <2> TAKE i \in 1..Len(all)
  <2>1. i \in Nat /\ \A j : j \in 1..i <=> j \in 1..i - 1 \/ j = i
    BY <1>1
  <2>2. \A j : j \in To(i) <=> j \in To(i - 1) \/ (j = i /\ all[i] = ",")
    BY <2>1
  <2> HIDE DEF To
  <2>3. CASE all[i] = ","
    BY <2>2, <2>3
  <2>4. CASE all[i] # ","
    BY <2>2, <2>4
  <2> QED BY <2>3, <2>4
<1> HIDE DEF To
<1>6. Cardinality(To(0)) = 0
  BY <1>4, FS_EmptySet
<1>7. Len(all) \in T
  <2>1. Len(all) # 0
    BY <1>1, <1>3, <1>6
  <2> QED BY <1>1, <1>3, <2>1
<1>8. PICK i \in T : \A y \in T : i <= y
  <2>1. T \in SUBSET Nat /\ T # {}
    BY <1>1, <1>7
  <2> HIDE DEF T
  <2> QED BY <2>1, Smallest
<1>9. i \in 1..Len(all) /\ i - 1 \in 0..Len(all) /\ Cardinality(To(i)) >= k
  BY <1>1, <1>8
<1>10. Cardinality(To(i - 1)) < k
  <2>1. CASE i = 1
    BY <1>1, <1>6, <2>1
  <2>2. CASE i # 1
    <3>1. i - 1 \in 1..Len(all) /\ i - 1 \notin T
      BY <1>1, <1>8, <1>9, <2>2
    <3> QED BY <1>1, <1>2, <1>9, <3>1
  <2> QED BY <2>1, <2>2
<1>11. all[i] = ","
  <2>1. i \in 0..Len(all)
    BY <1>1, <1>9
  <2>2. Cardinality(To(i)) \in Nat
    BY <1>2, <2>1
  <2>3. To(i) # To(i - 1)
    BY <1>1, <1>9, <1>10, <2>2
  <2> QED BY <1>5, <1>9, <2>3
<1>12. Cardinality(To(i)) <= Cardinality(To(i - 1)) + 1
  <2>1. To(i) = To(i - 1) \cup {i}
    BY <1>5, <1>9, <1>11
  <2>2. IsFiniteSet(To(i - 1)) /\ Cardinality(To(i - 1)) \in Nat
    BY <1>2, <1>9
  <2>3. Cardinality(To(i - 1) \cup {i}) =
          IF i \in To(i - 1) THEN Cardinality(To(i - 1)) ELSE Cardinality(To(i - 1)) + 1
    BY <2>2, FS_AddElement
  <2> QED BY <2>1, <2>2, <2>3
<1>13. Cardinality(To(i)) = k
  BY <1>1, <1>2, <1>9, <1>10, <1>12
<1> QED BY <1>9, <1>11, <1>13 DEF To

(* As many arguments as commas, one more if the first has none, each of them *)
(* a token of the text or empty.                                             *)
LEMMA ArgsAreFew ==
    ASSUME NEW text \in Seq(Cell)
    PROVE  /\ Len(ArgTokens(text)) <= Cardinality(CommasOf(text)) + 1
           /\ \A t \in ToSet(ArgTokens(text)) :
                  t = "" \/ \E j \in 1..Len(text) : t = text[j]
<1> DEFINE all == Led(text)
           n == Cardinality(CommasOf(all))
           CommasTo(i) == Cardinality({j \in 1..i : all[j] = ","})
           Nth(k) == CHOOSE i \in 1..Len(all) : all[i] = "," /\ CommasTo(i) = k
           arg(k) == IF Nth(k) < Len(all) /\ all[Nth(k) + 1] # ","
                     THEN all[Nth(k) + 1] ELSE ""
<1>1. ArgTokens(text) = [k \in 1..n |-> arg(k)]
  BY DEF ArgTokens, Led, CommasOf
<1>2. /\ all \in Seq(Cell) /\ Len(all) \in Nat
      /\ n <= Cardinality(CommasOf(text)) + 1
      /\ \A i \in 2..Len(all) : \E j \in 1..Len(text) : all[i] = text[j]
  BY LedIs, LenProperties
<1>3. n \in Nat /\ Cardinality(CommasOf(text)) \in Nat
  BY <1>2, CommasAre
<1>4. \A k \in 1..n : Nth(k) \in 1..Len(all)
  <2> TAKE k \in 1..n
  <2> HIDE DEF all
  <2>1. \E i \in 1..Len(all) : all[i] = "," /\ CommasTo(i) = k
    BY <1>2, NthComma
  <2> HIDE DEF CommasTo
  <2> QED BY <2>1
<1> HIDE DEF all, Nth
<1>5. \A k \in 1..n : arg(k) = "" \/ \E j \in 1..Len(text) : arg(k) = text[j]
  <2> TAKE k \in 1..n
  <2>1. CASE Nth(k) < Len(all)
    <3>1. Nth(k) + 1 \in 2..Len(all)
      BY <1>2, <1>4, <2>1
    <3> QED BY <1>2, <3>1
  <2>2. CASE ~(Nth(k) < Len(all))
    BY <2>2
  <2> QED BY <2>1, <2>2
<1> HIDE DEF n, arg
<1>6. Len([k \in 1..n |-> arg(k)]) = n
  BY <1>3
<1>7. ToSet(ArgTokens(text)) = {arg(k) : k \in 1..n}
  BY <1>1, <1>6 DEF ToSet
<1> QED BY <1>1, <1>2, <1>3, <1>5, <1>6, <1>7
-----------------------------------------------------------------------------
(* The line that was typed and not yet replied to.                           *)
TypedLine == Tokens(typed[Len(log) + 1])

Fits == Len(TypedLine) < CmdBufferSize

(* The buffer holds the first tokens of it.                                  *)
Holds(n) == \A i \in 0..n-1 : mCmdBuffer[i] = TypedLine[i + 1]

Cause ==
    \/ ~Fits \/ Cardinality(CommasOf(TypedLine)) >= SelectSizeMax
    \/ ToSet(TypedLine) \cap Wide # {}
    \/ TypedLine[4] = "PING"
            /\ (Len(Chain) > SelectSizeMax \/ ~fresh \/ noisy \/ Overrun)

(* A line that fits is in the buffer as far as it was read, with its zero    *)
(* when it is parsed, and what calls the ping is a line that asks for it.    *)
LineInv ==
    /\ mode = "loop" /\ stream = <<>> => mCmdPtr = 0
    /\ mode = "loop" /\ stream # <<>> /\ Fits =>
            /\ mCmdPtr < Len(TypedLine) /\ stream = From(TypedLine, mCmdPtr + 1)
            /\ Holds(mCmdPtr)
    /\ mode = "parse" /\ Fits =>
            Holds(Len(TypedLine)) /\ mCmdBuffer[Len(TypedLine)] = "NUL"
    /\ mode = "wait" => mCmdPtr = 0
    /\ mode = "wait" /\ call.op = "ping" /\ Fits => TypedLine[4] = "PING"
    /\ mode = "lost" => Cause

(* What was typed is a line.                                                 *)
LEMMA TypedIs ==
    ASSUME TerminalInv, mode # "loop" \/ stream # <<>>
    PROVE  /\ IsLine(TypedLine) /\ TypedLine \in Seq(STRING)
           /\ Len(TypedLine) \in Nat \ {0}
           /\ \A i \in 1..Len(TypedLine) : TypedLine[i] = "\n" <=> i = Len(TypedLine)
<1>1. Len(log) \in Nat /\ Len(typed) = Len(log) + 1 /\ typed \in Seq(Lines)
  BY LenProperties DEF TerminalInv
<1>2. typed[Len(log) + 1] \in Lines
  BY <1>1, ElementOfSeq
<1>3. IsLine(TypedLine)
  BY <1>2, LinesAssumption DEF TypedLine
<1>4. TypedLine \in Seq(STRING) /\ TypedLine # <<>>
  BY <1>3 DEF IsLine
<1> QED BY <1>3, <1>4, LenProperties, EmptySeq DEF IsLine

(* What the property calls a cause.                                          *)
LEMMA CauseIs ==
    ASSUME TerminalInv, mode # "loop"
    PROVE  Cause => OverrunsHaveACause
<1>1. Len(TypedLine) \in Int /\ CmdBufferSize \in Int
  <2>1. TypedLine \in Seq(STRING)
    BY TypedIs
  <2> QED BY <2>1, SizeIs, LenProperties
<1>2. ~Fits <=> Len(TypedLine) >= CmdBufferSize
  BY <1>1 DEF Fits
<1> QED BY <1>2 DEF Cause, OverrunsHaveACause, TypedLine, CommasOf

(* Before setup.                                                             *)
LEMMA InitLine == MachineInit => LineInv
BY DEF MachineInit, LineInv

(* A line that is typed has nothing read.                                    *)
LEMMA TypeLine ==
    ASSUME TerminalInv, LineInv, NEW text \in Lines, Type(text)
    PROVE  LineInv'
<1>1. /\ stream = <<>> /\ mode = "loop" /\ typed' = Append(typed, text)
      /\ stream' = <<>> \o Tokens(text) /\ UNCHANGED <<mCmdPtr, mCmdBuffer, mode, log>>
  BY DEF Type, bufferVars
<1>2. mCmdPtr = 0
  BY <1>1 DEF LineInv
<1>3. typed \in Seq(Lines) /\ Len(typed) = Len(log) /\ Len(typed) \in Nat
  <2>1. Len(log) \in Nat
    BY LenProperties DEF TerminalInv
  <2> QED BY <1>1, <2>1 DEF TerminalInv
<1>4. typed'[Len(log') + 1] = text
  BY <1>1, <1>3, AppendProperties
<1>5. TypedLine' = Tokens(text)
  BY <1>4 DEF TypedLine
<1> DEFINE tokens == Tokens(text)
<1>6. IsLine(tokens)
  BY LinesAssumption
<1> HIDE DEF tokens
<1>7. tokens \in Seq(STRING) /\ tokens # <<>>
  BY <1>6 DEF IsLine
<1>8. Len(tokens) \in Nat /\ 0 < Len(tokens)
  BY <1>7, LenProperties, EmptySeq
<1>9. stream' = tokens
  BY <1>1, <1>7, ConcatEmptySeq DEF tokens
<1>10. From(tokens, 1) = tokens
  <2>1. \A i \in 1..Len(tokens) : tokens[i] \in STRING
    BY <1>7, ElementOfSeq
  <2> QED BY <1>7, <1>8 DEF From
<1>11. Holds(0)'
  BY DEF Holds
<1>12. TypedLine' = tokens
  BY <1>5 DEF tokens
<1> QED BY <1>1, <1>2, <1>7, <1>8, <1>9, <1>10, <1>11, <1>12 DEF LineInv

(* A character of a line that fits goes where it stands in the line.         *)
LEMMA ReadCharLine == ASSUME TerminalInv, LineInv, ReadChar PROVE LineInv'
<1> DEFINE c == Head(stream)
           read == AddCmdChar(Buffer, c)
           buffer == IF c = "\n" THEN AddCmdChar(read, "NUL") ELSE read
           p == mCmdPtr
<1>1. /\ mode = "loop" /\ stream # <<>> /\ stream' = Tail(stream)
      /\ mCmdPtr' = buffer.ptr /\ mCmdBuffer' = buffer.cells
      /\ mode' = IF c = "\n" THEN "parse" ELSE "loop"
      /\ UNCHANGED <<typed, log>>
  BY DEF ReadChar
<1>2. TypedLine' = TypedLine /\ (Fits' <=> Fits)
  BY <1>1 DEF TypedLine, Fits
<1>3. TypedLine \in Seq(STRING) /\ Len(TypedLine) \in Nat
      /\ \A i \in 1..Len(TypedLine) : TypedLine[i] = "\n" <=> i = Len(TypedLine)
  BY <1>1, TypedIs
<1>4. /\ c = "\n" <=> stream' = <<>>
  BY <1>1, LineTail DEF TerminalInv
<1>5. (c = "\n" => mode' = "parse") /\ (c # "\n" => mode' = "loop" /\ stream' # <<>>)
  <2> HIDE DEF c, buffer
  <2> QED BY <1>1, <1>4
<1> SUFFICES ASSUME Fits
             PROVE  IF c = "\n"
                    THEN Holds(Len(TypedLine))' /\ mCmdBuffer'[Len(TypedLine)] = "NUL"
                    ELSE /\ mCmdPtr' < Len(TypedLine)
                         /\ stream' = From(TypedLine, mCmdPtr' + 1)
                         /\ Holds(mCmdPtr)'
  BY <1>1, <1>2, <1>4, <1>5 DEF LineInv
<1>6. /\ p < Len(TypedLine) /\ stream = From(TypedLine, p + 1) /\ Holds(p)
      /\ p \in Nat /\ p < CmdBufferSize /\ Len(TypedLine) < CmdBufferSize
      /\ mCmdBuffer \in [0..CmdBufferSize-1 -> Cell]
  BY <1>1, <1>3, SizeIs DEF LineInv, TerminalInv, Fits
<1>7. c = TypedLine[p + 1] /\ stream' = From(TypedLine, p + 2)
  <2>1. p + 1 \in Nat \ {0} /\ p + 1 <= Len(TypedLine) + 1 /\ p + 1 + 1 = p + 2
    BY <1>3, <1>6
  <2> QED BY <1>1, <1>3, <1>6, <2>1, FromTail
<1>8. read = [ptr |-> p + 1, cells |-> [mCmdBuffer EXCEPT ![p] = c]]
  BY <1>6 DEF Buffer, AddCmdChar
<1> DEFINE cells == [mCmdBuffer EXCEPT ![p] = c]
<1>9. \A i \in 0..p : cells[i] = TypedLine[i + 1]
  <2> TAKE i \in 0..p
  <2>1. i \in 0..CmdBufferSize-1 /\ p \in 0..CmdBufferSize-1 /\ (i # p => i \in 0..p-1)
    BY <1>6, SizeIs
  <2>2. CASE i = p
    BY <1>6, <1>7, <2>1, <2>2
  <2>3. CASE i # p
    <3>1. mCmdBuffer[i] = TypedLine[i + 1]
      BY <1>6, <2>1, <2>3 DEF Holds
    <3> HIDE DEF c
    <3>2. cells[i] = mCmdBuffer[i]
      BY <1>6, <2>1, <2>3
    <3> QED BY <3>1, <3>2
  <2> QED BY <2>2, <2>3
<1>10. CASE c = "\n"
  <2>1. p + 1 = Len(TypedLine)
    BY <1>3, <1>6, <1>7, <1>10
  <2>2. p + 1 < CmdBufferSize /\ p + 1 \in 0..CmdBufferSize-1
    BY <1>6, <2>1, SizeIs
  <2>3. read.ptr = p + 1 /\ read.cells = cells
    BY <1>8
  <2>4. buffer = AddCmdChar(read, "NUL")
    BY <1>10
  <2> HIDE DEF buffer, read, c
  <2>5. buffer = [ptr |-> read.ptr + 1, cells |-> [read.cells EXCEPT ![read.ptr] = "NUL"]]
    BY <2>2, <2>3, <2>4 DEF AddCmdChar
  <2>6. mCmdBuffer' = [cells EXCEPT ![p + 1] = "NUL"]
    BY <1>1, <2>3, <2>5
  <2>7. cells \in [0..CmdBufferSize-1 -> Cell \cup {c}]
    BY <1>6
  <2> HIDE DEF cells
  <2>8. mCmdBuffer'[p + 1] = "NUL" /\ \A i \in 0..p : mCmdBuffer'[i] = cells[i]
    <3>1. PICK nul : nul = "NUL"
      OBVIOUS
    <3>2. mCmdBuffer' = [cells EXCEPT ![p + 1] = nul]
      BY <2>6, <3>1
    <3>3. mCmdBuffer'[p + 1] = nul /\ \A i \in 0..p : mCmdBuffer'[i] = cells[i]
      BY <1>6, <2>2, <2>7, <3>2
    <3> QED BY <3>1, <3>3
  <2>9. \A i \in 0..p : mCmdBuffer'[i] = TypedLine[i + 1]
    BY <1>9, <2>8
  <2>10. Len(TypedLine) = p + 1 /\ Len(TypedLine) - 1 = p
    BY <1>6, <2>1
  <2> QED BY <1>2, <1>10, <2>8, <2>9, <2>10 DEF Holds
<1>11. CASE c # "\n"
  <2>1. p + 1 # Len(TypedLine)
    BY <1>3, <1>6, <1>7, <1>11
  <2>2. p + 1 < Len(TypedLine) /\ (p + 1) + 1 = p + 2 /\ (p + 1) - 1 = p
    BY <1>3, <1>6, <2>1
  <2>3. mCmdPtr' = p + 1 /\ mCmdBuffer' = cells
    BY <1>1, <1>8, <1>11
  <2> HIDE DEF buffer, read, c, cells
  <2>4. Holds(mCmdPtr)'
    BY <1>2, <1>9, <2>2, <2>3 DEF Holds
  <2>5. stream' = From(TypedLine, mCmdPtr' + 1) /\ mCmdPtr' < Len(TypedLine)
    BY <1>7, <2>2, <2>3
  <2> QED BY <1>11, <2>4, <2>5
<1> QED BY <1>10, <1>11
-----------------------------------------------------------------------------
(* What parse_command has in front of it.                                    *)
Commanded == Parsed.headed /\ Parsed.command

(* The parts of a line, one by one.                                          *)
LEMMA ParsedIs ==
    /\ Commanded => mCmdBuffer[0] = "X" /\ mCmdBuffer[1] = "L" /\ mCmdBuffer[2] = "+"
    /\ Parsed.end = Stop(3, CmdEnds)
    /\ Parsed.ended <=> Stop(Parsed.end + 1, ArgEnds) < CmdBufferSize
    /\ Parsed.name = IF Parsed.end = 4 THEN mCmdBuffer[3] ELSE ""
    /\ Parsed.mark = IF Parsed.end < CmdBufferSize THEN mCmdBuffer[Parsed.end] ELSE ""
    /\ Parsed.args = ArgTokens(SubSeq([i \in 1..CmdBufferSize |-> mCmdBuffer[i - 1]],
                            Parsed.end + 2, Stop(Parsed.end + 1, ArgEnds)))
<1>1. Parsed.headed <=> mCmdBuffer[0] = "X" /\ mCmdBuffer[1] = "L"
  BY DEF Parsed
<1>2. Parsed.command <=> mCmdBuffer[2] = "+"
  BY DEF Parsed
<1>3. Commanded => mCmdBuffer[0] = "X" /\ mCmdBuffer[1] = "L" /\ mCmdBuffer[2] = "+"
  BY <1>1, <1>2 DEF Commanded
<1>4. Parsed.end = Stop(3, CmdEnds)
  BY DEF Parsed
<1>5. Parsed.ended <=> Stop(Parsed.end + 1, ArgEnds) < CmdBufferSize
  BY DEF Parsed
<1>6. Parsed.name = IF Parsed.end = 4 THEN mCmdBuffer[3] ELSE ""
  BY DEF Parsed
<1>7. Parsed.mark = IF Parsed.end < CmdBufferSize THEN mCmdBuffer[Parsed.end] ELSE ""
  BY DEF Parsed
<1>8. Parsed.args = ArgTokens(SubSeq([i \in 1..CmdBufferSize |-> mCmdBuffer[i - 1]],
                            Parsed.end + 2, Stop(Parsed.end + 1, ArgEnds)))
  BY DEF Parsed
<1> QED BY <1>3, <1>4, <1>5, <1>6, <1>7, <1>8

(* A command that fits is in the buffer, with a line feed and a zero.        *)
Lined(n) ==
    /\ n = Len(TypedLine) /\ n \in Nat /\ n >= 4 /\ n < CmdBufferSize
    /\ \A i \in 0..n-1 : mCmdBuffer[i] = TypedLine[i + 1]
    /\ mCmdBuffer[n - 1] = "\n" /\ mCmdBuffer[n] = "NUL"

(* So it is when a command that fits is parsed.                              *)
LEMMA CommandFits ==
    ASSUME TerminalInv, LineInv, mode = "parse", Fits, Commanded
    PROVE  Lined(Len(TypedLine))
<1>1. PICK n \in Nat : n = Len(TypedLine)
  BY TypedIs
<1>2. /\ n \in Nat /\ n >= 1 /\ n < CmdBufferSize
      /\ \A i \in 1..n : TypedLine[i] = "\n" <=> i = n
  BY <1>1, TypedIs DEF Fits
<1>3. (\A i \in 0..n-1 : mCmdBuffer[i] = TypedLine[i + 1]) /\ mCmdBuffer[n] = "NUL"
  BY <1>1 DEF LineInv, Holds
<1>4. mCmdBuffer[n - 1] = "\n"
  <2>1. n - 1 \in 0..n-1 /\ (n - 1) + 1 = n /\ n \in 1..n
    BY <1>2
  <2> QED BY <1>2, <1>3, <2>1
<1>5. mCmdBuffer[0] # "\n" /\ mCmdBuffer[1] # "\n" /\ mCmdBuffer[2] # "\n"
  BY ParsedIs
<1>6. n - 1 # 0 /\ n - 1 # 1 /\ n - 1 # 2
  BY <1>4, <1>5
<1>7. n >= 4
  BY <1>2, <1>6
<1> QED BY <1>1, <1>2, <1>3, <1>4, <1>7 DEF Lined

(* The name of PING is the fourth token.                                     *)
LEMMA PingIsTyped ==
    ASSUME TerminalInv, LineInv, mode = "parse", Fits, Commanded, Parsed.name = "PING"
    PROVE  TypedLine[4] = "PING"
<1>1. PICK n : Lined(n)
  BY CommandFits
<1>2. Parsed.end = 4
  BY ParsedIs
<1>3. mCmdBuffer[3] = "PING"
  BY <1>2, ParsedIs
<1>4. 3 \in 0..n-1 /\ 3 + 1 = 4
  BY <1>1 DEF Lined
<1>5. mCmdBuffer[3] = TypedLine[4]
  BY <1>1, <1>4 DEF Lined
<1> QED BY <1>3, <1>5

(* Where the arguments of a line that fits begin and end.                    *)
LEMMA ArgsLie ==
    ASSUME TerminalInv, NEW n, Lined(n), Parsed.mark = "=", Parsed.end < CmdBufferSize
    PROVE  /\ Parsed.end \in Nat /\ Parsed.end + 2 <= n
           /\ Stop(Parsed.end + 1, ArgEnds) \in Nat
           /\ Stop(Parsed.end + 1, ArgEnds) <= n - 1
<1>1. n \in Nat /\ n >= 4 /\ n < CmdBufferSize
  BY DEF Lined
<1>2. Parsed.end = Stop(3, CmdEnds) /\ mCmdBuffer[Parsed.end] = "="
  BY ParsedIs
<1>3. 3 \in Nat /\ n \in 3..CmdBufferSize-1 /\ "NUL" \in CmdEnds
  BY <1>1, SizeIs DEF CmdEnds
<1>4. mCmdBuffer[n - 1] = "\n" /\ mCmdBuffer[n] = "NUL"
  BY DEF Lined
<1>5. Stop(3, CmdEnds) \in Nat /\ Stop(3, CmdEnds) <= n
  BY <1>3, <1>4, StopIs, StopAt
<1>6. Parsed.end # n /\ Parsed.end # n - 1
  BY <1>2, <1>4
<1>7. Parsed.end \in Nat /\ Parsed.end + 2 <= n
  BY <1>1, <1>2, <1>5, <1>6
<1> DEFINE q == Parsed.end + 1
<1>8. q \in Nat /\ n - 1 \in q..CmdBufferSize-1 /\ "\n" \in ArgEnds
  BY <1>1, <1>7, SizeIs DEF ArgEnds
<1> HIDE DEF q
<1>9. Stop(q, ArgEnds) \in Nat /\ Stop(q, ArgEnds) <= n - 1
  BY <1>4, <1>8, StopIs, StopAt
<1> QED BY <1>7, <1>9 DEF q

(* They are tokens of the line, so they fit if those do.                     *)
LEMMA ArgsOfLineFit ==
    ASSUME TerminalInv, NEW n, Lined(n), Parsed.mark = "=", Parsed.end < CmdBufferSize,
           TypedLine \in Seq(STRING), ~(Cardinality(CommasOf(TypedLine)) >= SelectSizeMax),
           ToSet(TypedLine) \cap Wide = {}
    PROVE  ArgsFit(Parsed.args)
<1> DEFINE end == Parsed.end
           stop == Stop(Parsed.end + 1, ArgEnds)
           cells == [i \in 1..CmdBufferSize |-> mCmdBuffer[i - 1]]
           text == SubSeq(cells, end + 2, stop)
<1>1. /\ end \in Nat /\ end + 2 <= n /\ stop \in Nat /\ stop <= n - 1
  BY ArgsLie
<1>2. /\ n \in Nat /\ n < CmdBufferSize /\ n = Len(TypedLine)
      /\ \A i \in 0..n-1 : mCmdBuffer[i] = TypedLine[i + 1]
  BY DEF Lined
<1>3. Parsed.args = ArgTokens(text)
  BY ParsedIs
<1> HIDE DEF end, stop
<1>4. \A i \in 1..n : cells[i] = TypedLine[i] /\ cells[i] \in Cell
  <2> TAKE i \in 1..n
  <2>1. i \in 1..CmdBufferSize /\ i - 1 \in 0..CmdBufferSize-1 /\ i - 1 \in 0..n-1
        /\ (i - 1) + 1 = i
    BY <1>2, SizeIs
  <2>2. cells[i] = mCmdBuffer[i - 1]
    BY <2>1
  <2> HIDE DEF cells
  <2>3. cells[i] = TypedLine[i]
    BY <1>2, <2>1, <2>2
  <2>4. mCmdBuffer[i - 1] \in Cell
    BY <2>1 DEF TerminalInv
  <2> QED BY <2>2, <2>3, <2>4
<1> HIDE DEF cells
<1>5. /\ end + 2 \in Int /\ stop \in Int
      /\ \A i \in end + 2..stop : i \in 1..n
  BY <1>1, <1>2
<1>6. /\ text \in Seq(Cell) /\ Len(text) = (IF end + 2 <= stop THEN stop - (end + 2) + 1 ELSE 0)
      /\ \A k \in 1..stop - (end + 2) + 1 : text[k] = cells[end + 2 + k - 1]
  BY <1>4, <1>5, SubSeqProperties
<1> HIDE DEF text
<1>7. \A k \in 1..Len(text) : k + (end + 1) \in 1..n /\ text[k] = TypedLine[k + (end + 1)]
  <2> TAKE k \in 1..Len(text)
  <2>1. /\ k \in 1..stop - (end + 2) + 1 /\ end + 2 + k - 1 = k + (end + 1)
        /\ k + (end + 1) \in 1..n
    BY <1>1, <1>2, <1>6
  <2>2. text[k] = cells[k + (end + 1)]
    BY <1>6, <2>1
  <2> QED BY <1>4, <2>1, <2>2
<1>8. Cardinality(CommasOf(text)) <= Cardinality(CommasOf(TypedLine))
  <2>1. CommasOf(text) \in SUBSET Int
    <3>1. CommasOf(text) \subseteq 1..Len(text)
      BY DEF CommasOf
    <3> QED BY <3>1
  <2>2. \A k \in CommasOf(text) : k + (end + 1) \in CommasOf(TypedLine)
    BY <1>2, <1>7 DEF CommasOf
  <2>3. IsFiniteSet(CommasOf(TypedLine)) /\ end + 1 \in Int
    BY <1>1, CommasAre
  <2> QED BY <2>1, <2>2, <2>3, Shifted
<1>9. /\ Len(Parsed.args) <= Cardinality(CommasOf(text)) + 1
      /\ \A t \in ToSet(Parsed.args) : t = "" \/ \E j \in 1..Len(text) : t = text[j]
  BY <1>3, <1>6, ArgsAreFew
<1>10. Len(Parsed.args) <= SelectSizeMax
  <2>1. Cardinality(CommasOf(text)) \in Nat /\ Cardinality(CommasOf(TypedLine)) \in Nat
        /\ SelectSizeMax \in Nat /\ Len(Parsed.args) \in Nat
    BY <1>6, CommasAre, ParsedArgs, SizesAssumption
  <2>2. Len(Parsed.args) <= Cardinality(CommasOf(text)) + 1
    BY <1>9
  <2>3. Cardinality(CommasOf(TypedLine)) < SelectSizeMax
    BY <2>1
  <2> QED BY <1>8, <2>1, <2>2, <2>3
<1>11. ToSet(Parsed.args) \cap Wide = {}
  <2> SUFFICES ASSUME NEW t \in ToSet(Parsed.args), t \in Wide PROVE FALSE
    OBVIOUS
  <2>1. t # ""
    BY BufferAssumption
  <2>2. PICK j \in 1..Len(text) : t = text[j]
    BY <1>9, <2>1
  <2>3. j + (end + 1) \in 1..Len(TypedLine) /\ t = TypedLine[j + (end + 1)]
    BY <1>2, <1>7, <2>2
  <2>4. t \in ToSet(TypedLine)
    BY <2>3 DEF ToSet
  <2> QED BY <2>4
<1> QED BY <1>10, <1>11 DEF ArgsFit

(* The parser leaves the buffer or an array only for a cause.                *)
LEMMA PastHasCause ==
    ASSUME TerminalInv, LineInv, mode = "parse", ParsePast(Parsed)
    PROVE  Cause
<1> SUFFICES ASSUME Fits, ~(Cardinality(CommasOf(TypedLine)) >= SelectSizeMax),
                    ToSet(TypedLine) \cap Wide = {}
             PROVE  FALSE
  BY DEF Cause
<1>1. Commanded
  BY DEF ParsePast, Commanded
<1>2. PICK n : Lined(n)
  BY <1>1, CommandFits
<1>3. Parsed.end < CmdBufferSize
  <2>1. n \in Nat /\ n >= 4 /\ n < CmdBufferSize
    BY <1>2 DEF Lined
  <2>2. 3 \in Nat /\ n \in 3..CmdBufferSize-1 /\ "NUL" \in CmdEnds
    BY <2>1, SizeIs DEF CmdEnds
  <2>3. mCmdBuffer[n] = "NUL"
    BY <1>2 DEF Lined
  <2>4. Stop(3, CmdEnds) \in Nat /\ Stop(3, CmdEnds) <= n
    BY <2>2, <2>3, StopIs, StopAt
  <2>5. Parsed.end = Stop(3, CmdEnds)
    BY ParsedIs
  <2> QED BY <2>1, <2>4, <2>5, SizeIs
<1>4. Parsed.mark = "=" /\ (~Parsed.ended \/ ~ArgsFit(Parsed.args))
  BY <1>3, SizeIs DEF ParsePast
<1>5. ArgsFit(Parsed.args)
  BY <1>2, <1>3, <1>4, ArgsOfLineFit, TypedIs
<1>6. Parsed.ended
  <2>1. n \in Nat /\ n < CmdBufferSize
    BY <1>2 DEF Lined
  <2>2. Stop(Parsed.end + 1, ArgEnds) \in Nat /\ Stop(Parsed.end + 1, ArgEnds) <= n - 1
    BY <1>2, <1>3, <1>4, ArgsLie
  <2>3. Stop(Parsed.end + 1, ArgEnds) < CmdBufferSize
    BY <2>1, <2>2, SizeIs
  <2> QED BY <2>3, ParsedIs
<1> QED BY <1>4, <1>5, <1>6

(* A call of the controller that is a ping comes from a line that asks it.   *)
LEMMA CallOpIs ==
    ASSUME NEW op, NEW reg, Call(op, reg)
    PROVE  call'.op = op
BY DEF Call, Send

(* What is typed and what is known of the call stays a cause.                *)
LEMMA CauseStays ==
    ASSUME Cause, UNCHANGED <<typed, log, fresh, noisy, mRxPtr, mRxBufferSize>>
    PROVE  Cause'
BY DEF Cause, Fits, TypedLine, Overrun

(* What parsing a line leaves.                                               *)
LEMMA ParseLineLine == ASSUME TerminalInv, LineInv, ParseLine PROVE LineInv'
<1>1. mode = "parse" /\ stream = <<>>
  BY DEF ParseLine, TerminalInv
<1>2. PICK cmd \in {Parsed} : AtOnce(cmd) \/ Calls(cmd) \/ ParsePast(cmd)
  BY DEF ParseLine, AtOnce, Calls
<1>3. CASE AtOnce(cmd)
  <2>1. mode' = "loop" /\ mCmdPtr' = 0 /\ stream' = <<>>
    BY <1>1, <1>3, AtOnceReplies
  <2> QED BY <2>1 DEF LineInv
<1>4. CASE Calls(cmd)
  <2>1. mode' = "wait" /\ mCmdPtr' = 0 /\ UNCHANGED <<typed, log>>
    BY <1>4, CallsController
  <2>2. TypedLine' = TypedLine /\ (Fits' <=> Fits)
    BY <2>1 DEF TypedLine, Fits
  <2>3. ASSUME call'.op = "ping" PROVE GetPing(cmd)
    <3>1. ASSUME NEW reg, Call("pull", reg) \/ Call("push", reg) PROVE FALSE
      BY <2>3, <3>1, CallOpIs
    <3> QED BY <1>4, <3>1 DEF Calls, GetReg, SetReg, CallController
  <2>4. ASSUME call'.op = "ping", Fits PROVE TypedLine[4] = "PING"
    <3>1. Parsed.name = "PING" /\ Commanded
      BY <1>2, <2>3, <2>4 DEF GetPing, Getter, HasCommand, Commanded
    <3> QED BY <1>1, <2>4, <3>1, PingIsTyped
  <2> QED BY <2>1, <2>2, <2>4 DEF LineInv
<1>5. CASE ParsePast(cmd)
  <2>1. Cause
    BY <1>1, <1>2, <1>5, PastHasCause
  <2>2. /\ mode' = "lost"
        /\ UNCHANGED <<typed, log, fresh, noisy, mRxPtr, mRxBufferSize>>
    BY <1>5 DEF ParsePast, vars, history, rxVars
  <2> QED BY <2>1, <2>2, CauseStays DEF LineInv
<1> QED BY <1>2, <1>3, <1>4, <1>5

(* And the return of the controller: more answers than servoIds has room for *)
(* come to a ping only if the line is to blame.                              *)
LEMMA ReturnLine ==
    ASSUME RxInv, QuietInv, TerminalInv, LineInv, ReplyToCall \/ PingPast
    PROVE  LineInv'
<1>1. mode = "wait" /\ stream = <<>> /\ mCmdPtr = 0
  BY DEF ReplyToCall, PingPast, ControllerReturned, TerminalInv, LineInv
<1>2. CASE ReplyToCall
  BY <1>1, <1>2 DEF ReplyToCall, LineInv, bufferVars
<1>3. CASE PingPast
  <2>1. call.op = "ping" /\ Len(ids) > SelectSizeMax
    BY <1>3 DEF PingPast
  <2>2. Len(ids) \in Nat /\ Len(Chain) \in Nat /\ SelectSizeMax \in Nat
    BY LenProperties, LineAssumption, SizesAssumption DEF RxInv, TypeOK
  <2>3. ASSUME fresh, ~noisy, ~Overrun PROVE Len(Chain) > SelectSizeMax
    <3>1. Len(ids) <= Len(Chain)
      BY <2>3 DEF QuietInv
    <3> QED BY <2>1, <2>2, <3>1
  <2>4. Cause
    BY <1>1, <2>1, <2>3 DEF Cause, LineInv
  <2>5. /\ mode' = "lost"
        /\ UNCHANGED <<typed, log, fresh, noisy, mRxPtr, mRxBufferSize>>
    BY <1>3 DEF PingPast, vars, history, rxVars
  <2> QED BY <2>4, <2>5, CauseStays DEF LineInv
<1> QED BY <1>2, <1>3

(* A step of the controller alone.                                           *)
LEMMA ControllerLine ==
    ASSUME LineInv, mode # "lost", UNCHANGED machineVars, call'.op = call.op
    PROVE  LineInv'
BY DEF LineInv, machineVars, bufferVars, TypedLine, Fits, Holds, Cause

(* The controller does not forget what it was asked.                         *)
LEMMA OpStays == ASSUME Arrive \/ Step PROVE call' = call
BY DEF Arrive, Step, ReceiveRound, ReceiveEnds, Parse, SkipBytes, TakePacket, Return,
       ParseElsewhere

(* Every step of the terminal.                                               *)
LEMMA NextLine ==
    ASSUME MachineInv, QuietInv, LineInv, [MachineNext]_allVars
    PROVE  LineInv'
<1>1. RxInv /\ TerminalInv
  BY DEF MachineInv
<1>2. CASE UNCHANGED allVars
  <2>1. UNCHANGED <<typed, log, fresh, noisy, mRxPtr, mRxBufferSize, mode, stream,
                    mCmdPtr, mCmdBuffer, call>>
    BY <1>2 DEF allVars, machineVars, bufferVars, vars, history, rxVars
  <2> QED BY <2>1, CauseStays DEF LineInv, TypedLine, Fits, Holds
<1>3. CASE Setup
  <2>1. mode # "lost"
    <3>1. Len(typed) = 0 /\ Len(log) \in Nat
      BY <1>1, <1>3, EmptySeq, LenProperties DEF Setup, TerminalInv
    <3> SUFFICES ASSUME mode = "lost" PROVE FALSE
      OBVIOUS
    <3>2. Len(typed) = Len(log) + 1
      BY <1>1 DEF TerminalInv
    <3> QED BY <3>1, <3>2
  <2>2. call' = call /\ UNCHANGED machineVars
    BY <1>3 DEF Setup, setXlBaudRate
  <2> QED BY <2>1, <2>2, ControllerLine
<1>4. CASE mode # "lost" /\ (Arrive \/ Step) /\ UNCHANGED machineVars
  BY <1>4, OpStays, ControllerLine
<1>5. CASE Loop
  BY <1>1, <1>5, ReadCharLine, ParseLineLine, ReturnLine DEF Loop
<1>6. ASSUME NEW text \in Lines, Type(text) PROVE LineInv'
  BY <1>1, <1>6, TypeLine
<1> QED BY <1>2, <1>3, <1>4, <1>5, <1>6 DEF MachineNext, Rest, Lost

(* A quiet line stays one for the terminal that calls the controller.        *)
LEMMA MachineQuiet ==
    ASSUME MachineInv, QuietInv, [MachineNext]_allVars
    PROVE  QuietInv'
<1>0. RxInv /\ TerminalInv
  BY DEF MachineInv
<1>1. CASE UNCHANGED vars
  BY <1>1, StillQuiet
<1>2. ASSUME NEW br, setXlBaudRate(br) PROVE QuietInv'
  BY <1>2, IdleQuiet DEF setXlBaudRate, resultVars, history
<1>3. ASSUME NEW chosen, selectServo(chosen) PROVE QuietInv'
  BY <1>3, IdleQuiet DEF selectServo, resultVars, history
<1>4. ASSUME NEW op, NEW reg, op = "pull" => reg \in Regs, Call(op, reg)
      PROVE  QuietInv'
  BY <1>0, <1>4, CallQuiet
<1>5. CASE ParseLine
  <2>1. PICK cmd \in {Parsed} : AtOnce(cmd) \/ Calls(cmd) \/ ParsePast(cmd)
    BY <1>5 DEF ParseLine, AtOnce, Calls
  <2>2. CASE Calls(cmd)
    <3>1. PICK op, reg : (op = "pull" => reg \in Regs) /\ Call(op, reg)
      BY <2>2, CallsController
    <3> QED BY <1>4, <3>1
  <2>3. UNCHANGED vars \/ SetXBaud(cmd) \/ SetSelect(cmd) \/ Calls(cmd)
    BY <2>1 DEF AtOnce, NoCommand, Refuse, GetXBaud, SetPing, GetSelect, ParsePast
  <2> QED BY <1>1, <1>2, <1>3, <2>2, <2>3 DEF SetXBaud, SetSelect
<1>6. CASE Arrive \/ Step
  BY <1>0, <1>6, ArriveQuiet, StepQuiet
<1>7. UNCHANGED vars \/ Setup \/ ParseLine \/ Arrive \/ Step
  BY DEF MachineNext, Loop, Type, ReadChar, ReplyToCall, PingPast, Rest, Lost, allVars
<1> QED BY <1>1, <1>2, <1>5, <1>6, <1>7 DEF Setup

(* No array of the terminal is overrun but for a reason that can be named: a *)
(* line too long for mCmdBuffer, arguments too many or too wide, or a ping   *)
(* on a chain of more servos than servoIds has room for, or on a line that   *)
(* is not quiet (Machine.cpp:73-98, 132-135, 195-204, 308-331, and           *)
(* XLCMD.h:127-137).                                                         *)
THEOREM NoOverrunWithoutCause == MachineSpec => []OverrunsHaveACause
<1>1. MachineInit => QuietInv /\ LineInv
  BY InitQuiet, InitLine DEF MachineInit
<1>2. MachineInv /\ (QuietInv /\ LineInv) /\ [MachineNext]_allVars => (QuietInv /\ LineInv)'
  BY MachineQuiet, NextLine
<1>3. MachineInv /\ LineInv => OverrunsHaveACause
  <2> SUFFICES ASSUME MachineInv, LineInv, mode = "lost" PROVE OverrunsHaveACause
    BY DEF OverrunsHaveACause
  <2>1. Cause /\ TerminalInv /\ mode # "loop"
    BY DEF LineInv, MachineInv
  <2> QED BY <2>1, CauseIs
<1> QED BY <1>1, <1>2, <1>3, MachineAlways, PTL DEF MachineSpec

-----------------------------------------------------------------------------
(* What the controller has returned and the terminal has not yet shown.      *)
Shows ==
    /\ call.op = "ping" => ToSet(ids) \subseteq ToSet(answered) /\ IsInjective(ids)
    /\ call.op = "pull" => \A i \in 1..mSelectSize :
            returnVector[i] \in {NoAnswer, ValueOf(mSelectIds[i])}

ReturnInv == mode = "wait" /\ pc = "idle" /\ fresh /\ ~noisy /\ ~Overrun => Shows

(* Where nothing of it changes it stays.                                     *)
LEMMA ShowsStays ==
    ASSUME Shows, UNCHANGED <<call, ids, answered, returnVector, selectVars>>
    PROVE  Shows'
BY DEF Shows, ValueOf, selectVars

(* A call ends by its return, unless it is behind the received bytes.        *)
LEMMA StepReturns ==
    ASSUME RxInv, QuietInv, Step, pc' = "idle", call.op \in {"ping", "pull"},
           fresh, ~noisy, ~Overrun
    PROVE  Shows'
<1>1. pc = "parse" /\ ~ParseElsewhere
  BY ElsewhereIsOverrun DEF Step, ReceiveRound, ReceiveEnds, Parse, SkipBytes, TakePacket,
                            Return, ParseElsewhere, RxInv
<1>2. PICK beyond \in Beyond : Return(beyond)
  BY <1>1 DEF Step, ReceiveRound, ReceiveEnds, Parse, SkipBytes, TakePacket
<1>3. Returns
  BY <1>1, <1>2 DEF Returns
<1>4. (call.op = "ping" => PingTold) /\ (call.op = "pull" => PullTold)
  BY <1>3, ReturnTells DEF Next
<1>5. Shows
  BY <1>4 DEF Shows, PingTold, PullTold
<1>6. UNCHANGED <<call, ids, answered, returnVector, selectVars>>
  BY <1>2 DEF Return, resultVars, history
<1> QED BY <1>5, <1>6, ShowsStays

(* Step by step.                                                             *)
LEMMA NextReturn ==
    ASSUME MachineInv, QuietInv, ReturnInv, [MachineNext]_allVars
    PROVE  ReturnInv'
<1>0. RxInv /\ TerminalInv
  BY DEF MachineInv
<1> SUFFICES ASSUME mode' = "wait", pc' = "idle", fresh', ~noisy', ~Overrun'
             PROVE  Shows'
  BY DEF ReturnInv
<1>1. CASE UNCHANGED allVars
  BY <1>1, ShowsStays DEF allVars, machineVars, vars, history, resultVars, rxVars, Overrun,
                          ReturnInv
<1>2. CASE Setup
  <2>1. mode = "wait" /\ typed = <<>>
    BY <1>2 DEF Setup, machineVars
  <2>2. Len(typed) = Len(log) + 1 /\ Len(log) \in Nat
    BY <1>0, <2>1, LenProperties DEF TerminalInv
  <2> QED BY <2>1, <2>2, EmptySeq
<1>3. CASE (Arrive \/ Step) /\ UNCHANGED machineVars
  <2>1. mode = "wait" /\ call' = call
    BY <1>3, OpStays DEF machineVars
  <2>2. CASE Arrive
    BY <2>1, <2>2, ShowsStays DEF Arrive, resultVars, history, rxVars, Overrun, ReturnInv
  <2>3. CASE Step
    <3>2. CASE call.op \in {"ping", "pull"}
      <4>1. \/ \E beyond \in Beyond : Return(beyond)
            \/ ParseElsewhere
        BY <2>3, <3>2 DEF Step, ReceiveRound, ReceiveEnds, Parse, SkipBytes, TakePacket
      <4>2. UNCHANGED <<fresh, noisy, mRxPtr, mRxBufferSize>>
        BY <4>1 DEF Return, ParseElsewhere, rxVars, history
      <4>3. fresh /\ ~noisy /\ ~Overrun
        BY <4>2 DEF Overrun
      <4> QED BY <1>0, <2>3, <3>2, <4>3, StepReturns
    <3>3. CASE call.op \notin {"ping", "pull"}
      BY <2>1, <3>3 DEF Shows
    <3> QED BY <3>2, <3>3
  <2> QED BY <1>3, <2>2, <2>3
<1>4. CASE ParseLine
  <2>1. PICK cmd \in {Parsed} : AtOnce(cmd) \/ Calls(cmd) \/ ParsePast(cmd)
    BY <1>4 DEF ParseLine, AtOnce, Calls
  <2>2. CASE AtOnce(cmd)
    BY <2>2, AtOnceReplies
  <2>3. CASE Calls(cmd)
    BY <2>3, CallsController DEF Call, Send
  <2>4. CASE ParsePast(cmd)
    BY <2>4 DEF ParsePast
  <2> QED BY <2>1, <2>2, <2>3, <2>4
<1>5. CASE ReadChar \/ ReplyToCall \/ PingPast
  BY <1>5 DEF ReadChar, ReplyToCall, PingPast
<1>6. ASSUME NEW text, Type(text) PROVE FALSE
  BY <1>6 DEF Type
<1> QED BY <1>1, <1>2, <1>3, <1>4, <1>5, <1>6 DEF MachineNext, Loop, Rest, Lost

(* What the terminal replies with, through the end of the call.              *)
RepliesTruly ==
    ReplyToCall /\ fresh /\ ~noisy /\ ~Overrun =>
        LET values == log'[Len(log')].reply.values IN
        /\ call.op = "ping" => ToSet(values) \subseteq ToSet(answered) /\ IsInjective(values)
        /\ call.op = "pull" => \A i \in 1..mSelectSize :
                values[i] \in {NoAnswer, ValueOf(mSelectIds[i])}

(* The reply of the terminal to PING shows servos that answered it, each     *)
(* once, and to a register each servo's own value of that register or that   *)
(* it is silent, whatever was typed before, if the call began on a quiet     *)
(* line (Machine.cpp:194-207, 221-240).                                      *)
THEOREM TerminalTellsTruth == MachineSpec => [][RepliesTruly]_allVars
<1>1. MachineInit => QuietInv /\ ReturnInv
  BY InitQuiet DEF MachineInit, ReturnInv
<1>2. MachineInv /\ (QuietInv /\ ReturnInv) /\ [MachineNext]_allVars
        => (QuietInv /\ ReturnInv)'
  BY MachineQuiet, NextReturn
<1>3. MachineInv /\ ReturnInv => RepliesTruly
  <2> SUFFICES ASSUME MachineInv, ReturnInv, ReplyToCall, fresh, ~noisy, ~Overrun
               PROVE  RepliesTruly
    BY DEF RepliesTruly
  <2>1. Shows
    BY DEF ReplyToCall, ControllerReturned, ReturnInv
  <2> DEFINE shown == CASE call.op = "ping" -> ids
                        [] call.op = "pull" -> returnVector
                        [] call.op = "push" -> argv
             entry == [line |-> typed[Len(log) + 1],
                       reply |-> [said |-> "values", values |-> shown]]
  <2>2. log' = Append(log, entry)
    BY DEF ReplyToCall, Reply
  <2>3. log'[Len(log')] = entry
    <3> HIDE DEF entry
    <3>1. PICK S : log \in Seq(S)
      BY DEF MachineInv, TerminalInv
    <3>2. log \in Seq(S \cup {entry}) /\ entry \in S \cup {entry}
      BY <3>1
    <3> QED BY <2>2, <3>2, AppendProperties
  <2>4. (call.op = "ping" => shown = ids) /\ (call.op = "pull" => shown = returnVector)
    OBVIOUS
  <2> HIDE DEF shown
  <2>5. log'[Len(log')].reply.values = shown
    BY <2>3
  <2> QED BY <2>1, <2>4, <2>5 DEF Shows, RepliesTruly
<1> QED BY <1>1, <1>2, <1>3, MachineAlways, PTL DEF MachineSpec
-----------------------------------------------------------------------------
(* The two tokens that the parser of the arguments tells apart.              *)
IsComma(x) == x = ","
IsBlank(x) == x = ""

(* Where the commas of s are, one for each of n arguments, and each argument *)
(* behind its comma unless it is empty.                                      *)
Marks(s, n, p, a) ==
    /\ n \in Nat /\ s \in Seq(Cell)
    /\ \A k \in 1..n : p[k] \in 1..Len(s) /\ IsComma(s[p[k]])
    /\ \A j, k \in 1..n : j < k => p[j] < p[k]
    /\ \A i \in 1..Len(s) : IsComma(s[i]) => \E k \in 1..n : p[k] = i
    /\ \A k \in 1..n : IsBlank(a[k]) => p[k] = Len(s) \/ IsComma(s[p[k] + 1])
    /\ \A k \in 1..n : ~IsBlank(a[k]) =>
            p[k] < Len(s) /\ s[p[k] + 1] = a[k] /\ ~IsComma(a[k])

(* A comma with the argument behind it.                                      *)
Behind(token) == IF token = "" THEN <<",">> ELSE <<",", token>>

(* What follows when an argument is added.                                   *)
LEMMA MarkNext ==
    ASSUME NEW n, NEW s, NEW p, NEW a, Marks(s, n, p, a),
           a[n + 1] \in Cell, ~IsComma(a[n + 1])
    PROVE  \E q : Marks(s \o Behind(a[n + 1]), n + 1, q, a)
<1> DEFINE e == a[n + 1]
           b == Behind(e)
           t == s \o b
           q == [k \in 1..n + 1 |-> IF k = n + 1 THEN Len(s) + 1 ELSE p[k]]
<1>1. n \in Nat /\ s \in Seq(Cell) /\ Len(s) \in Nat
  BY LenProperties DEF Marks
<1>2. /\ b \in Seq(Cell) /\ IsComma(b[1]) /\ Len(b) = (IF IsBlank(e) THEN 1 ELSE 2)
      /\ ~IsBlank(e) => b[2] = e
  <2> HIDE DEF e
  <2>1. PICK c \in Cell : c = ","
    BY DEF Cell
  <2>2. IsComma(c)
    BY <2>1 DEF IsComma
  <2>3. b = IF IsBlank(e) THEN <<c>> ELSE <<c, e>>
    BY <2>1 DEF Behind, IsBlank
  <2> HIDE DEF b
  <2>4. e \in Cell
    BY DEF e
  <2>5. CASE IsBlank(e)
    <3>1. <<c>> \in Seq(Cell) /\ Len(<<c>>) = 1 /\ <<c>>[1] = c
      OBVIOUS
    <3> QED BY <2>2, <2>3, <2>5, <3>1
  <2>6. CASE ~IsBlank(e)
    <3>1. /\ <<c, e>> \in Seq(Cell) /\ Len(<<c, e>>) = 2
          /\ <<c, e>>[1] = c /\ <<c, e>>[2] = e
      BY <2>4
    <3> QED BY <2>2, <2>3, <2>6, <3>1
  <2> QED BY <2>5, <2>6
<1> HIDE DEF b
<1>3. /\ t \in Seq(Cell) /\ Len(t) = Len(s) + Len(b)
      /\ \A i \in 1..Len(s) : t[i] = s[i]
      /\ IsComma(t[Len(s) + 1]) /\ (~IsBlank(e) => t[Len(s) + 2] = e)
  <2>1. /\ t \in Seq(Cell) /\ Len(t) = Len(s) + Len(b)
        /\ \A i \in 1..Len(s) + Len(b) :
              t[i] = IF i <= Len(s) THEN s[i] ELSE b[i - Len(s)]
    BY <1>1, <1>2, ConcatProperties
  <2>2. \A i \in 1..Len(s) : i \in 1..Len(s) + Len(b) /\ i <= Len(s)
    BY <1>1, <1>2
  <2>3. /\ Len(s) + 1 \in 1..Len(s) + Len(b) /\ ~(Len(s) + 1 <= Len(s))
        /\ Len(s) + 1 - Len(s) = 1
    BY <1>1, <1>2
  <2>4. ~IsBlank(e) => /\ Len(s) + 2 \in 1..Len(s) + Len(b) /\ ~(Len(s) + 2 <= Len(s))
                  /\ Len(s) + 2 - Len(s) = 2
    BY <1>1, <1>2
  <2> HIDE DEF t, e
  <2>5. t[Len(s) + 1] = b[1]
    BY <2>1, <2>3
  <2>6. ~IsBlank(e) => t[Len(s) + 2] = b[2]
    BY <2>1, <2>4
  <2> QED BY <1>2, <2>1, <2>2, <2>5, <2>6
<1> HIDE DEF t
<1>4. /\ \A k \in 1..n + 1 : k \in 1..n \/ k = n + 1
      /\ \A k \in 1..n : k \in 1..n + 1 /\ k # n + 1 /\ k < n + 1
      /\ n + 1 \in 1..n + 1 /\ n + 1 \in Nat
  BY <1>1
<1>5. q[n + 1] = Len(s) + 1 /\ \A k \in 1..n : q[k] = p[k]
  BY <1>4
<1> HIDE DEF q
<1>6. \A k \in 1..n : /\ p[k] \in 1..Len(s) /\ IsComma(s[p[k]])
                      /\ p[k] \in Nat /\ p[k] <= Len(s)
  BY <1>1 DEF Marks
<1>7. \A k \in 1..n + 1 : q[k] \in 1..Len(t) /\ IsComma(t[q[k]])
  <2>1. ASSUME NEW k \in 1..n PROVE q[k] \in 1..Len(t) /\ IsComma(t[q[k]])
    <3>1. p[k] \in 1..Len(s) + Len(b)
      BY <1>1, <1>2, <1>6
    <3> QED BY <1>3, <1>5, <1>6, <3>1
  <2>2. Len(s) + 1 \in 1..Len(s) + Len(b)
    BY <1>1, <1>2
  <2> QED BY <1>3, <1>4, <1>5, <2>1, <2>2
<1>8. \A j, k \in 1..n + 1 : j < k => q[j] < q[k]
  <2> SUFFICES ASSUME NEW j \in 1..n + 1, NEW k \in 1..n + 1, j < k PROVE q[j] < q[k]
    OBVIOUS
  <2>1. j \in 1..n
    BY <1>1, <1>4
  <2>2. CASE k = n + 1
    BY <1>1, <1>5, <1>6, <2>1, <2>2
  <2>3. CASE k \in 1..n
    BY <1>5, <2>1, <2>3 DEF Marks
  <2> QED BY <1>4, <2>2, <2>3
<1>9. ASSUME NEW i \in 1..Len(t), IsComma(t[i]) PROVE \E k \in 1..n + 1 : q[k] = i
  <2>1. i \in 1..Len(s) \/ i = Len(s) + 1 \/ (~IsBlank(e) /\ i = Len(s) + 2)
    BY <1>1, <1>2, <1>3
  <2>2. CASE i \in 1..Len(s)
    <3>1. IsComma(s[i])
      BY <1>3, <1>9, <2>2
    <3>2. PICK k \in 1..n : p[k] = i
      BY <2>2, <3>1 DEF Marks
    <3> QED BY <1>4, <1>5, <3>2
  <2>3. CASE i = Len(s) + 1
    BY <1>4, <1>5, <2>3
  <2>4. CASE ~IsBlank(e) /\ i = Len(s) + 2
    BY <1>3, <1>9, <2>4
  <2> QED BY <2>1, <2>2, <2>3, <2>4
<1>10. \A k \in 1..n + 1 : IsBlank(a[k]) => q[k] = Len(t) \/ IsComma(t[q[k] + 1])
  <2>1. ASSUME NEW k \in 1..n, IsBlank(a[k]) PROVE IsComma(t[q[k] + 1])
    <3>1. p[k] = Len(s) \/ IsComma(s[p[k] + 1])
      BY <2>1 DEF Marks
    <3>2. CASE p[k] = Len(s)
      BY <1>3, <1>5, <3>2
    <3>3. CASE p[k] # Len(s)
      <4>1. p[k] + 1 \in 1..Len(s)
        BY <1>1, <1>6, <3>3
      <4> QED BY <1>3, <1>5, <3>1, <3>3, <4>1
    <3> QED BY <3>2, <3>3
  <2>2. IsBlank(e) => q[n + 1] = Len(t)
    BY <1>2, <1>3, <1>5
  <2> QED BY <1>4, <2>1, <2>2
<1>11. \A k \in 1..n + 1 : ~IsBlank(a[k]) =>
            q[k] < Len(t) /\ t[q[k] + 1] = a[k] /\ ~IsComma(a[k])
  <2>1. ASSUME NEW k \in 1..n, ~IsBlank(a[k])
        PROVE  q[k] < Len(t) /\ t[q[k] + 1] = a[k] /\ ~IsComma(a[k])
    <3>1. p[k] < Len(s) /\ s[p[k] + 1] = a[k] /\ ~IsComma(a[k])
      BY <2>1 DEF Marks
    <3>2. p[k] + 1 \in 1..Len(s) /\ p[k] < Len(s) + Len(b)
      BY <1>1, <1>2, <1>6, <3>1
    <3> QED BY <1>3, <1>5, <3>1, <3>2
  <2>2. ASSUME ~IsBlank(e)
        PROVE  q[n + 1] < Len(t) /\ t[q[n + 1] + 1] = e /\ ~IsComma(e)
    <3>1. Len(s) + 1 < Len(s) + Len(b) /\ Len(s) + 1 + 1 = Len(s) + 2
      BY <1>1, <1>2, <2>2
    <3> QED BY <1>3, <1>5, <2>2, <3>1
  <2> QED BY <1>4, <2>1, <2>2
<1>12. Marks(t, n + 1, q, a)
  BY <1>3, <1>4, <1>7, <1>8, <1>9, <1>10, <1>11 DEF Marks
<1> QED BY <1>12 DEF t, b

(* The first k marks are k commas.                                           *)
LEMMA MarksCount ==
    ASSUME NEW n, NEW s, NEW p, NEW a, Marks(s, n, p, a), NEW k \in 0..n
    PROVE  Cardinality({p[j] : j \in 1..k}) = k
<1> DEFINE T == {p[j] : j \in 1..k}
           f == [j \in 1..k |-> p[j]]
<1>1. n \in Nat /\ k \in Nat /\ \A j \in 1..k : j \in 1..n
  BY DEF Marks
<1>2. \A i \in 1..n : p[i] \in Nat
  <2>1. \A i \in 1..n : p[i] \in 1..Len(s)
    BY DEF Marks
  <2>2. Len(s) \in Nat
    BY LenProperties DEF Marks
  <2> QED BY <2>1, <2>2
<1>3. \A i, j \in 1..n : p[i] = p[j] => i = j
  <2> SUFFICES ASSUME NEW i \in 1..n, NEW j \in 1..n, i < j PROVE p[i] # p[j]
    BY <1>1
  <2>1. p[i] < p[j]
    BY DEF Marks
  <2> QED BY <1>2, <2>1
<1>4. f \in Bijection(1..k, T)
  <2>1. f \in [1..k -> T]
    OBVIOUS
  <2>2. \A i, j \in 1..k : f[i] = f[j] => i = j
    BY <1>1, <1>3
  <2>3. \A t \in T : \E i \in 1..k : f[i] = t
    OBVIOUS
  <2> HIDE DEF f, T
  <2>4. DOMAIN f = 1..k
    BY <2>1
  <2> QED BY <2>1, <2>2, <2>3, <2>4 DEF Bijection, Injection, Surjection, IsInjective
<1> HIDE DEF f, T
<1>5. ExistsBijection(1..k, T)
  BY <1>4 DEF ExistsBijection
<1>6. Cardinality(T) = k
  BY <1>1, <1>5, FS_CountingElements
<1> QED BY <1>6 DEF T

(* An argument is what stands behind its comma.                              *)
LEMMA MarkedArgs ==
    ASSUME NEW text, NEW n, NEW p, NEW S, NEW a \in Seq(S),
           Len(a) = n, Marks(Led(text), n, p, a)
    PROVE  ArgTokens(text) = a
<1> DEFINE all == Led(text)
           To(i) == {j \in 1..i : all[j] = ","}
           CommasTo(i) == Cardinality(To(i))
           Nth(k) == CHOOSE i \in 1..Len(all) : all[i] = "," /\ CommasTo(i) = k
           arg(k) == IF Nth(k) < Len(all) /\ all[Nth(k) + 1] # ","
                     THEN all[Nth(k) + 1] ELSE ""
           First(k) == {p[j] : j \in 1..k}
<1>1. ArgTokens(text) = [k \in 1..CommasTo(Len(all)) |-> arg(k)]
  BY DEF ArgTokens, Led
<1>2. /\ n \in Nat /\ Len(all) \in Nat
      /\ \A k \in 1..n : p[k] \in 1..Len(all) /\ IsComma(all[p[k]])
      /\ \A j, k \in 1..n : j < k => p[j] < p[k]
      /\ \A i \in 1..Len(all) : IsComma(all[i]) => \E k \in 1..n : p[k] = i
  BY LenProperties DEF Marks
<1> HIDE DEF all
<1>3. \A i : To(i) = {j \in 1..i : IsComma(all[j])}
  BY DEF IsComma
<1> HIDE DEF To
<1>4. \A k \in 1..n : p[k] \in Nat
  BY <1>2
<1>5. ASSUME NEW k \in 1..n PROVE To(p[k]) = First(k)
  <2>1. ASSUME NEW j \in To(p[k]) PROVE j \in First(k)
    <3>1. j \in 1..p[k] /\ IsComma(all[j]) /\ j \in 1..Len(all)
      BY <1>2, <1>3
    <3>2. PICK i \in 1..n : p[i] = j
      BY <1>2, <3>1
    <3>3. ~(k < i)
      BY <1>2, <1>4, <3>1, <3>2
    <3>4. i \in 1..k
      BY <1>2, <3>3
    <3> QED BY <3>2, <3>4
  <2>2. ASSUME NEW j \in 1..k PROVE p[j] \in To(p[k])
    <3>1. j \in 1..n /\ (j = k \/ j < k)
      BY <1>2
    <3>2. p[j] \in 1..p[k]
      BY <1>2, <1>4, <3>1
    <3> QED BY <1>2, <1>3, <3>1, <3>2
  <2> QED BY <2>1, <2>2
<1>6. To(Len(all)) = First(n)
  <2>1. \A j : j \in To(Len(all)) <=> j \in 1..Len(all) /\ IsComma(all[j])
    BY <1>3
  <2>2. \A j \in 1..n : p[j] \in To(Len(all))
    BY <1>2, <2>1
  <2>3. \A j \in To(Len(all)) : j \in First(n)
    BY <1>2, <2>1
  <2> QED BY <2>2, <2>3
<1>7. /\ CommasTo(Len(all)) = n
      /\ \A k \in 1..n : CommasTo(p[k]) = k
  <2>1. \A k \in 0..n : Cardinality(First(k)) = k
    <3> HIDE DEF First
    <3> TAKE k \in 0..n
    <3>1. Cardinality({p[j] : j \in 1..k}) = k
      BY MarksCount DEF all
    <3> QED BY <3>1 DEF First
  <2>2. n \in 0..n /\ \A k \in 1..n : k \in 0..n
    BY <1>2
  <2> HIDE DEF First
  <2> QED BY <1>5, <1>6, <2>1, <2>2
<1> HIDE DEF CommasTo, First
<1>8. ASSUME NEW k \in 1..n PROVE Nth(k) = p[k]
  <2>1. \A i \in 1..Len(all) : all[i] = "," /\ CommasTo(i) = k <=> i = p[k]
    <3> TAKE i \in 1..Len(all)
    <3>1. ASSUME IsComma(all[i]), CommasTo(i) = k PROVE i = p[k]
      <4>1. PICK j \in 1..n : p[j] = i
        BY <1>2, <3>1
      <4> QED BY <1>7, <3>1, <4>1
    <3>2. i = p[k] => IsComma(all[i]) /\ CommasTo(i) = k
      BY <1>2, <1>7
    <3>3. IsComma(all[i]) <=> all[i] = ","
      BY DEF IsComma
    <3> QED BY <3>1, <3>2, <3>3
  <2>2. p[k] \in 1..Len(all)
    BY <1>2
  <2> QED BY <2>1, <2>2
<1> HIDE DEF Nth
<1>9. \A k \in 1..n : arg(k) = a[k]
  <2> TAKE k \in 1..n
  <2>1. Nth(k) = p[k] /\ p[k] \in Nat /\ Len(all) \in Nat
    BY <1>2, <1>4, <1>8
  <2>2. IsBlank(a[k]) => p[k] = Len(all) \/ IsComma(all[p[k] + 1])
    BY DEF Marks, all
  <2>3. ~IsBlank(a[k]) => p[k] < Len(all) /\ all[p[k] + 1] = a[k] /\ ~IsComma(a[k])
    BY DEF Marks, all
  <2>4. p[k] = Len(all) => ~(p[k] < Len(all))
    BY <2>1
  <2>5. CASE a[k] = ""
    BY <2>1, <2>2, <2>4, <2>5 DEF IsBlank, IsComma
  <2>6. CASE a[k] # ""
    BY <2>1, <2>3, <2>6 DEF IsBlank, IsComma
  <2> QED BY <2>5, <2>6
<1> HIDE DEF arg
<1>10. ArgTokens(text) = [k \in 1..n |-> a[k]]
  BY <1>1, <1>7, <1>9
<1>11. a = [k \in 1..n |-> a[k]]
  BY LenProperties
<1> QED BY <1>10, <1>11

(* What is typed for each argument.                                          *)
Block(args, i) == (IF i = 1 THEN <<>> ELSE <<",">>)
                      \o (IF args[i] = "" THEN <<>> ELSE <<args[i]>>)
Blocks(args) == [i \in 1..Len(args) |-> Block(args, i)]

(* Arguments that mean the same when they are separated by commas.           *)
Separable(args) ==
    /\ args \in Seq(STRING)
    /\ args # <<>> => args[1] # ""
    /\ \A i \in 1..Len(args) : args[i] \notin ArgEnds \cup {","}

(* The tokens of an argument list: its arguments, and commas.                *)
TokensOf(args) == {","} \cup {args[i] : i \in 1..Len(args)}

(* Two elements.                                                             *)
LEMMA TwoJoined ==
    ASSUME NEW S, NEW c \in S, NEW e \in S
    PROVE  <<c>> \o <<e>> = <<c, e>> /\ <<c, e>> \in Seq(S)
<1> DEFINE l == <<c>>
           r == <<e>>
           m == <<c, e>>
           j == l \o r
<1>1. /\ l \in Seq(S) /\ Len(l) = 1 /\ l[1] = c
      /\ r \in Seq(S) /\ Len(r) = 1 /\ r[1] = e
      /\ m \in Seq(S) /\ Len(m) = 2 /\ m[1] = c /\ m[2] = e
  OBVIOUS
<1> HIDE DEF l, r, m
<1>2. /\ j \in Seq(S) /\ Len(j) = Len(l) + Len(r)
      /\ \A i \in 1..Len(l) + Len(r) :
            j[i] = IF i <= Len(l) THEN l[i] ELSE r[i - Len(l)]
  BY <1>1, ConcatProperties
<1> HIDE DEF j
<1>3. j \in Seq(S) /\ Len(j) = 2 /\ j[1] = c /\ j[2] = e
  BY <1>1, <1>2
<1>4. \A i \in 1..2 : j[i] = m[i]
  BY <1>1, <1>3
<1>5. j = m
  BY <1>1, <1>3, <1>4, SeqEqual
<1> QED BY <1>1, <1>5 DEF j, l, r, m

(* The first argument stands alone, each other one behind a comma.           *)
LEMMA BlockIs ==
    ASSUME NEW args, Separable(args), NEW i \in 1..Len(args)
    PROVE  /\ Block(args, i) \in Seq(TokensOf(args))
           /\ i = 1 => Block(args, i) = <<args[i]>>
           /\ i # 1 => Block(args, i) = Behind(args[i])
<1> DEFINE S == TokensOf(args)
<1>1. PICK c \in S : c = ","
  BY DEF TokensOf
<1>2. PICK e \in S : e = args[i]
  BY DEF TokensOf
<1>3. <<c>> \in Seq(S) /\ <<e>> \in Seq(S) /\ <<>> \in Seq(S)
  OBVIOUS
<1>4. <<c>> \o <<>> = <<c>> /\ <<>> \o <<e>> = <<e>>
  BY <1>3, ConcatEmptySeq
<1>5. <<c>> \o <<e>> = <<c, e>> /\ <<c, e>> \in Seq(S)
  BY TwoJoined
<1>6. CASE i = 1
  <2>1. args # <<>>
    <3>1. ASSUME args = <<>> PROVE FALSE
      <4>1. Len(args) = 0
        BY <3>1, EmptySeq
      <4> QED BY <4>1
    <3> QED BY <3>1
  <2>2. e # ""
    BY <1>2, <1>6, <2>1 DEF Separable
  <2>3. Block(args, i) = <<>> \o <<e>>
    BY <1>2, <1>6, <2>2 DEF Block
  <2> QED BY <1>2, <1>3, <1>4, <1>6, <2>3
<1>7. CASE i # 1 /\ e = ""
  <2>1. Block(args, i) = <<c>> \o <<>>
    BY <1>1, <1>2, <1>7 DEF Block
  <2>2. Behind(args[i]) = <<c>>
    BY <1>1, <1>2, <1>7 DEF Behind
  <2> QED BY <1>3, <1>4, <1>7, <2>1, <2>2
<1>8. CASE i # 1 /\ e # ""
  <2>1. Block(args, i) = <<c>> \o <<e>>
    BY <1>1, <1>2, <1>8 DEF Block
  <2>2. Behind(args[i]) = <<c, e>>
    BY <1>1, <1>2, <1>8 DEF Behind
  <2> QED BY <1>5, <1>8, <2>1, <2>2
<1> QED BY <1>6, <1>7, <1>8

(* The tokens that are typed for all of them.                                *)
LEMMA CommaIs ==
    ASSUME NEW args, Separable(args)
    PROVE  /\ Blocks(args) \in Seq(Seq(TokensOf(args)))
           /\ Len(Blocks(args)) = Len(args)
           /\ \A i \in 1..Len(args) : Blocks(args)[i] = Block(args, i)
           /\ Comma(args) = FlattenSeq(Blocks(args))
           /\ Comma(args) \in Seq(TokensOf(args))
<1>1. Len(args) \in Nat
  BY LenProperties DEF Separable
<1>2. \A i \in 1..Len(args) : Block(args, i) \in Seq(TokensOf(args))
  BY BlockIs
<1>3. /\ Blocks(args) \in Seq(Seq(TokensOf(args)))
      /\ Len(Blocks(args)) = Len(args)
      /\ \A i \in 1..Len(args) : Blocks(args)[i] = Block(args, i)
  BY <1>1, <1>2, IsASeq DEF Blocks
<1>4. Comma(args) = FlattenSeq(Blocks(args))
  BY DEF Comma, Blocks, Block
<1> QED BY <1>3, <1>4, FlattenType

(* A comma goes before the first of them, and then each has its own.         *)
Listed(args, m) ==
    /\ FirstOf(Blocks(args), m) # <<>> /\ FirstOf(Blocks(args), m)[1] = args[1]
    /\ \E p : Marks(<<",">> \o FirstOf(Blocks(args), m), m, p, args)

(* Argument by argument.                                                     *)
LEMMA ListedNext ==
    ASSUME NEW args, Separable(args), NEW m \in Nat \ {0}, m < Len(args), Listed(args, m)
    PROVE  Listed(args, m + 1)
<1> DEFINE S == TokensOf(args)
           f == FirstOf(Blocks(args), m)
           g == FirstOf(Blocks(args), m + 1)
           b == Behind(args[m + 1])
           lead == <<",">>
<1>0. Len(args) \in Nat
  BY LenProperties DEF Separable
<1>1. Len(args) \in Nat /\ m + 1 \in 1..Len(args) /\ m + 1 # 1
  BY <1>0
<1>2. Blocks(args)[m + 1] = b /\ b \in Seq(S)
  BY <1>1, BlockIs, CommaIs
<1>3. f \in Seq(S) /\ g = f \o b
  <2>1. Blocks(args) \in Seq(Seq(S)) /\ m < Len(Blocks(args))
    BY CommaIs
  <2> QED BY <1>2, <2>1, NextOf
<1>4. lead \in Seq(S)
  <2>1. \A c \in S : <<c>> \in Seq(S)
    OBVIOUS
  <2> QED BY <2>1 DEF TokensOf
<1>5. PICK p : Marks(lead \o f, m, p, args)
  BY DEF Listed
<1>6. args[m + 1] \in Cell /\ ~IsComma(args[m + 1])
  <2>1. args[m + 1] \in STRING
    BY <1>1, ElementOfSeq DEF Separable
  <2> QED BY <1>1, <2>1 DEF Separable, Cell, IsComma
<1> HIDE DEF lead, f, g, b
<1>7. \E q : Marks((lead \o f) \o b, m + 1, q, args)
  BY <1>5, <1>6, MarkNext DEF b
<1>8. (lead \o f) \o b = lead \o g
  BY <1>2, <1>3, <1>4, ConcatAssociative
<1>9. g # <<>> /\ g[1] = args[1]
  <2>1. f # <<>> /\ f[1] = args[1]
    BY DEF Listed, f
  <2>2. Len(f) \in Nat /\ Len(f) # 0 /\ Len(b) \in Nat
    BY <1>2, <1>3, <2>1, LenProperties, EmptySeq
  <2>3. 1 \in 1..Len(f) + Len(b) /\ 1 <= Len(f)
    BY <2>2
  <2>4. g[1] = f[1] /\ Len(g) = Len(f) + Len(b)
    BY <1>2, <1>3, <2>3, ConcatProperties
  <2>5. Len(g) # 0
    BY <2>2, <2>4
  <2> QED BY <2>1, <2>4, <2>5, EmptySeq
<1> QED BY <1>7, <1>8, <1>9 DEF Listed, lead, g

(* The first argument has one put before it.                                 *)
LEMMA ListedFirst ==
    ASSUME NEW args, Separable(args), args # <<>>
    PROVE  Listed(args, 1)
<1> DEFINE S == TokensOf(args)
           e == args[1]
<1>1. Len(args) \in Nat /\ Len(args) # 0
  BY LenProperties, EmptySeq DEF Separable
<1>2. 1 \in 1..Len(args) /\ 0 < Len(args) /\ 0 + 1 = 1
  BY <1>1
<1>3. /\ e \in Cell /\ ~IsComma(e) /\ ~IsBlank(e)
  <2>1. e \in STRING
    BY <1>2, ElementOfSeq DEF Separable
  <2> QED BY <1>2, <2>1 DEF Separable, Cell, IsComma, IsBlank
<1>4. FirstOf(Blocks(args), 1) = <<e>>
  <2>1. Blocks(args)[1] = <<e>> /\ <<e>> \in Seq(S)
    BY <1>2, BlockIs, CommaIs
  <2>2. /\ Blocks(args) \in Seq(Seq(S)) /\ Len(Blocks(args)) = Len(args)
    BY CommaIs
  <2>3. FirstOf(Blocks(args), 0 + 1) = FirstOf(Blocks(args), 0) \o Blocks(args)[0 + 1]
    BY <1>2, <2>2, NextOf
  <2>4. FirstOf(Blocks(args), 0) = <<>>
    BY <2>2, NoneAndAll
  <2> QED BY <1>2, <2>1, <2>3, <2>4, ConcatEmptySeq
<1>5. PICK c \in Cell : c = ","
  BY DEF Cell
<1> HIDE DEF e
<1>6. <<",">> \o <<e>> = Behind(e)
  <2>1. <<c>> \o <<e>> = <<c, e>>
    BY <1>3, TwoJoined
  <2> QED BY <1>3, <1>5, <2>1 DEF Behind, IsBlank
<1>7. Marks(<<>>, 0, args, args)
  <2>1. <<>> \in Seq(Cell) /\ Len(<<>>) = 0
    BY EmptySeq
  <2> QED BY <2>1 DEF Marks
<1>8. \E q : Marks(<<>> \o Behind(args[0 + 1]), 0 + 1, q, args)
  <2>1. args[0 + 1] \in Cell /\ ~IsComma(args[0 + 1])
    BY <1>2, <1>3 DEF e
  <2> QED BY <1>7, <2>1, MarkNext
<1>9. <<>> \o Behind(e) = Behind(e)
  <2>1. Behind(e) \in Seq(Cell)
    <3>1. <<c, e>> \in Seq(Cell)
      BY <1>3, TwoJoined
    <3> QED BY <1>3, <1>5, <3>1 DEF Behind, IsBlank
  <2> QED BY <2>1, ConcatEmptySeq
<1>10. \E q : Marks(<<",">> \o FirstOf(Blocks(args), 1), 1, q, args)
  BY <1>2, <1>4, <1>6, <1>8, <1>9 DEF e
<1>11. FirstOf(Blocks(args), 1) # <<>> /\ FirstOf(Blocks(args), 1)[1] = args[1]
  BY <1>4 DEF e
<1> QED BY <1>10, <1>11 DEF Listed

(* All of them.                                                              *)
LEMMA ListedAll ==
    ASSUME NEW args, Separable(args), args # <<>>
    PROVE  Listed(args, Len(args))
<1> DEFINE T == {m \in 1..Len(args) : ~Listed(args, m)}
<1>1. Len(args) \in Nat /\ Len(args) # 0
  BY LenProperties, EmptySeq DEF Separable
<1>2. T = {}
  <2> SUFFICES ASSUME T # {} PROVE FALSE
    OBVIOUS
  <2>1. T \in SUBSET Nat
    BY <1>1
  <2>2. PICK x \in T : \A y \in T : x <= y
    <3> HIDE DEF T
    <3> QED BY <2>1, Smallest
  <2>3. x \in 1..Len(args) /\ ~Listed(args, x)
    OBVIOUS
  <2>4. x # 1
    BY <2>3, ListedFirst
  <2>5. x - 1 \in Nat \ {0} /\ x - 1 < Len(args) /\ x - 1 \in 1..Len(args)
        /\ ~(x <= x - 1) /\ x - 1 + 1 = x
    BY <1>1, <2>3, <2>4
  <2>6. Listed(args, x - 1)
    BY <2>2, <2>5
  <2> HIDE DEF T
  <2>7. Listed(args, x - 1 + 1)
    BY <2>5, <2>6, ListedNext
  <2> QED BY <2>3, <2>5, <2>7
<1>3. Len(args) \in 1..Len(args)
  BY <1>1
<1> QED BY <1>2, <1>3

(* The arguments of a line are the ones that were meant.                     *)
LEMMA ArgsComeBack ==
    ASSUME NEW args, Separable(args)
    PROVE  ArgTokens(Comma(args)) = args
<1>1. args \in Seq(STRING) /\ Len(args) \in Nat
  BY LenProperties DEF Separable
<1>2. Comma(args) = FirstOf(Blocks(args), Len(args))
  BY CommaIs, NoneAndAll
<1>3. CASE args = <<>>
  <2>1. Len(args) = 0
    BY <1>3, EmptySeq
  <2>2. Comma(args) = <<>>
    BY <1>2, <2>1, CommaIs, NoneAndAll
  <2>3. Led(Comma(args)) = <<>>
    BY <2>2 DEF Led
  <2>4. Marks(<<>>, 0, args, args)
    <3>1. <<>> \in Seq(Cell) /\ Len(<<>>) = 0
      BY EmptySeq
    <3> QED BY <3>1 DEF Marks
  <2> QED BY <1>1, <2>1, <2>3, <2>4, MarkedArgs
<1>4. CASE args # <<>>
  <2>1. Listed(args, Len(args))
    BY <1>4, ListedAll
  <2>2. Comma(args) # <<>> /\ Comma(args)[1] = args[1]
    BY <1>2, <2>1 DEF Listed
  <2>3. args[1] # ","
    <3>1. Len(args) # 0
      BY <1>1, <1>4, EmptySeq
    <3>2. 1 \in 1..Len(args)
      BY <1>1, <3>1
    <3> QED BY <3>2 DEF Separable
  <2>4. Led(Comma(args)) = <<",">> \o Comma(args)
    BY <2>2, <2>3 DEF Led
  <2>5. PICK p : Marks(<<",">> \o Comma(args), Len(args), p, args)
    BY <1>2, <2>1 DEF Listed
  <2> QED BY <1>1, <2>4, <2>5, MarkedArgs
<1> QED BY <1>3, <1>4
-----------------------------------------------------------------------------
(* A line that says what its user means: it fits in the buffer, a command is *)
(* one of the table, its arguments come back, and what push sends is a word; *)
(* what is no command gets no further than the parser.                       *)
IsMistake(tokens) ==
    /\ tokens # <<"X", "L", "\r", "\n">>
    /\ Len(tokens) >= 5 /\ tokens[1] = "X" /\ tokens[2] = "L" /\ tokens[3] = "+" =>
            ~(tokens[4] \in CmdInfoTable /\ tokens[5] \in {"?", "="})

(* Numbers that a register can hold.                                         *)
AreWords(args) == \A i \in 1..Len(args) : ToInt(args[i]) \in Nat /\ ToInt(args[i]) < 65536

WellMeant(text) ==
    /\ Len(Tokens(text)) < CmdBufferSize
    /\ \/ text.form = "get" /\ text.name \in CmdInfoTable
       \/ /\ text.form = "set" /\ text.name \in CmdInfoTable /\ Separable(text.args)
          /\ text.name \in Regs => AreWords(text.args)
       \/ text.form = "raw" /\ text.kind = "hello" /\ Tokens(text) = <<"X", "L", "\r", "\n">>
       \/ text.form = "raw" /\ text.kind = "mistake" /\ IsMistake(Tokens(text))

(* The names of registers are none of the other commands, and names.         *)
PlainNames == Regs \cap ({"XBAUD", "PING", "SEL", ""} \cup CmdEnds) = {}

(* Three sequences, one behind the other.                                    *)
LEMMA ThreeJoined ==
    ASSUME NEW S, NEW a \in Seq(S), NEW b \in Seq(S), NEW c \in Seq(S), NEW t,
           t = a \o b \o c
    PROVE  /\ Len(a) \in Nat /\ Len(b) \in Nat /\ Len(c) \in Nat
           /\ t \in Seq(S) /\ Len(t) = Len(a) + Len(b) + Len(c)
           /\ \A i \in 1..Len(a) : t[i] = a[i]
           /\ \A i \in 1..Len(b) : t[Len(a) + i] = b[i]
           /\ \A i \in 1..Len(c) : t[Len(a) + Len(b) + i] = c[i]
<1> DEFINE d == a \o b
<1>1. /\ Len(a) \in Nat /\ Len(b) \in Nat /\ Len(c) \in Nat
  BY LenProperties
<1>2. /\ d \in Seq(S) /\ Len(d) = Len(a) + Len(b)
      /\ \A i \in 1..Len(a) + Len(b) : d[i] = IF i <= Len(a) THEN a[i] ELSE b[i - Len(a)]
  BY ConcatProperties
<1> HIDE DEF d
<1>3. /\ t \in Seq(S) /\ Len(t) = Len(d) + Len(c)
      /\ \A i \in 1..Len(d) + Len(c) : t[i] = IF i <= Len(d) THEN d[i] ELSE c[i - Len(d)]
  BY <1>2, ConcatProperties DEF d
<1>4. ASSUME NEW i \in 1..Len(a) PROVE t[i] = a[i]
  <2>1. i \in 1..Len(a) + Len(b) /\ i <= Len(a) /\ i \in 1..Len(d) + Len(c) /\ i <= Len(d)
    BY <1>1, <1>2
  <2> QED BY <1>2, <1>3, <2>1
<1>5. ASSUME NEW i \in 1..Len(b) PROVE t[Len(a) + i] = b[i]
  <2>1. /\ Len(a) + i \in 1..Len(a) + Len(b) /\ ~(Len(a) + i <= Len(a))
        /\ Len(a) + i - Len(a) = i
        /\ Len(a) + i \in 1..Len(d) + Len(c) /\ Len(a) + i <= Len(d)
    BY <1>1, <1>2
  <2> QED BY <1>2, <1>3, <2>1
<1>6. ASSUME NEW i \in 1..Len(c) PROVE t[Len(a) + Len(b) + i] = c[i]
  <2>1. /\ Len(d) + i \in 1..Len(d) + Len(c) /\ ~(Len(d) + i <= Len(d))
        /\ Len(d) + i - Len(d) = i
    BY <1>1, <1>2
  <2>2. t[Len(d) + i] = c[i]
    BY <1>3, <2>1
  <2> QED BY <1>2, <2>2
<1> QED BY <1>1, <1>2, <1>3, <1>4, <1>5, <1>6

(* Five elements, and two.                                                   *)
LEMMA FiveAndTwo ==
    ASSUME NEW S, NEW a \in S, NEW b \in S, NEW c \in S, NEW d \in S, NEW e \in S
    PROVE  /\ LET s == <<a, b, c, d, e>> IN
              /\ s \in Seq(S) /\ Len(s) = 5
              /\ s[1] = a /\ s[2] = b /\ s[3] = c /\ s[4] = d /\ s[5] = e
           /\ <<a, b>> \in Seq(S) /\ Len(<<a, b>>) = 2 /\ <<a, b>>[1] = a
OBVIOUS

(* A command as it is typed.                                                 *)
Begins(t, name, mark) ==
    /\ Len(t) \in Nat /\ Len(t) >= 7
    /\ t[1] = "X" /\ t[2] = "L" /\ t[3] = "+" /\ t[4] = name /\ t[5] = mark

(* The command that reads.                                                   *)
LEMMA GetBegins ==
    ASSUME NEW text, text.form = "get"
    PROVE  Begins(Tokens(text), text.name, "?")
<1>1. Tokens(text) = <<"X", "L", "+", text.name, "?", "\r", "\n">>
  BY DEF Tokens
<1> DEFINE t == <<"X", "L", "+", text.name, "?", "\r", "\n">>
<1>2. Len(t) = 7 /\ t[1] = "X" /\ t[2] = "L" /\ t[3] = "+" /\ t[4] = text.name /\ t[5] = "?"
  OBVIOUS
<1> HIDE DEF t
<1>3. Len(t) \in Nat /\ Len(t) >= 7
  BY <1>2
<1> QED BY <1>1, <1>2, <1>3 DEF Begins, t

(* The command that writes: its arguments lie between the mark and the end.  *)
LEMMA SetBegins ==
    ASSUME NEW text, text.form = "set", Separable(text.args)
    PROVE  LET t == Tokens(text)
               c == Comma(text.args)
           IN  /\ Begins(t, text.name, "=")
               /\ c \in Seq(Cell) /\ Len(c) \in Nat /\ Len(t) = Len(c) + 7
               /\ \A i \in 1..Len(c) : t[5 + i] = c[i] /\ c[i] \notin ArgEnds
               /\ t[Len(c) + 6] = "\r"
<1> DEFINE t == Tokens(text)
           c == Comma(text.args)
           h == <<"X", "L", "+", text.name, "=">>
           e == <<"\r", "\n">>
           Typed == Cell \cup {"X", "L", "+", "=", "\r", "\n", text.name}
<1>1. t = h \o c \o e
  BY DEF Tokens
<1>2. /\ "X" \in Typed /\ "L" \in Typed /\ "+" \in Typed /\ "=" \in Typed
      /\ "\r" \in Typed /\ "\n" \in Typed /\ text.name \in Typed
  OBVIOUS
<1>3. h \in Seq(Typed) /\ Len(h) = 5 /\ e \in Seq(Typed) /\ Len(e) = 2
  BY <1>2, FiveAndTwo
<1>12. /\ h[1] = "X" /\ h[2] = "L" /\ h[3] = "+" /\ h[4] = text.name /\ h[5] = "="
       /\ e[1] = "\r"
  BY <1>2, FiveAndTwo
<1>4. c \in Seq(TokensOf(text.args))
  BY CommaIs
<1>5. \A x \in TokensOf(text.args) : x \in Cell /\ x \notin ArgEnds
  <2>1. "," \in Cell /\ "," \notin ArgEnds
    BY DEF Cell, ArgEnds
  <2>2. \A i \in 1..Len(text.args) : text.args[i] \in Cell /\ text.args[i] \notin ArgEnds
    <3>1. text.args \in Seq(STRING)
      BY DEF Separable
    <3>2. \A i \in 1..Len(text.args) : text.args[i] \in STRING
      BY <3>1, ElementOfSeq
    <3> QED BY <3>2 DEF Separable, Cell
  <2> QED BY <2>1, <2>2 DEF TokensOf
<1>14. \A x \in Cell : x \in Typed
  OBVIOUS
<1> HIDE DEF t, c, h, e, Typed
<1>6. c \in Seq(Cell) /\ Len(c) \in Nat /\ \A i \in 1..Len(c) : c[i] \notin ArgEnds
  <2>1. Len(c) \in Nat /\ c \in [1..Len(c) -> TokensOf(text.args)]
    BY <1>4, LenProperties
  <2>2. c \in [1..Len(c) -> Cell]
    BY <1>5, <2>1
  <2>3. c \in Seq(Cell)
    BY <2>1, <2>2, SeqDef
  <2> QED BY <1>5, <2>1, <2>3
<1>13. h \in Seq(Typed) /\ e \in Seq(Typed) /\ c \in Seq(Typed)
  <2>1. \A x \in 1..Len(c) : c[x] \in Typed
    BY <1>6, <1>14, ElementOfSeq
  <2>2. c = [x \in 1..Len(c) |-> c[x]]
    BY <1>6, LenProperties
  <2>3. c \in [1..Len(c) -> Typed]
    BY <2>1, <2>2
  <2>4. c \in Seq(Typed)
    BY <1>6, <2>3, SeqDef
  <2> QED BY <1>3, <2>4
<1>7. /\ Len(t) = Len(h) + Len(c) + Len(e)
      /\ \A i \in 1..Len(h) : t[i] = h[i]
      /\ \A i \in 1..Len(c) : t[Len(h) + i] = c[i]
      /\ \A i \in 1..Len(e) : t[Len(h) + Len(c) + i] = e[i]
  BY <1>1, <1>13, ThreeJoined
<1>8. Len(h) = 5 /\ Len(e) = 2
  BY <1>3
<1>9. /\ Len(t) = Len(c) + 7 /\ Len(t) \in Nat /\ Len(t) >= 7
      /\ t[1] = h[1] /\ t[2] = h[2] /\ t[3] = h[3] /\ t[4] = h[4] /\ t[5] = h[5]
      /\ \A i \in 1..Len(c) : t[5 + i] = c[i]
      /\ t[5 + Len(c) + 1] = e[1] /\ 5 + Len(c) + 1 = Len(c) + 6
  BY <1>6, <1>7, <1>8
<1>10. Begins(t, text.name, "=")
  BY <1>9, <1>12 DEF Begins
<1>11. t[Len(c) + 6] = "\r"
  BY <1>9, <1>12
<1> QED BY <1>6, <1>9, <1>10, <1>11 DEF t, c

(* What the buffer holds of a line that fits.                                *)
Held(t) ==
    /\ Len(t) \in Nat \ {0} /\ Len(t) < CmdBufferSize
    /\ \A i \in 1..Len(t) : mCmdBuffer[i - 1] = t[i]
    /\ mCmdBuffer[Len(t)] = "NUL"

(* All of it, when it is parsed.                                             *)
LEMMA LineHeld ==
    ASSUME TerminalInv, LineInv, mode = "parse", Fits
    PROVE  Held(TypedLine)
<1>1. Len(TypedLine) \in Nat \ {0} /\ Len(TypedLine) < CmdBufferSize
  BY TypedIs DEF Fits
<1>2. Holds(Len(TypedLine)) /\ mCmdBuffer[Len(TypedLine)] = "NUL"
  BY DEF LineInv
<1>3. ASSUME NEW i \in 1..Len(TypedLine) PROVE mCmdBuffer[i - 1] = TypedLine[i]
  <2>1. i - 1 \in 0..Len(TypedLine)-1 /\ (i - 1) + 1 = i
    BY <1>1
  <2> QED BY <1>2, <2>1 DEF Holds
<1> QED BY <1>1, <1>2, <1>3 DEF Held

(* What parse reads of a command.                                            *)
ReadsAs(name, mark) ==
    /\ Parsed.headed /\ Parsed.command
    /\ Parsed.end = 4 /\ 4 < CmdBufferSize
    /\ Parsed.name = name /\ Parsed.mark = mark

(* The name that was typed, and the mark behind it.                          *)
LEMMA CommandRead ==
    ASSUME NEW t, NEW name, NEW mark, Held(t), Begins(t, name, mark),
           name \notin CmdEnds, mark \in CmdEnds
    PROVE  ReadsAs(name, mark)
<1>1. /\ Len(t) \in Nat /\ Len(t) >= 7 /\ Len(t) < CmdBufferSize
      /\ \A i \in 1..Len(t) : mCmdBuffer[i - 1] = t[i]
  BY DEF Held, Begins
<1>2. /\ 4 < CmdBufferSize /\ 4 \in 3..CmdBufferSize-1
      /\ 1 \in 1..Len(t) /\ 2 \in 1..Len(t) /\ 3 \in 1..Len(t) /\ 4 \in 1..Len(t)
      /\ 5 \in 1..Len(t)
  BY <1>1, SizeIs
<1>3. /\ mCmdBuffer[0] = t[1] /\ mCmdBuffer[1] = t[2] /\ mCmdBuffer[2] = t[3]
      /\ mCmdBuffer[3] = t[4] /\ mCmdBuffer[4] = t[5]
  <2>1. mCmdBuffer[1 - 1] = t[1] /\ mCmdBuffer[2 - 1] = t[2] /\ mCmdBuffer[3 - 1] = t[3]
        /\ mCmdBuffer[4 - 1] = t[4] /\ mCmdBuffer[5 - 1] = t[5]
    BY <1>1, <1>2
  <2> QED BY <2>1
<1>4. mCmdBuffer[0] = "X" /\ mCmdBuffer[1] = "L" /\ mCmdBuffer[2] = "+"
  BY <1>3 DEF Begins
<1>5. mCmdBuffer[3] = name /\ mCmdBuffer[4] = mark
  BY <1>3 DEF Begins
<1>6. Stop(3, CmdEnds) = 4
  <2>1. Stop(3, CmdEnds) \in Nat /\ Stop(3, CmdEnds) <= 4
    BY <1>2, <1>5, StopIs, StopAt
  <2>2. 3 <= Stop(3, CmdEnds) /\ mCmdBuffer[Stop(3, CmdEnds)] \in CmdEnds
    <3>1. Stop(3, CmdEnds) < CmdBufferSize
      BY <1>2, <2>1, SizeIs
    <3> QED BY <3>1, StopAt
  <2>3. Stop(3, CmdEnds) # 3
    BY <1>5, <2>2
  <2> QED BY <2>1, <2>2, <2>3
<1>7. Parsed.headed /\ Parsed.command
  BY <1>4 DEF Parsed
<1>8. Parsed.end = 4
  BY <1>6, ParsedIs
<1>9. Parsed.name = name /\ Parsed.mark = mark
  BY <1>2, <1>5, <1>8, ParsedIs
<1> QED BY <1>2, <1>7, <1>8, <1>9 DEF ReadsAs

(* The arguments that were typed, and nothing behind them.                   *)
LEMMA ArgsRead ==
    ASSUME TerminalInv, NEW text, text.form = "set", Separable(text.args),
           Held(Tokens(text)), Parsed.end = 4
    PROVE  Parsed.args = text.args
<1> DEFINE t == Tokens(text)
           c == Comma(text.args)
           stop == Stop(5, ArgEnds)
           cells == [i \in 1..CmdBufferSize |-> mCmdBuffer[i - 1]]
<1>1. /\ c \in Seq(Cell) /\ Len(c) \in Nat /\ Len(t) = Len(c) + 7
      /\ \A i \in 1..Len(c) : t[5 + i] = c[i] /\ c[i] \notin ArgEnds
  BY SetBegins
<1>2. t[Len(c) + 6] \in ArgEnds
  BY SetBegins DEF ArgEnds
<1>3. Len(t) < CmdBufferSize /\ \A i \in 1..Len(t) : mCmdBuffer[i - 1] = t[i]
  BY DEF Held
<1>4. Parsed.args = ArgTokens(SubSeq(cells, 6, stop))
  <2>1. Parsed.end + 2 = 6 /\ Parsed.end + 1 = 5
    OBVIOUS
  <2> QED BY <2>1, ParsedIs
<1> HIDE DEF t, c
<1>5. ASSUME NEW i \in 1..Len(c) PROVE mCmdBuffer[4 + i] = c[i]
  <2>1. 5 + i \in 1..Len(t) /\ (5 + i) - 1 = 4 + i
    BY <1>1
  <2> QED BY <1>1, <1>3, <2>1
<1>6. mCmdBuffer[Len(c) + 5] \in ArgEnds
  <2>1. Len(c) + 6 \in 1..Len(t) /\ (Len(c) + 6) - 1 = Len(c) + 5
    BY <1>1
  <2> QED BY <1>2, <1>3, <2>1
<1>7. stop = Len(c) + 5
  <2>1. Len(c) + 5 \in 5..CmdBufferSize-1 /\ CmdBufferSize \in Nat
    BY <1>1, <1>3, SizeIs
  <2>2. stop \in Nat /\ stop <= Len(c) + 5
    BY <1>6, <2>1, StopIs, StopAt
  <2>3. 5 <= stop /\ mCmdBuffer[stop] \in ArgEnds
    <3>1. stop < CmdBufferSize
      BY <1>1, <2>1, <2>2
    <3> QED BY <3>1, StopAt
  <2> HIDE DEF stop
  <2>4. ASSUME stop # Len(c) + 5 PROVE FALSE
    <3>1. stop - 4 \in 1..Len(c) /\ 4 + (stop - 4) = stop
      BY <1>1, <2>2, <2>3, <2>4
    <3>2. mCmdBuffer[stop] = c[stop - 4]
      BY <1>5, <3>1
    <3> QED BY <1>1, <2>3, <3>1, <3>2
  <2> QED BY <2>4
<1> HIDE DEF stop
<1>8. \A i \in 1..CmdBufferSize : cells[i] = mCmdBuffer[i - 1] /\ cells[i] \in Cell
  <2> TAKE i \in 1..CmdBufferSize
  <2>1. i - 1 \in 0..CmdBufferSize-1
    BY SizeIs
  <2> QED BY <2>1 DEF TerminalInv
<1> HIDE DEF cells
<1> DEFINE s == SubSeq(cells, 6, stop)
<1>9. /\ s \in Seq(Cell) /\ Len(s) = Len(c)
      /\ \A i \in 1..Len(c) : s[i] = cells[5 + i]
  <2>1. /\ 6 \in Int /\ stop \in Int /\ \A i \in 6..stop : i \in 1..CmdBufferSize
    BY <1>1, <1>3, <1>7, SizeIs
  <2>2. \A i \in 6..stop : cells[i] \in Cell
    BY <1>8, <2>1
  <2>3. /\ s \in Seq(Cell) /\ Len(s) = (IF 6 <= stop THEN stop - 6 + 1 ELSE 0)
        /\ \A k \in 1..stop - 6 + 1 : s[k] = cells[6 + k - 1]
    BY <2>1, <2>2, SubSeqProperties
  <2> HIDE DEF s
  <2>4. Len(s) = Len(c) /\ stop - 6 + 1 = Len(c)
    BY <1>1, <1>7, <2>3
  <2>5. \A i \in 1..Len(c) : 6 + i - 1 = 5 + i
    BY <1>1
  <2> QED BY <2>3, <2>4, <2>5
<1> HIDE DEF s
<1>10. \A i \in 1..Len(c) : s[i] = c[i]
  <2> TAKE i \in 1..Len(c)
  <2>1. 5 + i \in 1..CmdBufferSize /\ (5 + i) - 1 = 4 + i
    BY <1>1, <1>3, SizeIs
  <2> QED BY <1>5, <1>8, <1>9, <2>1
<1>11. s = c
  BY <1>1, <1>9, <1>10, SeqEqual
<1> QED BY <1>4, <1>11, ArgsComeBack DEF s, c

(* The line that is parsed or waits for the controller.                      *)
TheLine == typed[Len(log) + 1]

(* The line that is parsed is one that says what is meant.                   *)
IsMeant == mode = "parse" => WellMeant(TheLine)

(* It is one of those that may be typed.                                     *)
LEMMA TheLineIs ==
    ASSUME TerminalInv, mode # "loop"
    PROVE  TheLine \in Lines /\ TypedLine = Tokens(TheLine)
<1>1. Len(log) \in Nat /\ Len(typed) = Len(log) + 1 /\ typed \in Seq(Lines)
  BY LenProperties DEF TerminalInv
<1>2. typed[Len(log) + 1] \in Lines
  BY <1>1, ElementOfSeq
<1> QED BY <1>2 DEF TheLine, TypedLine

(* The commands of the table are names.                                      *)
LEMMA TableNames ==
    ASSUME PlainNames, NEW name \in CmdInfoTable
    PROVE  name \notin CmdEnds /\ name # ""
BY DEF PlainNames, CmdInfoTable, CmdEnds

(* The line that asks for OK is not read as a command.                       *)
LEMMA HelloRead ==
    ASSUME Held(<<"X", "L", "\r", "\n">>)
    PROVE  /\ Parsed.headed /\ ~Parsed.command
           /\ mCmdBuffer[2] = "\r" /\ mCmdBuffer[3] = "\n"
<1> DEFINE t == <<"X", "L", "\r", "\n">>
<1>1. Len(t) = 4
  OBVIOUS
<1>2. t[1] = "X" /\ t[2] = "L" /\ t[3] = "\r" /\ t[4] = "\n"
  OBVIOUS
<1>3. \A i \in 1..Len(t) : mCmdBuffer[i - 1] = t[i]
  BY DEF Held
<1> HIDE DEF t
<1>4. 1 \in 1..Len(t) /\ 2 \in 1..Len(t) /\ 3 \in 1..Len(t) /\ 4 \in 1..Len(t)
  BY <1>1
<1>5. mCmdBuffer[1 - 1] = t[1] /\ mCmdBuffer[2 - 1] = t[2] /\ mCmdBuffer[3 - 1] = t[3]
      /\ mCmdBuffer[4 - 1] = t[4]
  BY <1>3, <1>4
<1>6. mCmdBuffer[0] = t[1] /\ mCmdBuffer[1] = t[2] /\ mCmdBuffer[2] = t[3]
      /\ mCmdBuffer[3] = t[4]
  BY <1>5
<1> QED BY <1>2, <1>6 DEF Parsed

(* A line ends where its line feed is.                                       *)
Ended(t) == \A i \in 1..Len(t) : t[i] = "\n" <=> i = Len(t)

(* A token of a line that goes on.                                           *)
LEMMA GoesOn ==
    ASSUME NEW t, Held(t), Ended(t), NEW k \in 1..Len(t), mCmdBuffer[k - 1] # "\n"
    PROVE  mCmdBuffer[k - 1] = t[k] /\ k + 1 \in 1..Len(t)
<1>1. mCmdBuffer[k - 1] = t[k] /\ Len(t) \in Nat
  BY DEF Held
<1>2. k # Len(t)
  BY <1>1 DEF Ended
<1> QED BY <1>1, <1>2

(* Four tokens that are the ones of XL alone.                                *)
LEMMA HelloIs ==
    ASSUME NEW S, NEW t \in Seq(S), Len(t) = 4,
           t[1] = "X", t[2] = "L", t[3] = "\r", t[4] = "\n"
    PROVE  t = <<"X", "L", "\r", "\n">>
<1>1. t = [i \in 1..4 |-> t[i]]
  BY LenProperties
<1>2. t = <<t[1], t[2], t[3], t[4]>>
  BY <1>1
<1> QED BY <1>2

(* The first tokens of a line with its header.                               *)
LEMMA HeaderRead ==
    ASSUME NEW t, Held(t), Ended(t), Parsed.headed
    PROVE  /\ 1 \in 1..Len(t) /\ 2 \in 1..Len(t) /\ 3 \in 1..Len(t)
           /\ t[1] = "X" /\ t[2] = "L" /\ mCmdBuffer[2] = t[3]
           /\ mCmdBuffer[2] # "\n" => 4 \in 1..Len(t) /\ mCmdBuffer[3] = t[4]
<1>1. mCmdBuffer[0] = "X" /\ mCmdBuffer[1] = "L"
  BY DEF Parsed
<1>2. mCmdBuffer[0] # "\n" /\ mCmdBuffer[1] # "\n"
  BY <1>1
<1>3. Len(t) \in Nat \ {0} /\ \A i \in 1..Len(t) : mCmdBuffer[i - 1] = t[i]
  BY DEF Held
<1>4. 1 \in 1..Len(t) /\ 1 - 1 = 0 /\ 1 + 1 = 2 /\ 2 - 1 = 1 /\ 2 + 1 = 3 /\ 3 - 1 = 2
      /\ 3 + 1 = 4 /\ 4 - 1 = 3
  BY <1>3
<1>5. mCmdBuffer[0] = t[1] /\ 2 \in 1..Len(t)
  <2>1. mCmdBuffer[1 - 1] = t[1] /\ 1 + 1 \in 1..Len(t)
    BY <1>2, <1>4, GoesOn
  <2> QED BY <1>4, <2>1
<1>6. mCmdBuffer[1] = t[2] /\ 3 \in 1..Len(t)
  <2>1. mCmdBuffer[2 - 1] = t[2] /\ 2 + 1 \in 1..Len(t)
    BY <1>2, <1>4, <1>5, GoesOn
  <2> QED BY <1>4, <2>1
<1>7. mCmdBuffer[2] = t[3]
  BY <1>3, <1>4, <1>6
<1>8. ASSUME mCmdBuffer[2] # "\n" PROVE 4 \in 1..Len(t) /\ mCmdBuffer[3] = t[4]
  <2>1. 3 + 1 \in 1..Len(t)
    BY <1>4, <1>6, <1>8, GoesOn
  <2> QED BY <1>3, <1>4, <2>1
<1> QED BY <1>1, <1>4, <1>5, <1>6, <1>7, <1>8

(* What is no command is not read as one, and not as XL alone.               *)
LEMMA MistakeRead ==
    ASSUME PlainNames, NEW S, NEW t \in Seq(S), Held(t), Ended(t), IsMistake(t), Parsed.headed
    PROVE  /\ ~Parsed.command => ~(mCmdBuffer[2] = "\r" /\ mCmdBuffer[3] = "\n")
           /\ Parsed.command =>
                ~(Parsed.name \in CmdInfoTable /\ Parsed.mark \in {"?", "="})
<1>1. /\ 1 \in 1..Len(t) /\ 2 \in 1..Len(t) /\ 3 \in 1..Len(t)
      /\ t[1] = "X" /\ t[2] = "L" /\ mCmdBuffer[2] = t[3]
      /\ mCmdBuffer[2] # "\n" => 4 \in 1..Len(t) /\ mCmdBuffer[3] = t[4]
  BY HeaderRead
<1>2. Len(t) \in Nat
  BY LenProperties
<1>3. ASSUME mCmdBuffer[2] = "\r", mCmdBuffer[3] = "\n" PROVE FALSE
  <2>1. 4 \in 1..Len(t) /\ t[4] = "\n" /\ t[3] = "\r"
    BY <1>1, <1>3
  <2>2. Len(t) = 4
    BY <2>1 DEF Ended
  <2>3. t = <<"X", "L", "\r", "\n">>
    BY <1>1, <2>1, <2>2, HelloIs
  <2> QED BY <2>3 DEF IsMistake
<1>4. ASSUME Parsed.command, Parsed.name \in CmdInfoTable, Parsed.mark \in {"?", "="}
      PROVE  FALSE
  <2>1. mCmdBuffer[2] = "+"
    BY <1>4 DEF Parsed
  <2>2. 4 \in 1..Len(t) /\ mCmdBuffer[3] = t[4] /\ t[3] = "+"
    BY <1>1, <2>1
  <2>3. Parsed.end = 4 /\ Parsed.name = mCmdBuffer[3]
    BY <1>4, TableNames, ParsedIs
  <2>4. Parsed.mark = mCmdBuffer[4]
    BY <1>4, <2>3, ParsedIs
  <2>5. mCmdBuffer[4] # "NUL"
    BY <1>4, <2>4
  <2>6. Len(t) # 4
    BY <2>5 DEF Held
  <2>10. 4 \in 1..Len(t)
    BY <2>2
  <2>7. Len(t) >= 5 /\ 5 \in 1..Len(t) /\ 5 - 1 = 4
    <3>1. \A n \in Nat : 4 \in 1..n /\ n # 4 => n >= 5 /\ 5 \in 1..n
      OBVIOUS
    <3>2. 5 - 1 = 4
      OBVIOUS
    <3>3. Len(t) >= 5 /\ 5 \in 1..Len(t)
      BY <1>2, <2>6, <2>10, <3>1
    <3> QED BY <3>2, <3>3
  <2>8. mCmdBuffer[4] = t[5]
    BY <2>7 DEF Held
  <2>9. t[4] \in CmdInfoTable /\ t[5] \in {"?", "="}
    BY <1>4, <2>2, <2>3, <2>4, <2>8
  <2> QED BY <1>1, <2>2, <2>7, <2>9 DEF IsMistake
<1> QED BY <1>3, <1>4

(* What the parser makes of a line that says what is meant.                  *)
ReadAsMeant(text) ==
    \/ /\ text.form = "get" /\ text.name \in CmdInfoTable /\ ReadsAs(text.name, "?")
    \/ /\ text.form = "set" /\ text.name \in CmdInfoTable /\ ReadsAs(text.name, "=")
       /\ Parsed.args = text.args /\ Separable(text.args)
       /\ text.name \in Regs => AreWords(text.args)
    \/ /\ text.form = "raw" /\ text.kind = "hello"
       /\ Parsed.headed /\ ~Parsed.command
       /\ mCmdBuffer[2] = "\r" /\ mCmdBuffer[3] = "\n"
    \/ /\ text.form = "raw" /\ text.kind = "mistake"
       /\ ~(Parsed.headed /\ ~Parsed.command /\ mCmdBuffer[2] = "\r" /\ mCmdBuffer[3] = "\n")
       /\ ~(/\ Parsed.headed /\ Parsed.command
            /\ Parsed.name \in CmdInfoTable /\ Parsed.mark \in {"?", "="})

(* Such a line is read as it is meant.                                       *)
LEMMA LineRead ==
    ASSUME PlainNames, IsMeant, TerminalInv, LineInv, mode = "parse"
    PROVE  ReadAsMeant(TheLine)
<1> DEFINE text == TheLine
           t == Tokens(text)
<1>1. text \in Lines /\ TypedLine = t
  BY TheLineIs
<1>2. WellMeant(text)
  BY DEF IsMeant
<1>3. Fits
  BY <1>1, <1>2 DEF WellMeant, Fits
<1>4. Held(t)
  BY <1>1, <1>3, LineHeld
<1>5. t \in Seq(STRING) /\ Ended(t)
  BY <1>1, TypedIs DEF Ended
<1> HIDE DEF text, t
<1>6. "?" \in CmdEnds /\ "=" \in CmdEnds
  BY DEF CmdEnds
<1>7. CASE text.form = "get" /\ text.name \in CmdInfoTable
  <2>1. Begins(t, text.name, "?")
    BY <1>7, GetBegins DEF t
  <2>2. text.name \notin CmdEnds
    BY <1>7, TableNames
  <2>3. ReadsAs(text.name, "?")
    BY <1>4, <1>6, <2>1, <2>2, CommandRead
  <2> QED BY <1>7, <2>3 DEF ReadAsMeant, text
<1>8. CASE /\ text.form = "set" /\ text.name \in CmdInfoTable /\ Separable(text.args)
           /\ text.name \in Regs => AreWords(text.args)
  <2>1. Begins(t, text.name, "=")
    BY <1>8, SetBegins DEF t
  <2>2. text.name \notin CmdEnds
    BY <1>8, TableNames
  <2>3. ReadsAs(text.name, "=")
    BY <1>4, <1>6, <2>1, <2>2, CommandRead
  <2>4. Parsed.end = 4
    BY <2>3 DEF ReadsAs
  <2>5. Parsed.args = text.args
    BY <1>4, <1>8, <2>4, ArgsRead DEF t
  <2> QED BY <1>8, <2>3, <2>5 DEF ReadAsMeant, text
<1>9. CASE text.form = "raw" /\ text.kind = "hello" /\ t = <<"X", "L", "\r", "\n">>
  <2>1. /\ Parsed.headed /\ ~Parsed.command
        /\ mCmdBuffer[2] = "\r" /\ mCmdBuffer[3] = "\n"
    BY <1>4, <1>9, HelloRead
  <2> QED BY <1>9, <2>1 DEF ReadAsMeant, text
<1>10. CASE text.form = "raw" /\ text.kind = "mistake" /\ IsMistake(t)
  <2>1. Parsed.headed =>
           /\ ~Parsed.command => ~(mCmdBuffer[2] = "\r" /\ mCmdBuffer[3] = "\n")
           /\ Parsed.command =>
                ~(Parsed.name \in CmdInfoTable /\ Parsed.mark \in {"?", "="})
    BY <1>4, <1>5, <1>10, MistakeRead
  <2> QED BY <1>10, <2>1 DEF ReadAsMeant, text
<1> QED BY <1>2, <1>7, <1>8, <1>9, <1>10 DEF WellMeant, t

(* What is read as a command was meant as one.                               *)
LEMMA CommandMeant ==
    ASSUME PlainNames, IsMeant, TerminalInv, LineInv, mode = "parse",
           HasCommand(Parsed), Parsed.name \in CmdInfoTable,
           Parsed.mark = "?" \/ Parsed.mark = "="
    PROVE  /\ TheLine.name = Parsed.name
           /\ Parsed.mark = "?" => TheLine.form = "get"
           /\ Parsed.mark = "=" =>
                /\ TheLine.form = "set" /\ Parsed.args = TheLine.args
                /\ Separable(TheLine.args)
                /\ TheLine.name \in Regs => AreWords(TheLine.args)
<1> DEFINE text == TheLine
<1>1. ReadAsMeant(text)
  BY LineRead
<1>2. Parsed.headed /\ Parsed.command
  BY DEF HasCommand
<1> HIDE DEF text
<1>3. \/ /\ text.form = "get" /\ ReadsAs(text.name, "?")
      \/ /\ text.form = "set" /\ ReadsAs(text.name, "=")
         /\ Parsed.args = text.args /\ Separable(text.args)
         /\ text.name \in Regs => AreWords(text.args)
  BY <1>1, <1>2 DEF ReadAsMeant
<1>4. CASE text.form = "get" /\ ReadsAs(text.name, "?")
  <2>1. Parsed.name = text.name /\ Parsed.mark = "?"
    BY <1>4 DEF ReadsAs
  <2> QED BY <1>4, <2>1 DEF text
<1>5. CASE ReadsAs(text.name, "=")
  <2>1. Parsed.name = text.name /\ Parsed.mark = "="
    BY <1>5 DEF ReadsAs
  <2>2. /\ text.form = "set" /\ Parsed.args = text.args /\ Separable(text.args)
        /\ text.name \in Regs => AreWords(text.args)
    <3>1. ~ReadsAs(text.name, "?")
      BY <2>1 DEF ReadsAs
    <3> QED BY <1>3, <3>1
  <2> QED BY <2>1, <2>2 DEF text
<1> QED BY <1>3, <1>4, <1>5

(* What is meant by a command.                                               *)
LEMMA Means ==
    ASSUME PlainNames, NEW text
    PROVE  LET cmd == Meaning(text) IN
           /\ text.form = "raw" => cmd.kind = text.kind
           /\ text.form = "get" /\ text.name = "SEL" => cmd.kind = "selected"
           /\ text.form = "set" /\ text.name = "SEL" => cmd.kind = "select"
           /\ text.form \in {"get", "set"} /\ text.name \in Regs => cmd.kind = text.form
           /\ text.form = "get" /\ text.name = "PING" => cmd.kind = "ping"
           /\ text.form = "set" /\ text.name = "PING" => cmd.kind = "other"
           /\ text.form \in {"get", "set"} /\ text.name = "XBAUD" => cmd.kind = "other"
           /\ text.form = "set" =>
                cmd.args = [n \in 1..Len(text.args) |-> ToInt(text.args[n])]
<1> DEFINE kind == CASE text.name = "SEL" /\ text.form = "set" -> "select"
                     [] text.name = "SEL" /\ text.form = "get" -> "selected"
                     [] text.name \in Regs -> text.form
                     [] text.name = "PING" /\ text.form = "get" -> "ping"
                     [] OTHER -> "other"
           cmd == Meaning(text)
<1>1. /\ "SEL" \notin Regs /\ "PING" \notin Regs /\ "XBAUD" \notin Regs
  BY DEF PlainNames
<1>2. text.form = "raw" => cmd.kind = text.kind
  BY DEF Meaning
<1>3. text.form # "raw" => cmd.kind = kind
  BY DEF Meaning
<1>4. text.form = "set" => cmd.args = [n \in 1..Len(text.args) |-> ToInt(text.args[n])]
  BY DEF Meaning
<1> HIDE DEF cmd
<1>5. text.form = "get" /\ text.name = "SEL" => kind = "selected"
  BY <1>1
<1>6. text.form = "set" /\ text.name = "SEL" => kind = "select"
  BY <1>1
<1>7. text.form \in {"get", "set"} /\ text.name \in Regs => kind = text.form
  <2>1. text.name \in Regs => text.name # "SEL" /\ text.name # "PING"
    BY <1>1
  <2> QED BY <2>1
<1>8. text.form = "get" /\ text.name = "PING" => kind = "ping"
  BY <1>1
<1>9. text.form = "set" /\ text.name = "PING" => kind = "other"
  BY <1>1
<1>10. text.form \in {"get", "set"} /\ text.name = "XBAUD" => kind = "other"
  BY <1>1
<1> HIDE DEF kind
<1>11. \A f \in {"get", "set"} : f # "raw"
  OBVIOUS
<1> QED BY <1>2, <1>3, <1>4, <1>5, <1>6, <1>7, <1>8, <1>9, <1>10, <1>11 DEF cmd
-----------------------------------------------------------------------------
(* What a user sees of the selection.                                        *)
Selection == SubSeq(mSelectIds, 1, mSelectSize)

(* A step that nobody sees, or the reply to the line that a session expects. *)
Kept == [Promise!Next]_<<Selection, log>>

(* It is seen when log and selection change.                                 *)
LEMMA Unseen ==
    ASSUME UNCHANGED <<mSelectIds, mSelectSize, log>>
    PROVE  Kept
BY DEF Kept, Selection

(* A reply that is right is a step of the session.                           *)
LEMMA RightReply ==
    ASSUME TerminalInv, NEW said, NEW values, Reply(said, values),
           Promise!Handle(TheLine, [said |-> said, values |-> values])
    PROVE  Kept
<1> DEFINE reply == [said |-> said, values |-> values]
           entry == [line |-> TheLine, reply |-> reply]
<1>1. log' = Append(log, entry)
  BY DEF Reply, TheLine
<1>2. entry.line = TheLine /\ entry.reply = reply
  OBVIOUS
<1>3. Promise!Handle(entry.line, entry.reply)
  BY <1>2
<1> HIDE DEF entry, reply
<1>4. PICK S : log \in Seq(S)
  BY DEF TerminalInv
<1>5. log \in Seq(S \cup {entry}) /\ entry \in S \cup {entry}
  BY <1>4
<1>6. /\ Len(log) \in Nat /\ Len(log') = Len(log) + 1 /\ log' \in Seq(S \cup {entry})
      /\ log'[Len(log) + 1] = entry
      /\ \A i \in 1..Len(log) : log'[i] = log[i]
  BY <1>1, <1>5, AppendProperties, LenProperties
<1>7. SubSeq(log', 1, Len(log)) = log
  <2>1. /\ 1 \in Int /\ Len(log) \in Int
        /\ \A i \in 1..Len(log) : log'[i] \in S \cup {entry}
    BY <1>5, <1>6, ElementOfSeq
  <2> DEFINE s == SubSeq(log', 1, Len(log))
  <2>2. /\ s \in Seq(S \cup {entry})
        /\ Len(s) = (IF 1 <= Len(log) THEN Len(log) - 1 + 1 ELSE 0)
        /\ \A i \in 1..(Len(log) - 1 + 1) : s[i] = log'[1 + i - 1]
    BY <2>1, SubSeqProperties
  <2> HIDE DEF s
  <2>3. Len(s) = Len(log) /\ \A i \in 1..Len(log) : s[i] = log[i]
    BY <1>6, <2>2
  <2>4. s = log
    BY <1>5, <2>2, <2>3, SeqEqual
  <2> QED BY <2>4 DEF s
<1>8. Promise!Last(log') = entry
  BY <1>6 DEF Promise!Last
<1>9. Promise!Next
  BY <1>3, <1>6, <1>7, <1>8 DEF Promise!Next
<1> QED BY <1>9 DEF Kept

(* What the reply to a line must be.                                         *)
LEMMA HandleIs ==
    ASSUME NEW text, NEW said, NEW values,
           Selection' = IF Meaning(text).kind = "select"
                        THEN [i \in 1..Len(Meaning(text).args) |-> Meaning(text).args[i] % 256]
                        ELSE Selection,
           said = Promise!Says(Meaning(text).kind),
           Promise!Right(Meaning(text), values, Selection')
    PROVE  Promise!Handle(text, [said |-> said, values |-> values])
<1> DEFINE reply == [said |-> said, values |-> values]
<1>1. reply.said = said /\ reply.values = values
  OBVIOUS
<1> HIDE DEF reply
<1> QED BY <1>1 DEF Promise!Handle, Selection, reply

(* What a session says.                                                      *)
LEMMA SaysIs ==
    /\ Promise!Says("hello") = "OK" /\ Promise!Says("mistake") = "error"
    /\ \A kind : kind # "hello" /\ kind # "mistake" => Promise!Says(kind) = "values"
<1>1. Promise!Says("hello") = "OK"
  BY DEF Promise!Says
<1>2. Promise!Says("mistake") = "error"
  BY DEF Promise!Says
<1>3. ASSUME NEW kind, kind # "hello", kind # "mistake" PROVE Promise!Says(kind) = "values"
  BY <1>3 DEF Promise!Says
<1> QED BY <1>1, <1>2, <1>3

(* What a session expects to be shown.                                       *)
LEMMA RightIs ==
    ASSUME NEW cmd, NEW values, NEW chosen,
           \/ cmd.kind \in {"hello", "mistake", "other"}
           \/ cmd.kind = "get" /\ Len(values) = Len(chosen)
              /\ \A i \in 1..Len(values) : values[i] \in ShownFor(chosen[i])
           \/ cmd.kind = "set" /\ Len(values) = Len(chosen)
              /\ \A i \in 1..Len(values) : i <= Len(cmd.args) => values[i] = cmd.args[i]
           \/ cmd.kind \in {"select", "selected"} /\ values = chosen
           \/ cmd.kind = "ping" /\ ToSet(values) \subseteq ToSet(Chain)
    PROVE  Promise!Right(cmd, values, chosen)
<1>1. CASE cmd.kind \in {"hello", "mistake", "other"}
  BY <1>1 DEF Promise!Right
<1>2. CASE cmd.kind = "get" /\ Len(values) = Len(chosen)
              /\ \A i \in 1..Len(values) : values[i] \in ShownFor(chosen[i])
  BY <1>2 DEF Promise!Right
<1>3. CASE cmd.kind = "set" /\ Len(values) = Len(chosen)
              /\ \A i \in 1..Len(values) : i <= Len(cmd.args) => values[i] = cmd.args[i]
  BY <1>3 DEF Promise!Right
<1>4. CASE cmd.kind \in {"select", "selected"} /\ values = chosen
  BY <1>4 DEF Promise!Right
<1>5. CASE cmd.kind = "ping" /\ ToSet(values) \subseteq ToSet(Chain)
  <2>1. Promise!ToSet(values) = ToSet(values)
    BY DEF Promise!ToSet, ToSet
  <2> QED BY <1>5, <2>1 DEF Promise!Right
<1> QED BY <1>1, <1>2, <1>3, <1>4, <1>5

(* A command that has nothing to show or to choose, or an error.             *)
LEMMA PlainReply ==
    ASSUME TerminalInv, NEW said, NEW values, Reply(said, values),
           UNCHANGED <<mSelectIds, mSelectSize>>,
           \/ Meaning(TheLine).kind = "hello" /\ said = "OK"
           \/ Meaning(TheLine).kind = "mistake" /\ said = "error"
           \/ Meaning(TheLine).kind = "other" /\ said = "values"
           \/ Meaning(TheLine).kind = "selected" /\ said = "values" /\ values = Selection
    PROVE  Kept
<1> DEFINE kind == Meaning(TheLine).kind
<1>1. Selection' = Selection
  BY DEF Selection
<1>2. kind \in {"hello", "mistake", "other", "selected"}
  OBVIOUS
<1>3. kind # "select"
  BY <1>2
<1>4. said = Promise!Says(kind)
  BY SaysIs
<1>5. Promise!Right(Meaning(TheLine), values, Selection')
  BY <1>1, RightIs
<1>6. Promise!Handle(TheLine, [said |-> said, values |-> values])
  BY <1>1, <1>3, <1>4, <1>5, HandleIs
<1> QED BY <1>6, RightReply

(* The arguments of a setter are the numbers that were meant.                *)
LEMMA NumbersMeant ==
    ASSUME PlainNames, TheLine.form = "set", Parsed.args = TheLine.args
    PROVE  ToIntList(Parsed.args) = Meaning(TheLine).args
<1>1. Meaning(TheLine).args = [n \in 1..Len(TheLine.args) |-> ToInt(TheLine.args[n])]
  BY Means
<1> QED BY <1>1 DEF ToIntList

(* SEL chooses what it was told to choose.                                   *)
LEMMA SelectKept ==
    ASSUME PlainNames, IsMeant, TerminalInv, LineInv, mode = "parse", SetSelect(Parsed)
    PROVE  Kept
<1> DEFINE numbers == ToIntList(Parsed.args)
           chosen == [n \in 1..Len(numbers) |-> numbers[n] % 256]
           args == Meaning(TheLine).args
<1>1. /\ HasCommand(Parsed) /\ Parsed.name = "SEL" /\ Parsed.mark = "="
      /\ ArgsFit(Parsed.args) /\ selectServo(chosen) /\ Reply("values", chosen)
  BY DEF SetSelect, Setter
<1>2. TheLine.form = "set" /\ TheLine.name = "SEL" /\ Parsed.args = TheLine.args
  <2>1. "SEL" \in CmdInfoTable
    BY DEF CmdInfoTable
  <2> QED BY <1>1, <2>1, CommandMeant
<1>3. Meaning(TheLine).kind = "select" /\ numbers = args
  BY <1>2, Means, NumbersMeant
<1>4. chosen = [i \in 1..Len(args) |-> args[i] % 256]
  BY <1>3
<1>5. chosen \in Seq(Byte) /\ Len(chosen) <= SelectSizeMax /\ Len(chosen) \in Nat
  BY <1>1, SelectedFit, LenProperties
<1> HIDE DEF numbers, chosen, args
<1>6. Selection' = chosen
  <2>1. /\ mSelectSize' = Len(chosen)
        /\ mSelectIds' = [i \in 1..SelectSizeMax |->
                IF i <= Len(chosen) THEN chosen[i] ELSE mSelectIds[i]]
    BY <1>1 DEF selectServo
  <2>2. \A i \in 1..Len(chosen) : i \in 1..SelectSizeMax /\ i <= Len(chosen)
    BY <1>5, SizesAssumption
  <2>3. \A i \in 1..Len(chosen) : mSelectIds'[i] = chosen[i]
    BY <2>1, <2>2
  <2>4. \A i \in 1..Len(chosen) : mSelectIds'[i] \in Byte
    BY <1>5, <2>3, ElementOfSeq
  <2> DEFINE s == SubSeq(mSelectIds', 1, Len(chosen))
  <2>5. 1 \in Int /\ Len(chosen) \in Int
    BY <1>5
  <2>6. /\ s \in Seq(Byte) /\ Len(s) = (IF 1 <= Len(chosen) THEN Len(chosen) - 1 + 1 ELSE 0)
        /\ \A i \in 1..(Len(chosen) - 1 + 1) : s[i] = mSelectIds'[1 + i - 1]
    BY <2>4, <2>5, SubSeqProperties
  <2> HIDE DEF s
  <2>7. Len(s) = Len(chosen) /\ \A i \in 1..Len(chosen) : s[i] = chosen[i]
    BY <1>5, <2>3, <2>6
  <2>8. s = chosen
    BY <1>5, <2>6, <2>7, SeqEqual
  <2> QED BY <2>1, <2>8 DEF Selection, s
<1>7. Promise!Right(Meaning(TheLine), chosen, Selection')
  BY <1>3, <1>6, RightIs
<1>8. Promise!Says(Meaning(TheLine).kind) = "values"
  BY <1>3, SaysIs
<1>9. Selection' = IF Meaning(TheLine).kind = "select"
                   THEN [i \in 1..Len(Meaning(TheLine).args) |->
                            Meaning(TheLine).args[i] % 256]
                   ELSE Selection
  BY <1>3, <1>4, <1>6 DEF args
<1>10. Promise!Handle(TheLine, [said |-> "values", values |-> chosen])
  BY <1>7, <1>8, <1>9, HandleIs
<1> QED BY <1>1, <1>10, RightReply

(* The other lines that are replied to at once.                              *)
LEMMA AtOnceKept ==
    ASSUME PlainNames, IsMeant, TerminalInv, LineInv, mode = "parse", AtOnce(Parsed)
    PROVE  Kept
<1> DEFINE kind == Meaning(TheLine).kind
<1>1. ReadAsMeant(TheLine)
  BY LineRead
<1>2. "XBAUD" \in CmdInfoTable /\ "PING" \in CmdInfoTable /\ "SEL" \in CmdInfoTable
  BY DEF CmdInfoTable
<1>3. CASE NoCommand(Parsed)
  <2> DEFINE said == IF Parsed.headed /\ mCmdBuffer[2] = "\r" /\ mCmdBuffer[3] = "\n"
                     THEN "OK" ELSE "error"
  <2>1. /\ ~(Parsed.headed /\ Parsed.command) /\ Reply(said, <<>>)
        /\ UNCHANGED <<mSelectIds, mSelectSize>>
    BY <1>3 DEF NoCommand, vars, selectVars
  <2>2. /\ TheLine.form = "raw"
        /\ \/ TheLine.kind = "hello" /\ said = "OK"
           \/ TheLine.kind = "mistake" /\ said = "error"
    BY <1>1, <2>1 DEF ReadAsMeant, ReadsAs
  <2>3. kind = TheLine.kind
    BY <2>2, Means
  <2> HIDE DEF said
  <2> QED BY <2>1, <2>2, <2>3, PlainReply
<1>4. CASE Refuse(Parsed)
  <2>1. /\ HasCommand(Parsed)
        /\ ~(Parsed.name \in CmdInfoTable /\ Parsed.mark \in {"?", "="})
        /\ Reply("error", <<>>) /\ UNCHANGED <<mSelectIds, mSelectSize>>
    BY <1>4 DEF Refuse, vars, selectVars
  <2>2. TheLine.form = "raw" /\ TheLine.kind = "mistake"
    BY <1>1, <2>1 DEF ReadAsMeant, ReadsAs, HasCommand
  <2>3. kind = "mistake"
    BY <2>2, Means
  <2> QED BY <2>1, <2>3, PlainReply
<1>5. CASE GetXBaud(Parsed)
  <2>1. /\ HasCommand(Parsed) /\ Parsed.name = "XBAUD" /\ Parsed.mark = "?"
        /\ Reply("values", <<mXlSerialBaudRate>>) /\ UNCHANGED <<mSelectIds, mSelectSize>>
    BY <1>5 DEF GetXBaud, Getter, vars, selectVars
  <2>2. TheLine.form = "get" /\ TheLine.name = "XBAUD"
    BY <1>2, <2>1, CommandMeant
  <2>3. kind = "other"
    BY <2>2, Means
  <2> QED BY <2>1, <2>3, PlainReply
<1>6. CASE SetXBaud(Parsed)
  <2>1. PICK br : /\ HasCommand(Parsed) /\ Parsed.name = "XBAUD" /\ Parsed.mark = "="
                  /\ Reply("values", <<br>>) /\ UNCHANGED <<mSelectIds, mSelectSize>>
    BY <1>6 DEF SetXBaud, Setter, setXlBaudRate, selectVars
  <2>2. TheLine.form = "set" /\ TheLine.name = "XBAUD"
    BY <1>2, <2>1, CommandMeant
  <2>3. kind = "other"
    BY <2>2, Means
  <2> QED BY <2>1, <2>3, PlainReply
<1>7. CASE SetPing(Parsed)
  <2>1. /\ HasCommand(Parsed) /\ Parsed.name = "PING" /\ Parsed.mark = "="
        /\ Reply("values", <<>>) /\ UNCHANGED <<mSelectIds, mSelectSize>>
    BY <1>7 DEF SetPing, vars, selectVars
  <2>2. TheLine.form = "set" /\ TheLine.name = "PING"
    BY <1>2, <2>1, CommandMeant
  <2>3. kind = "other"
    BY <2>2, Means
  <2> QED BY <2>1, <2>3, PlainReply
<1>8. CASE GetSelect(Parsed)
  <2>1. /\ HasCommand(Parsed) /\ Parsed.name = "SEL" /\ Parsed.mark = "?"
        /\ Reply("values", Selection) /\ UNCHANGED <<mSelectIds, mSelectSize>>
    BY <1>8 DEF GetSelect, Getter, vars, selectVars, Selection
  <2>2. TheLine.form = "get" /\ TheLine.name = "SEL"
    BY <1>2, <2>1, CommandMeant
  <2>3. kind = "selected"
    BY <2>2, Means
  <2> QED BY <2>1, <2>3, PlainReply
<1>9. CASE SetSelect(Parsed)
  BY <1>9, SelectKept
<1> QED BY <1>3, <1>4, <1>5, <1>6, <1>7, <1>8, <1>9 DEF AtOnce

(* The controller is asked for what the line is about, and what push is      *)
(* given is what the line says.                                              *)
Asks ==
    LET meant == Meaning(TheLine) IN
    \/ call.op = "ping" /\ meant.kind = "ping"
    \/ call.op = "pull" /\ call.reg \in Regs /\ meant.kind = "get"
    \/ /\ call.op = "push" /\ meant.kind = "set" /\ Len(argv) = mSelectSize
       /\ \A i \in 1..mSelectSize : i <= Len(meant.args) => argv[i] = meant.args[i]

(* It has a value for each selected servo, and only servos answer.           *)
Sized == pc # "receive" /\ call.op = "pull" => Len(returnVector) = mSelectSize
OfChain == ToSet(answered) \subseteq ToSet(Chain)

AskInv == (mode = "wait" => Asks /\ Sized) /\ OfChain

(* The call that starts is known by its operation.                           *)
LEMMA CallStarts ==
    ASSUME NEW op, NEW reg, Call(op, reg)
    PROVE  /\ call' = [op |-> op, reg |-> reg] /\ pc' = "receive"
           /\ UNCHANGED <<mSelectIds, mSelectSize>>
BY DEF Call, Send, selectVars

(* How many arguments, and which numbers are words.                          *)
LEMMA ArgsCount == ASSUME NEW args, Separable(args) PROVE Len(args) \in Nat
BY LenProperties DEF Separable

(* A word is kept by the 16 bits of an argument of push.                     *)
LEMMA WordsAre ==
    ASSUME NEW args, AreWords(args), NEW i \in 1..Len(args)
    PROVE  ToInt(args[i]) \in Nat /\ ToInt(args[i]) % 65536 = ToInt(args[i])
<1>1. ToInt(args[i]) \in Nat /\ ToInt(args[i]) < 65536
  BY DEF AreWords
<1>2. \A x \in Nat : x < 65536 => (x % 65536) = x
  OBVIOUS
<1> QED BY <1>1, <1>2

(* The values that push is given.                                            *)
LEMMA WordsPass ==
    ASSUME PlainNames, TheLine.form = "set", Parsed.args = TheLine.args,
           Separable(TheLine.args), AreWords(TheLine.args), mSelectSize \in Nat,
           NEW given, given = [i \in 1..mSelectSize |->
                IF i <= Len(ToIntList(Parsed.args)) THEN ToIntList(Parsed.args)[i] % 65536
                ELSE Uninitialised]
    PROVE  LET args == Meaning(TheLine).args IN
           /\ Len(given) = mSelectSize
           /\ \A i \in 1..mSelectSize : i <= Len(args) => given[i] = args[i]
<1> DEFINE args == Meaning(TheLine).args
           n == Len(TheLine.args)
<1>1. n \in Nat
  BY ArgsCount
<1>2. args = [i \in 1..n |-> ToInt(TheLine.args[i])]
  BY Means
<1>3. ToIntList(Parsed.args) = args
  BY NumbersMeant
<1> HIDE DEF args
<1>4. ASSUME NEW i \in 1..n PROVE args[i] % 65536 = args[i]
  <2>1. args[i] = ToInt(TheLine.args[i])
    BY <1>2, <1>4
  <2> QED BY <1>4, <2>1, WordsAre DEF n
<1> HIDE DEF n
<1>5. Len(args) = n
  BY <1>1, <1>2
<1>6. Len(given) = mSelectSize
  BY <1>3
<1>7. ASSUME NEW i \in 1..mSelectSize, i <= Len(args) PROVE given[i] = args[i]
  <2>1. i \in 1..n
    BY <1>1, <1>5, <1>7
  <2>2. given[i] = args[i] % 65536
    BY <1>3, <1>7
  <2> QED BY <1>4, <2>1, <2>2
<1> QED BY <1>6, <1>7 DEF args

(* A line that calls the controller.                                         *)
LEMMA CallsAsk ==
    ASSUME PlainNames, IsMeant, RxInv, TerminalInv, LineInv, mode = "parse", Calls(Parsed)
    PROVE  (Asks /\ Sized)' /\ Kept
<1> DEFINE meant == Meaning(TheLine)
           numbers == ToIntList(Parsed.args)
<1>1. UNCHANGED <<typed, log>>
  BY CallsController
<1>2. TheLine' = TheLine /\ Meaning(TheLine)' = Meaning(TheLine)
  BY <1>1 DEF TheLine, Meaning, ToInt
<1>3. mSelectSize \in Nat
  BY SizesAssumption DEF RxInv, TypeOK
<1>4. CASE GetPing(Parsed)
  <2>1. /\ HasCommand(Parsed) /\ Parsed.name = "PING" /\ Parsed.mark = "?"
    BY <1>4 DEF GetPing, Getter
  <2>2. PICK reg : Call("ping", reg)
    BY <1>4 DEF GetPing, CallController
  <2>3. TheLine.form = "get" /\ TheLine.name = "PING"
    <3>1. "PING" \in CmdInfoTable
      BY DEF CmdInfoTable
    <3> QED BY <2>1, <3>1, CommandMeant
  <2>4. meant.kind = "ping"
    BY <2>3, Means
  <2>5. call'.op = "ping" /\ pc' = "receive" /\ UNCHANGED <<mSelectIds, mSelectSize>>
    BY <2>2, CallStarts
  <2>6. Kept
    BY <1>1, <2>5, Unseen
  <2> QED BY <1>2, <2>4, <2>5, <2>6 DEF Asks, Sized
<1>5. CASE GetReg(Parsed)
  <2>1. PICK reg \in Regs : /\ HasCommand(Parsed) /\ Parsed.name = reg /\ Parsed.mark = "?"
                            /\ Call("pull", reg)
    BY <1>5 DEF GetReg, Getter, CallController
  <2>2. TheLine.form = "get" /\ TheLine.name \in Regs
    <3>1. reg \in CmdInfoTable
      BY DEF CmdInfoTable
    <3> QED BY <2>1, <3>1, CommandMeant
  <2>3. meant.kind = "get"
    BY <2>2, Means
  <2>4. /\ call'.op = "pull" /\ call'.reg \in Regs /\ pc' = "receive"
        /\ UNCHANGED <<mSelectIds, mSelectSize>>
    BY <2>1, CallStarts
  <2>5. Kept
    BY <1>1, <2>4, Unseen
  <2> QED BY <1>2, <2>3, <2>4, <2>5 DEF Asks, Sized
<1>6. CASE SetReg(Parsed)
  <2>1. PICK reg \in Regs :
            /\ HasCommand(Parsed) /\ Parsed.name = reg /\ Parsed.mark = "="
            /\ Call("push", reg)
            /\ argv' = [i \in 1..mSelectSize |->
                    IF i <= Len(numbers) THEN numbers[i] % 65536 ELSE Uninitialised]
    BY <1>6 DEF SetReg, Setter, CallController
  <2>2. /\ TheLine.form = "set" /\ TheLine.name \in Regs /\ Parsed.args = TheLine.args
        /\ Separable(TheLine.args) /\ AreWords(TheLine.args)
    <3>1. reg \in CmdInfoTable
      BY DEF CmdInfoTable
    <3> QED BY <2>1, <3>1, CommandMeant
  <2>3. meant.kind = "set"
    BY <2>2, Means
  <2>4. call'.op = "push" /\ pc' = "receive" /\ UNCHANGED <<mSelectIds, mSelectSize>>
    BY <2>1, CallStarts
  <2>5. /\ Len(argv') = mSelectSize
        /\ \A i \in 1..mSelectSize : i <= Len(meant.args) => argv'[i] = meant.args[i]
    BY <1>3, <2>1, <2>2, WordsPass
  <2>6. Kept
    BY <1>1, <2>4, Unseen
  <2> QED BY <1>2, <2>3, <2>4, <2>5, <2>6 DEF Asks, Sized
<1> QED BY <1>4, <1>5, <1>6 DEF Calls
-----------------------------------------------------------------------------
(* Who answers a call is on the line.                                        *)
LEMMA AnswersOfChain == ASSUME NEW who PROVE ToSet(InOrder(who)) \subseteq ToSet(Chain)
<1> DEFINE s == InOrder(who)
<1>1. Named(s, Len(Chain), who)
  BY NamesAre
<1> HIDE DEF s
<1>2. \A j \in 1..Len(s) : \E i \in 1..Len(Chain) : s[j] = Chain[i]
  BY <1>1 DEF Named
<1>3. s \in Seq(0..252) /\ Chain \in Seq(0..252)
  BY <1>1, LineAssumption DEF Named
<1>4. ToSet(s) \subseteq ToSet(Chain)
  <2>1. DOMAIN s = 1..Len(s) /\ DOMAIN Chain = 1..Len(Chain)
    BY <1>3, LenProperties
  <2> QED BY <1>2, <2>1 DEF ToSet
<1> QED BY <1>4 DEF s

(* And nobody else does.                                                     *)
LEMMA ChainStays ==
    ASSUME OfChain, \/ UNCHANGED answered
                    \/ \E op, reg : Call(op, reg)
    PROVE  OfChain'
<1>1. CASE UNCHANGED answered
  BY <1>1 DEF OfChain
<1>2. ASSUME NEW op, NEW reg, Call(op, reg) PROVE OfChain'
  <2>1. PICK who : answered' = InOrder(who) \/ answered' = <<>>
    BY <1>2 DEF Call, Send
  <2>2. ToSet(<<>>) = {}
    BY EmptySeq DEF ToSet
  <2> QED BY <2>1, <2>2, AnswersOfChain DEF OfChain
<1> QED BY <1>1, <1>2

(* The controller does what it was asked, and pull keeps its size.           *)
LEMMA StepAsks ==
    ASSUME RxInv, AskInv, mode = "wait", (Arrive \/ Step), UNCHANGED machineVars
    PROVE  (Asks /\ Sized)'
<1>1. call' = call /\ UNCHANGED <<mSelectSize, mSelectIds, argv, typed, log>>
  BY OpStays DEF Arrive, Step, ReceiveRound, ReceiveEnds, Parse, SkipBytes, TakePacket,
       Return, ParseElsewhere, selectVars, machineVars
<1>2. Asks /\ Sized
  BY DEF AskInv
<1>3. Asks'
  <2>1. TheLine' = TheLine /\ Meaning(TheLine)' = Meaning(TheLine)
    BY <1>1 DEF TheLine, Meaning, ToInt
  <2> QED BY <1>1, <1>2, <2>1 DEF Asks
<1>4. mSelectSize \in Nat
  BY SizesAssumption DEF RxInv, TypeOK
<1>5. ASSUME pc' # "receive", call.op = "pull" PROVE Len(returnVector') = mSelectSize
  <2>1. CASE ReceiveEnds
    <3>1. returnVector' = [i \in 1..mSelectSize |-> NoAnswer]
      BY <1>5, <2>1 DEF ReceiveEnds
    <3> QED BY <1>4, <3>1
  <2>2. CASE UNCHANGED returnVector /\ pc # "receive"
    BY <1>2, <1>5, <2>2 DEF Sized
  <2>3. ASSUME NEW id, NEW value, TakeStatus(id, value), pc # "receive"
        PROVE  Len(returnVector') = mSelectSize
    <3>1. \/ UNCHANGED returnVector
          \/ returnVector' = [i \in 1..mSelectSize |->
                IF FirstIndex(id, i) THEN value ELSE returnVector[i]]
      BY <2>3 DEF TakeStatus
    <3> QED BY <1>4, <2>2, <2>3, <3>1
  <2>4. Arrive \/ ReceiveRound => UNCHANGED <<returnVector, pc>>
    BY DEF Arrive, ReceiveRound, resultVars
  <2>5. ASSUME NEW beyond, SkipBytes(beyond) \/ Return(beyond)
        PROVE  UNCHANGED returnVector /\ pc # "receive"
    BY <2>5 DEF SkipBytes, Return, resultVars
  <2>6. ASSUME NEW beyond, TakePacket(beyond)
        PROVE  pc # "receive" /\ (UNCHANGED returnVector
                                  \/ \E id, value : TakeStatus(id, value))
    BY <2>6 DEF TakePacket, resultVars
  <2>7. ParseElsewhere => pc # "receive" /\ (UNCHANGED returnVector
                                  \/ \E id, value : TakeStatus(id, value))
    BY DEF ParseElsewhere, resultVars
  <2> QED BY <1>5, <2>1, <2>2, <2>3, <2>4, <2>5, <2>6, <2>7 DEF Step, Parse
<1> QED BY <1>1, <1>3, <1>5 DEF Sized

(* Step by step.                                                             *)
LEMMA NextAsk ==
    ASSUME PlainNames, IsMeant, MachineInv, LineInv, AskInv, [MachineNext]_allVars
    PROVE  AskInv'
<1>0. RxInv /\ TerminalInv /\ OfChain
  BY DEF MachineInv, AskInv
<1>1. CASE UNCHANGED allVars
  <2>1. UNCHANGED <<mode, pc, call, argv, mSelectSize, typed, log, returnVector, answered>>
    BY <1>1 DEF allVars, machineVars, vars, history, resultVars, selectVars
  <2>2. TheLine' = TheLine /\ Meaning(TheLine)' = Meaning(TheLine)
    BY <2>1 DEF TheLine, Meaning, ToInt
  <2> QED BY <2>1, <2>2 DEF AskInv, Asks, Sized, OfChain
<1>2. CASE Setup
  <2>1. mode' = mode /\ typed = <<>> /\ UNCHANGED answered
    BY <1>2 DEF Setup, machineVars, setXlBaudRate, history
  <2>2. mode # "wait"
    <3> SUFFICES ASSUME mode = "wait" PROVE FALSE
      OBVIOUS
    <3>1. Len(typed) = Len(log) + 1 /\ Len(log) \in Nat
      BY <1>0, LenProperties DEF TerminalInv
    <3> QED BY <2>1, <3>1, EmptySeq
  <2> QED BY <1>0, <2>1, <2>2, ChainStays DEF AskInv
<1>3. CASE mode # "lost" /\ (Arrive \/ Step) /\ UNCHANGED machineVars
  <2>1. mode' = mode /\ UNCHANGED answered
    BY <1>3 DEF machineVars, Arrive, Step, ReceiveRound, ReceiveEnds, Parse, SkipBytes,
                TakePacket, Return, ParseElsewhere, history
  <2>2. mode = "wait" => (Asks /\ Sized)'
    BY <1>0, <1>3, StepAsks
  <2> QED BY <1>0, <2>1, <2>2, ChainStays DEF AskInv
<1>4. CASE ParseLine
  <2>1. mode = "parse" /\ (AtOnce(Parsed) \/ Calls(Parsed) \/ ParsePast(Parsed))
    BY <1>4 DEF ParseLine, AtOnce, Calls
  <2>2. CASE AtOnce(Parsed)
    <3>1. mode' = "loop"
      BY <1>0, <2>1, <2>2, AtOnceReplies DEF TerminalInv
    <3>2. UNCHANGED answered
      BY <2>2 DEF AtOnce, NoCommand, Refuse, GetXBaud, SetXBaud, SetPing, GetSelect,
                  SetSelect, setXlBaudRate, selectServo, vars, history
    <3> QED BY <1>0, <3>1, <3>2, ChainStays DEF AskInv
  <2>3. CASE Calls(Parsed)
    <3>1. (Asks /\ Sized)'
      BY <1>0, <2>1, <2>3, CallsAsk
    <3>2. \E op, reg : Call(op, reg)
      BY <2>3, CallsController
    <3> QED BY <1>0, <3>1, <3>2, ChainStays DEF AskInv
  <2>4. CASE ParsePast(Parsed)
    <3>1. mode' = "lost" /\ UNCHANGED answered
      BY <2>4 DEF ParsePast, vars, history
    <3> QED BY <1>0, <3>1, ChainStays DEF AskInv
  <2> QED BY <2>1, <2>2, <2>3, <2>4
<1>5. CASE ReadChar \/ ReplyToCall \/ PingPast \/ \E text \in Lines : Type(text)
  <2>1. mode' # "wait" /\ UNCHANGED answered
    BY <1>5 DEF ReadChar, ReplyToCall, PingPast, Type, vars, history
  <2> QED BY <1>0, <2>1, ChainStays DEF AskInv
<1> QED BY <1>1, <1>2, <1>3, <1>4, <1>5 DEF MachineNext, Loop, Rest, Lost

(* The reply to a call shows what the line asked for.                        *)
LEMMA ReplyKept ==
    ASSUME PlainNames, MachineInv, ReturnInv, AskInv, ReplyToCall,
           fresh, ~noisy, ~Overrun
    PROVE  Kept
<1> DEFINE meant == Meaning(TheLine)
<1>0. /\ TerminalInv /\ mSelectSize \in Nat
      /\ mSelectIds \in [1..SelectSizeMax -> Byte] /\ mSelectSize \in 0..SelectSizeMax
  BY SizesAssumption DEF MachineInv, RxInv, TypeOK
<1>1. mode = "wait" /\ pc = "idle" /\ UNCHANGED <<mSelectIds, mSelectSize>>
  BY DEF ReplyToCall, ControllerReturned, vars, selectVars
<1>2. Shows /\ Asks /\ Sized /\ OfChain
  BY <1>1 DEF ReturnInv, AskInv
<1>3. Selection' = Selection
  BY <1>1 DEF Selection
<1>4. Len(Selection) = mSelectSize
      /\ \A i \in 1..mSelectSize : Selection[i] = mSelectIds[i]
  <2>1. 1 \in Int /\ mSelectSize \in Int
        /\ \A i \in 1..mSelectSize : mSelectIds[i] \in Byte
    <3>1. SelectSizeMax \in Nat
      BY SizesAssumption
    <3>2. \A i \in 1..mSelectSize : i \in 1..SelectSizeMax
      BY <1>0, <3>1
    <3> QED BY <1>0, <3>2
  <2> DEFINE s == SubSeq(mSelectIds, 1, mSelectSize)
  <2>2. /\ Len(s) = (IF 1 <= mSelectSize THEN mSelectSize - 1 + 1 ELSE 0)
        /\ \A i \in 1..(mSelectSize - 1 + 1) : s[i] = mSelectIds[1 + i - 1]
    BY <2>1, SubSeqProperties
  <2> HIDE DEF s
  <2>3. Len(s) = mSelectSize /\ \A i \in 1..mSelectSize : s[i] = mSelectIds[i]
    BY <1>0, <2>2
  <2> QED BY <2>3 DEF s, Selection
<1>5. ASSUME NEW values, Reply("values", values), meant.kind \in {"ping", "get", "set"},
             Promise!Right(meant, values, Selection')
      PROVE  Kept
  <2>1. "values" = Promise!Says(meant.kind)
    BY <1>5, SaysIs
  <2>2. Selection' = IF meant.kind = "select"
                     THEN [i \in 1..Len(meant.args) |-> meant.args[i] % 256]
                     ELSE Selection
    BY <1>3, <1>5
  <2>3. Promise!Handle(TheLine, [said |-> "values", values |-> values])
    BY <1>5, <2>1, <2>2, HandleIs
  <2> QED BY <1>0, <1>5, <2>3, RightReply
<1>6. CASE call.op = "ping" /\ meant.kind = "ping"
  <2>1. Reply("values", ids)
    BY <1>6 DEF ReplyToCall
  <2>2. ToSet(ids) \subseteq ToSet(Chain)
    BY <1>2, <1>6 DEF Shows, OfChain
  <2>3. Promise!Right(meant, ids, Selection')
    BY <1>6, <2>2, RightIs
  <2> QED BY <1>5, <1>6, <2>1, <2>3
<1>7. CASE call.op = "pull" /\ call.reg \in Regs /\ meant.kind = "get"
  <2>1. Reply("values", returnVector)
    BY <1>7 DEF ReplyToCall
  <2>2. Len(returnVector) = mSelectSize
    BY <1>1, <1>2, <1>7 DEF Sized
  <2>3. \A i \in 1..mSelectSize : returnVector[i] \in {NoAnswer, ValueOf(mSelectIds[i])}
    BY <1>2, <1>7 DEF Shows
  <2>4. ASSUME NEW id PROVE {NoAnswer, ValueOf(id)} \subseteq ShownFor(id)
    BY <1>7 DEF ShownFor, ValueOf
  <2>5. \A i \in 1..mSelectSize : returnVector[i] \in ShownFor(Selection[i])
    BY <1>4, <2>3, <2>4
  <2>6. Promise!Right(meant, returnVector, Selection')
    BY <1>3, <1>4, <1>7, <2>2, <2>5, RightIs
  <2> QED BY <1>5, <1>7, <2>1, <2>6
<1>8. CASE /\ call.op = "push" /\ meant.kind = "set" /\ Len(argv) = mSelectSize
           /\ \A i \in 1..mSelectSize : i <= Len(meant.args) => argv[i] = meant.args[i]
  <2>1. Reply("values", argv)
    BY <1>8 DEF ReplyToCall
  <2>2. Promise!Right(meant, argv, Selection')
    BY <1>3, <1>4, <1>8, RightIs
  <2> QED BY <1>5, <1>8, <2>1, <2>2
<1> QED BY <1>2, <1>6, <1>7, <1>8 DEF Asks

(* A call has returned: it began on a quiet line and did not parse bytes     *)
(* that it had not received.                                                 *)
ReturnsQuietly == ControllerReturned => fresh /\ ~noisy /\ ~Overrun

(* Every step of the terminal is one of the session, or is not seen.         *)
LEMMA NextKept ==
    ASSUME PlainNames, IsMeant, MachineInv, LineInv, ReturnInv, AskInv,
           ReturnsQuietly, [MachineNext]_allVars
    PROVE  Kept
<1>0. RxInv /\ TerminalInv
  BY DEF MachineInv
<1>1. CASE UNCHANGED allVars
  BY <1>1, Unseen DEF allVars, machineVars, vars, selectVars
<1>2. CASE Setup
  BY <1>2, Unseen DEF Setup, setXlBaudRate, machineVars, selectVars
<1>3. CASE (Arrive \/ Step) /\ UNCHANGED machineVars
  BY <1>3, Unseen DEF machineVars, Arrive, Step, ReceiveRound, ReceiveEnds, Parse,
       SkipBytes, TakePacket, Return, ParseElsewhere, selectVars
<1>4. CASE ParseLine
  <2>1. mode = "parse" /\ (AtOnce(Parsed) \/ Calls(Parsed) \/ ParsePast(Parsed))
    BY <1>4 DEF ParseLine, AtOnce, Calls
  <2>2. CASE AtOnce(Parsed)
    BY <1>0, <2>1, <2>2, AtOnceKept
  <2>3. CASE Calls(Parsed)
    BY <1>0, <2>1, <2>3, CallsAsk
  <2>4. CASE ParsePast(Parsed)
    BY <2>4, Unseen DEF ParsePast, vars, selectVars
  <2> QED BY <2>1, <2>2, <2>3, <2>4
<1>5. CASE ReplyToCall
  BY <1>5, ReplyKept DEF ReplyToCall, ReturnsQuietly
<1>6. CASE ReadChar \/ PingPast \/ \E text \in Lines : Type(text)
  BY <1>6, Unseen DEF ReadChar, PingPast, Type, vars, selectVars
<1> QED BY <1>1, <1>2, <1>3, <1>4, <1>5, <1>6 DEF MachineNext, Loop, Rest, Lost

(* It begins with the first servo selected and nothing asked.                *)
LEMMA InitKept == MachineInit => AskInv /\ Promise!Init
<1> SUFFICES ASSUME MachineInit PROVE AskInv /\ Promise!Init
  OBVIOUS
<1>1. /\ mSelectIds = [i \in 1..SelectSizeMax |-> IF i = 1 THEN 1 ELSE 0]
      /\ mSelectSize = 1 /\ log = <<>> /\ mode = "loop" /\ answered = <<>>
  BY DEF MachineInit, Init
<1>2. AskInv
  <2>1. ToSet(<<>>) = {}
    BY EmptySeq DEF ToSet
  <2> QED BY <1>1, <2>1 DEF AskInv, OfChain
<1>3. SubSeq(mSelectIds, 1, 1) = <<1>>
  <2>1. 1 \in 1..SelectSizeMax
    BY SizesAssumption
  <2>2. \A i \in 1..1 : mSelectIds[i] \in Nat
    BY <1>1, <2>1
  <2> DEFINE s == SubSeq(mSelectIds, 1, 1)
  <2>3. 1 \in Int
    OBVIOUS
  <2>4. /\ s \in Seq(Nat) /\ Len(s) = (IF 1 <= 1 THEN 1 - 1 + 1 ELSE 0)
        /\ \A i \in 1..(1 - 1 + 1) : s[i] = mSelectIds[1 + i - 1]
    BY <2>2, <2>3, SubSeqProperties
  <2> HIDE DEF s
  <2>5. Len(s) = 1 /\ s[1] = mSelectIds[1]
    BY <2>4
  <2>6. s[1] = 1
    BY <1>1, <2>1, <2>5
  <2>7. s = <<1>>
    BY <2>4, <2>5, <2>6
  <2> QED BY <2>7 DEF s
<1> QED BY <1>1, <1>2, <1>3 DEF Promise!Init

(* The terminal keeps its promise, whatever was typed before: one reply for  *)
(* each line, in the order of the lines, and the right one; SEL chooses the  *)
(* servos of the commands after it.  So it is as long as the lines that are  *)
(* typed say what they mean and fit, and the calls return from a quiet line  *)
(* (Machine.cpp:41-344, Session).                                            *)
THEOREM PromiseKept ==
    ASSUME PlainNames
    PROVE  MachineSpec /\ []IsMeant /\ []ReturnsQuietly => KeepsPromise
<1> DEFINE More == QuietInv /\ LineInv /\ ReturnInv /\ AskInv
<1>1. MachineInit => More /\ Promise!Init
  BY InitQuiet, InitLine, InitKept DEF MachineInit, ReturnInv
<1>2. MachineInv /\ More /\ IsMeant /\ [MachineNext]_allVars => More'
  BY MachineQuiet, NextLine, NextReturn, NextAsk
<1>3. MachineInv /\ More /\ IsMeant /\ ReturnsQuietly /\ [MachineNext]_allVars
        => [Promise!Next]_<<SubSeq(mSelectIds, 1, mSelectSize), log>>
  BY NextKept DEF Kept, Selection
<1> HIDE DEF More
<1> QED BY <1>1, <1>2, <1>3, MachineAlways, PTL
        DEF MachineSpec, KeepsPromise, Promise!Spec
=============================================================================
