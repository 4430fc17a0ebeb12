------------------------ MODULE PacketExchangeProofs ------------------------
(***************************************************************************)
(* Theorems about PacketExchange: what is built is one packet and says     *)
(* what was meant, for every id, value and selection of servos.            *)
(***************************************************************************)
EXTENDS PacketExchange, SuffixLemmas

(* The bytes of a word, the low one first, and the word again.               *)
LEMMA WordIs ==
    ASSUME NEW w \in Word
    PROVE  /\ WordLoByte(w) \in Byte /\ WordHiByte(w) \in Byte
           /\ MakeWord(WordLoByte(w), WordHiByte(w)) = w
           /\ ByteOf(w, 0) = WordLoByte(w) /\ ByteOf(w, 1) = WordHiByte(w)
<1> DEFINE lo == w % 256
           hi == w \div 256
<1>1. w \in Int /\ 0 <= w /\ w < 65536
  BY DEF Word
<1>2. lo \in 0..255 /\ hi \in Int /\ lo + 256 * hi = w
  BY <1>1
<1>3. w \div 1 = w
  BY <1>1
<1> HIDE DEF lo, hi
<1>4. hi \in 0..255
  BY <1>1, <1>2
<1>5. hi % 256 = hi
  BY <1>4
<1>6. <<1, 256>>[0 + 1] = 1 /\ <<1, 256>>[1 + 1] = 256
  OBVIOUS
<1> QED BY <1>2, <1>3, <1>4, <1>5, <1>6, SMT
        DEF lo, hi, Byte, WordLoByte, WordHiByte, MakeWord, ByteOf

(* f is one packet and these are its fields.                                 *)
Reads(f, id, instruction, params) ==
    /\ HasPacket(f) /\ PacketSize(f) = Len(f)
    /\ getId(f) = id /\ getInstruction(f) = instruction
    /\ Parameters(f) = params

(* A packet of whatever parameters, short enough for the length field, is    *)
(* read back from its bytes; the CRC is whatever it is.                      *)
LEMMA FrameReads ==
    ASSUME NEW S, Byte \subseteq S, NEW id \in S, NEW instruction \in S,
           NEW n, NEW params, SizedSeq(S, n, params), 3 + n \in Word,
           NEW a \in S, NEW b \in S
    PROVE  Reads(Body(id, instruction, params) \o <<a, b>>, id, instruction, params)
<1> DEFINE lo == WordLoByte(3 + n)
           hi == WordHiByte(3 + n)
           fields == <<Reserve, id, lo, hi, instruction>>
           head == Header \o fields
           body == head \o params
           crc == <<a, b>>
           f == body \o crc
<1>1. n \in Nat /\ Len(params) = n
  BY DEF SizedSeq
<1>2. Body(id, instruction, params) = body
  BY <1>1 DEF Body, PacketLength
<1>3. /\ lo \in S /\ hi \in S
      /\ MakeWord(lo, hi) = 3 + n
  BY WordIs
<1> HIDE DEF lo, hi
<1>4. SizedSeq(S, 3, Header)
  <2>1. 253 \in S /\ 255 \in S
    BY DEF Byte
  <2> QED BY <2>1 DEF SizedSeq, Header
<1>5. SizedSeq(S, 5, fields)
  <2>1. 0 \in S
    BY DEF Byte
  <2> QED BY <1>3, <2>1 DEF SizedSeq, Reserve
<1>6. /\ fields[2] = id /\ fields[3] = lo /\ fields[4] = hi /\ fields[5] = instruction
  OBVIOUS
<1>7. SizedSeq(S, 2, crc)
  BY DEF SizedSeq
<1> HIDE DEF fields, head, body, crc
<1>8. /\ SizedSeq(S, 8, head) /\ Carries(head, 0, Header, 3) /\ Carries(head, 3, fields, 5)
  <2>1. 3 + 5 = 8
    OBVIOUS
  <2> QED BY <1>4, <1>5, <2>1, JoinedAre DEF head
<1>9. SizedSeq(S, 8 + n, body) /\ Carries(body, 0, head, 8) /\ Carries(body, 8, params, n)
  BY <1>8, JoinedAre DEF body
<1>10. SizedSeq(S, 8 + n + 2, f) /\ Carries(f, 0, body, 8 + n)
  BY <1>7, <1>9, JoinedAre
<1> HIDE DEF f
<1>11. Carries(f, 0, head, 8) /\ Carries(f, 8, params, n)
  <2>1. PICK m \in Nat : m = 8 + n
    BY <1>1
  <2>2. Carries(f, 0, body, m)
    BY <1>10, <2>1
  <2>3. 0 + 8 <= m /\ 8 + n <= m /\ n \in Nat
    BY <1>1, <2>1
  <2>4. Carries(f, 0 + 0, head, 8)
    BY <1>9, <2>2, <2>3, CarriesPart
  <2>5. Carries(f, 0 + 8, params, n)
    BY <1>9, <2>2, <2>3, CarriesPart
  <2> QED BY <2>4, <2>5
<1>12. Carries(f, 0, Header, 3) /\ Carries(f, 3, fields, 5)
  <2>1. 0 + 3 <= 8 /\ 3 + 5 <= 8 /\ 0 + 0 = 0 /\ 0 + 3 = 3
    OBVIOUS
  <2>2. Carries(f, 0 + 0, Header, 3) /\ Carries(f, 0 + 3, fields, 5)
    BY <1>8, <1>11, <2>1, CarriesPart
  <2> QED BY <2>1, <2>2
<1>13. \A i \in 1..3 : f[i] = Header[i]
  BY <1>12 DEF Carries
<1>14. f[5] = id /\ f[6] = lo /\ f[7] = hi /\ f[8] = instruction
  <2>1. \A i \in 1..5 : f[3 + i] = fields[i]
    BY <1>12 DEF Carries
  <2>2. f[5] = fields[2] /\ f[6] = fields[3] /\ f[7] = fields[4] /\ f[8] = fields[5]
    BY <2>1
  <2> QED BY <1>6, <2>2
<1>15. getLength(f) = 3 + n
  BY <1>3, <1>14 DEF getLength
<1>16. Len(f) = 8 + n + 2
  BY <1>10 DEF SizedSeq
<1>17. HasPacket(f) /\ PacketSize(f) = Len(f)
  <2>1. ~BadHeader(f)
    BY <1>13 DEF BadHeader, BadHeaderAt
  <2>2. PacketSize(f) = 7 + (3 + n)
    BY <1>15 DEF PacketSize
  <2> QED BY <1>1, <1>16, <2>1, <2>2 DEF HasPacket
<1>18. Parameters(f) = params
  <2>1. SubSeq(f, 8 + 1, 8 + n) = params
    BY <1>11, CarriesCut
  <2>2. 8 + 1 = 9 /\ 5 + (3 + n) = 8 + n
    BY <1>1
  <2> QED BY <1>15, <2>1, <2>2 DEF Parameters
<1>19. Reads(f, id, instruction, params)
  BY <1>14, <1>17, <1>18 DEF Reads, getId, getInstruction
<1> QED BY <1>2, <1>19 DEF f, crc
-----------------------------------------------------------------------------
(* Numbers of sequences of w elements, one after the other.                  *)
LEMMA Times ==
    \A w \in {2, 3} : \A j \in Nat :
        /\ w * j \in Nat /\ w * (j + 1) = w * j + w /\ w * 0 = 0
        /\ \A i \in 1..j : w * (i - 1) \in Nat /\ w * (i - 1) + w <= w * j
        /\ \A i \in 1..j + 1 : i \in 1..j \/ (i = j + 1 /\ w * (i - 1) = w * j)
        /\ (w * j) \div w = j
<1>1. \A j \in Nat :
          /\ 2 * j \in Nat /\ 2 * (j + 1) = 2 * j + 2 /\ 2 * 0 = 0
          /\ 3 * j \in Nat /\ 3 * (j + 1) = 3 * j + 3 /\ 3 * 0 = 0
  OBVIOUS
<1>2. \A j \in Nat : (2 * j) \div 2 = j /\ (3 * j) \div 3 = j
  OBVIOUS
<1>3. \A j \in Nat : \A i \in 1..j :
          /\ 2 * (i - 1) \in Nat /\ 2 * (i - 1) + 2 <= 2 * j
          /\ 3 * (i - 1) \in Nat /\ 3 * (i - 1) + 3 <= 3 * j
  OBVIOUS
<1>4. \A j \in Nat : \A i \in 1..j + 1 : i \in 1..j \/ (i = j + 1 /\ i - 1 = j)
  OBVIOUS
<1> QED BY <1>1, <1>2, <1>3, <1>4, Zenon

(* f is made of the first k sequences of s, each of w elements.              *)
MadeOf(S, f, s, w, k) ==
    SizedSeq(S, w * k, f) /\ \A i \in 1..k : Carries(f, w * (i - 1), s[i], w)

(* One more of them.                                                         *)
LEMMA OneMore ==
    ASSUME NEW S, NEW w \in {2, 3}, NEW k \in Nat, NEW f, NEW g, NEW s,
           MadeOf(S, f, s, w, k), SizedSeq(S, w, s[k + 1]), g = f \o s[k + 1]
    PROVE  MadeOf(S, g, s, w, k + 1)
<1>1. PICK m \in Nat : m = w * k
  BY Times
<1>2. SizedSeq(S, m, f)
  BY <1>1 DEF MadeOf
<1>3. SizedSeq(S, m + w, g) /\ Carries(g, 0, f, m) /\ Carries(g, m, s[k + 1], w)
  BY <1>2, JoinedAre
<1>4. m + w = w * (k + 1)
  BY <1>1, Times
<1>5. \A i \in 1..k + 1 : Carries(g, w * (i - 1), s[i], w)
  <2> TAKE i \in 1..k + 1
  <2>1. CASE i \in 1..k
    <3>1. PICK j \in Nat : j = w * (i - 1) /\ j + w <= m
      BY <1>1, <2>1, Times
    <3>2. Carries(f, j, s[i], w)
      BY <2>1, <3>1 DEF MadeOf
    <3>3. Carries(g, 0 + j, s[i], w)
      BY <1>3, <3>1, <3>2, CarriesPart
    <3>4. 0 + j = w * (i - 1)
      BY <3>1
    <3> QED BY <3>3, <3>4
  <2>2. CASE i = k + 1 /\ w * (i - 1) = w * k
    BY <1>1, <1>3, <2>2
  <2> QED BY <2>1, <2>2, Times
<1> QED BY <1>3, <1>4, <1>5 DEF MadeOf

(* Sequences of the same length, one after the other.                        *)
LEMMA FlattenIs ==
    ASSUME NEW S, NEW w \in {2, 3}, NEW k, NEW s, SizedSeq(Seq(S), k, s),
           \A i \in 1..k : SizedSeq(S, w, s[i])
    PROVE  MadeOf(S, FlattenSeq(s), s, w, k)
<1> DEFINE Part(j) == FlattenSeq(SubSeq(s, 1, j))
           T == {j \in 0..k : ~MadeOf(S, Part(j), s, w, j)}
<1>1. k \in Nat /\ s \in Seq(Seq(S)) /\ Len(s) = k
  BY DEF SizedSeq
<1>2. MadeOf(S, Part(0), s, w, 0)
  <2>1. Part(0) = <<>>
    <3>1. SubSeq(s, 1, 0) = <<>>
      BY SubSeqEmpty
    <3> QED BY <3>1 DEF FlattenSeq
  <2>2. SizedSeq(S, 0, <<>>)
    BY DEF SizedSeq
  <2> HIDE DEF Part
  <2> QED BY <2>1, <2>2, Times DEF MadeOf
<1>3. \A j \in Nat : j < k /\ MadeOf(S, Part(j), s, w, j) => MadeOf(S, Part(j + 1), s, w, j + 1)
  <2> SUFFICES ASSUME NEW j \in Nat, j < k, MadeOf(S, Part(j), s, w, j)
               PROVE  MadeOf(S, Part(j + 1), s, w, j + 1)
    OBVIOUS
  <2>1. Part(j + 1) = Part(j) \o s[j + 1]
    BY <1>1, FlattenNext
  <2>2. SizedSeq(S, w, s[j + 1])
    BY <1>1
  <2> HIDE DEF Part
  <2> QED BY <2>1, <2>2, OneMore
<1>4. Part(k) = FlattenSeq(s)
  <2>1. SubSeq(s, 1, k) = s
    BY <1>1, SubSeqFull
  <2> QED BY <2>1
<1> HIDE DEF Part
<1>5. T = {}
  <2> SUFFICES ASSUME T # {} PROVE FALSE
    OBVIOUS
  <2>1. T \in SUBSET Nat
    BY <1>1
  <2>2. PICK x \in T : \A y \in T : x <= y
    <3> HIDE DEF T
    <3> QED BY <2>1, Smallest
  <2>3. x \in 0..k /\ ~MadeOf(S, Part(x), s, w, x)
    OBVIOUS
  <2>4. x # 0
    BY <1>2, <2>3
  <2>5. x - 1 \in Nat /\ x - 1 \in 0..k /\ x - 1 < k /\ x - 1 + 1 = x /\ ~(x <= x - 1)
    BY <1>1, <2>3, <2>4
  <2>6. MadeOf(S, Part(x - 1), s, w, x - 1)
    BY <2>2, <2>5
  <2> HIDE DEF T
  <2> QED BY <1>3, <2>3, <2>5, <2>6
<1>6. k \in 0..k
  BY <1>1
<1> QED BY <1>4, <1>5, <1>6
-----------------------------------------------------------------------------
(* Sizes that fit the length field.                                          *)
LEMMA ShortEnough ==
    /\ Byte \subseteq Word
    /\ 3 + 0 \in Word /\ 3 + (2 + 1) \in Word /\ 3 + (2 + 2) \in Word
    /\ \A k \in Nat : 14 + 3 * k < 256 =>
          /\ 3 + (2 + 2 + k) \in Word
          /\ 3 + (2 + 2 + 2 * k) \in Word /\ 3 + (2 + 2 + 3 * k) \in Word
<1>1. \A m \in 0..255 : m \in Word
  BY SMT DEF Word
<1>2. Byte \subseteq Word
  BY <1>1 DEF Byte
<1>3. 3 + 0 \in Word /\ 3 + (2 + 1) \in Word /\ 3 + (2 + 2) \in Word
  BY SMT DEF Word
<1>4. ASSUME NEW k \in Nat, 14 + 3 * k < 256
      PROVE  /\ 3 + (2 + 2 + k) \in Word
             /\ 3 + (2 + 2 + 2 * k) \in Word /\ 3 + (2 + 2 + 3 * k) \in Word
  <2>1. /\ 3 + (2 + 2 + k) \in 0..255
        /\ 3 + (2 + 2 + 2 * k) \in 0..255 /\ 3 + (2 + 2 + 3 * k) \in 0..255
    BY <1>4
  <2> QED BY <1>1, <2>1
<1> QED BY <1>2, <1>3, <1>4

(* The registers of both tables that orders name hold one or two bytes.      *)
LEMMA RegistersAre ==
    /\ \A reg \in HostRegisters : RegMap[reg].address \in Byte /\ RegMap[reg].size \in {1, 2}
    /\ \A reg \in ArduinoRegisters : addr(reg) \in Byte /\ size(reg) \in {1, 2}
<1> DEFINE R == [address : 0..255, size : 1..255, access : {"r", "rw"}]
           P == (0..255) \X (1..2)
<1>1. RegMap \in Seq(R)
  BY DEF RegMap, Reg
<1>2. RegInfoTable \in Seq(P)
  BY DEF RegInfoTable
<1> HIDE DEF R, P
<1>3. ASSUME NEW reg \in HostRegisters
      PROVE  RegMap[reg] \in R /\ RegMap[reg].size <= 2
  <2>1. reg \in DOMAIN RegMap /\ RegMap[reg].size <= 2
    BY RegistersAssumption
  <2>2. RegMap \in [1..Len(RegMap) -> R]
    BY <1>1, LenProperties, Zenon
  <2> QED BY <2>1, <2>2
<1>4. ASSUME NEW reg \in ArduinoRegisters
      PROVE  RegInfoTable[reg] \in P
  <2>1. reg \in DOMAIN RegInfoTable
    BY RegistersAssumption
  <2>2. RegInfoTable \in [1..Len(RegInfoTable) -> P]
    BY <1>2, LenProperties, Zenon
  <2> QED BY <2>1, <2>2
<1>5. ASSUME NEW reg \in HostRegisters
      PROVE  RegMap[reg].address \in Byte /\ RegMap[reg].size \in {1, 2}
  BY <1>3 DEF Byte, R
<1>6. ASSUME NEW reg \in ArduinoRegisters
      PROVE  addr(reg) \in Byte /\ size(reg) \in {1, 2}
  BY <1>4 DEF Byte, P, addr, size
<1> QED BY <1>5, <1>6

(* Ids are bytes.                                                            *)
LEMMA IdsAreBytes == Ids \subseteq Byte
<1>1. ASSUME NEW i \in 0..252 PROVE i \in Byte
  BY DEF Byte
<1>2. Ids \subseteq 0..252
  BY IdsAssumption
<1> QED BY <1>1, <1>2

(* A sequence of bytes is one of more than bytes.                            *)
LEMMA SeqOfMore ==
    ASSUME NEW S, NEW T, S \subseteq T, NEW n, NEW s, SizedSeq(S, n, s)
    PROVE  SizedSeq(T, n, s)
<1>1. n \in Nat /\ s \in Seq(S) /\ Len(s) = n
  BY DEF SizedSeq
<1>2. s \in Seq(T)
  BY <1>1
<1> QED BY <1>1, <1>2 DEF SizedSeq

(* What Packet::Build and Packet::build make is read back.                   *)
LEMMA BuiltReads ==
    ASSUME NEW id \in Byte, NEW instruction \in Byte, NEW n, NEW params,
           SizedSeq(Byte, n, params), 3 + n \in Word
    PROVE  /\ Reads(Build(id, instruction, params), id, instruction, params)
           /\ \A bytes : Reads(build(bytes, id, instruction, params), id, instruction, params)
<1>1. ASSUME NEW crc
      PROVE  Reads(Body(id, instruction, params) \o CrcBytes(crc), id, instruction, params)
  <2> DEFINE a == WordLoByte(crc)
             b == WordHiByte(crc)
             S == Byte \cup {a, b}
  <2>1. /\ Byte \subseteq S /\ a \in S /\ b \in S /\ id \in S /\ instruction \in S
    OBVIOUS
  <2>2. CrcBytes(crc) = <<a, b>>
    BY DEF CrcBytes
  <2> HIDE DEF a, b, S
  <2>3. SizedSeq(S, n, params)
    BY <2>1, SeqOfMore
  <2> QED BY <2>1, <2>2, <2>3, FrameReads
<1>2. Reads(Build(id, instruction, params), id, instruction, params)
  BY <1>1, Zenon DEF Build
<1>3. ASSUME NEW bytes
      PROVE  Reads(build(bytes, id, instruction, params), id, instruction, params)
  BY <1>1, Zenon DEF build
<1> QED BY <1>2, <1>3

(* The two bytes of a word.                                                  *)
LEMMA WordBytesAre ==
    ASSUME NEW w \in Word
    PROVE  /\ SizedSeq(Byte, 2, WordBytes(w))
           /\ MakeWord(WordBytes(w)[1], WordBytes(w)[2]) = w
<1> DEFINE lo == WordLoByte(w)
           hi == WordHiByte(w)
<1>1. lo \in Byte /\ hi \in Byte /\ MakeWord(lo, hi) = w
  BY WordIs
<1> HIDE DEF lo, hi
<1>2. WordBytes(w) = <<lo, hi>>
  BY DEF WordBytes, lo, hi
<1> QED BY <1>1, <1>2 DEF SizedSeq

(* The bytes of a value.                                                     *)
LEMMA ValueBytesAre ==
    ASSUME NEW w \in Word, NEW n \in {1, 2}
    PROVE  /\ SizedSeq(Byte, n, ValueBytes(w, n))
           /\ \A j \in 0..n - 1 : ValueBytes(w, n)[1 + j] = ByteOf(w, j)
<1> DEFINE lo == WordLoByte(w)
           hi == WordHiByte(w)
<1>1. lo \in Byte /\ hi \in Byte /\ ByteOf(w, 0) = lo /\ ByteOf(w, 1) = hi
  BY WordIs
<1>2. ValueBytes(w, 1) = <<lo>> /\ ValueBytes(w, 2) = <<lo, hi>>
  BY DEF ValueBytes, WordBytes
<1> HIDE DEF lo, hi
<1>3. CASE n = 1
  <2>1. SizedSeq(Byte, 1, <<lo>>)
    BY <1>1 DEF SizedSeq
  <2>2. \A j \in 0..0 : j = 0 /\ <<lo>>[1 + j] = lo
    OBVIOUS
  <2> QED BY <1>1, <1>2, <1>3, <2>1, <2>2
<1>4. CASE n = 2
  <2>1. SizedSeq(Byte, 2, <<lo, hi>>)
    BY <1>1 DEF SizedSeq
  <2>2. \A j \in 0..1 : (j = 0 /\ <<lo, hi>>[1 + j] = lo) \/ (j = 1 /\ <<lo, hi>>[1 + j] = hi)
    OBVIOUS
  <2> QED BY <1>1, <1>2, <1>4, <2>1, <2>2
<1> QED BY <1>3, <1>4
-----------------------------------------------------------------------------
(* The elements of the first sequences of a concatenation.                   *)
LEMMA Places ==
    ASSUME NEW s, NEW t
    PROVE  /\ Carries(s, 0, t, 2) => s[1] = t[1] /\ s[2] = t[2]
           /\ Carries(s, 2, t, 2) => s[3] = t[1] /\ s[4] = t[2]
           /\ Carries(s, 0, t, 4) => s[1] = t[1] /\ s[2] = t[2] /\ s[3] = t[3] /\ s[4] = t[4]
<1>1. Carries(s, 0, t, 2) => s[1] = t[1] /\ s[2] = t[2]
  BY DEF Carries
<1>2. Carries(s, 2, t, 2) => s[3] = t[1] /\ s[4] = t[2]
  <2> SUFFICES ASSUME \A i \in 1..2 : s[2 + i] = t[i] PROVE s[3] = t[1] /\ s[4] = t[2]
    BY DEF Carries
  <2>1. s[2 + 1] = t[1] /\ s[2 + 2] = t[2]
    OBVIOUS
  <2> QED BY <2>1
<1>3. Carries(s, 0, t, 4) => s[1] = t[1] /\ s[2] = t[2] /\ s[3] = t[3] /\ s[4] = t[4]
  BY DEF Carries
<1> QED BY <1>1, <1>2, <1>3

(* What the instruction says of the cells.                                   *)
LEMMA CellsOf ==
    ASSUME NEW f, NEW id, NEW i, NEW p, Reads(f, id, i, p)
    PROVE  /\ i = Read => WrittenBy(f) = {} /\ ReadBy(f) = {id} \X AddressesRead(p)
           /\ i = SyncRead =>
                 WrittenBy(f) = {} /\ ReadBy(f) = ServosRead(p) \X AddressesRead(p)
           /\ i = Write => WrittenBy(f) = OneWritten(id, p) /\ ReadBy(f) = {}
           /\ i = SyncWrite => WrittenBy(f) = ManyWritten(p) /\ ReadBy(f) = {}
           /\ i \in {Ping, FactoryReset, Reboot} => WrittenBy(f) = {} /\ ReadBy(f) = {}
<1>1. WrittenBy(f) = CASE getInstruction(f) = Write -> OneWritten(getId(f), Parameters(f))
                       [] getInstruction(f) = SyncWrite -> ManyWritten(Parameters(f))
                       [] OTHER -> {}
  BY Zenon DEF WrittenBy
<1>2. ReadBy(f) = CASE getInstruction(f) = Read -> {getId(f)} \X AddressesRead(Parameters(f))
                    [] getInstruction(f) = SyncRead ->
                          ServosRead(Parameters(f)) \X AddressesRead(Parameters(f))
                    [] OTHER -> {}
  BY Zenon DEF ReadBy
<1>3. getId(f) = id /\ getInstruction(f) = i /\ Parameters(f) = p
  BY DEF Reads
<1>4. i = Read => WrittenBy(f) = {} /\ ReadBy(f) = {id} \X AddressesRead(p)
  BY <1>1, <1>2, <1>3 DEF Read, SyncRead, Write, SyncWrite
<1>5. i = SyncRead => WrittenBy(f) = {} /\ ReadBy(f) = ServosRead(p) \X AddressesRead(p)
  BY <1>1, <1>2, <1>3 DEF Read, SyncRead, Write, SyncWrite
<1>6. i = Write => WrittenBy(f) = OneWritten(id, p) /\ ReadBy(f) = {}
  BY <1>1, <1>2, <1>3 DEF Read, SyncRead, Write, SyncWrite
<1>7. i = SyncWrite => WrittenBy(f) = ManyWritten(p) /\ ReadBy(f) = {}
  BY <1>1, <1>2, <1>3 DEF Read, SyncRead, Write, SyncWrite
<1>8. i \in {Ping, FactoryReset, Reboot} => WrittenBy(f) = {} /\ ReadBy(f) = {}
  BY <1>1, <1>2, <1>3 DEF Read, SyncRead, Write, SyncWrite, Ping, FactoryReset, Reboot
<1> QED BY <1>4, <1>5, <1>6, <1>7, <1>8

(* Words are numbers.                                                        *)
LEMMA WordIsNat == \A w \in Word : w \in Nat
BY SMT DEF Word

(* Parameters that begin with an address.                                    *)
Addressed(p, a, q) == p = WordBytes(a) \o q

(* It is read back.                                                          *)
LEMMA AddressFirst ==
    ASSUME NEW a \in Word, NEW n, NEW q, SizedSeq(Byte, n, q), NEW p, Addressed(p, a, q)
    PROVE  /\ SizedSeq(Byte, 2 + n, p) /\ MakeWord(p[1], p[2]) = a
           /\ Carries(p, 2, q, n)
<1> DEFINE w == WordBytes(a)
<1>1. SizedSeq(Byte, 2, w) /\ MakeWord(w[1], w[2]) = a
  BY WordBytesAre
<1> HIDE DEF w
<1>2. SizedSeq(Byte, 2 + n, p) /\ Carries(p, 0, w, 2) /\ Carries(p, 2, q, n)
  BY <1>1, JoinedAre DEF Addressed, w
<1>3. p[1] = w[1] /\ p[2] = w[2]
  BY <1>2, Places, Zenon
<1>4. MakeWord(p[1], p[2]) = a
  BY <1>1, <1>3, Zenon
<1> QED BY <1>2, <1>4, Zenon

(* Parameters that begin with an address and a size.                         *)
Sized(p, a, b, q) == p = WordBytes(a) \o WordBytes(b) \o q

(* They are read back.                                                       *)
LEMMA SizeSecond ==
    ASSUME NEW a \in Word, NEW b \in Word, NEW n, NEW q, SizedSeq(Byte, n, q),
           NEW p, Sized(p, a, b, q)
    PROVE  /\ SizedSeq(Byte, 2 + 2 + n, p)
           /\ MakeWord(p[1], p[2]) = a /\ MakeWord(p[3], p[4]) = b
           /\ Carries(p, 4, q, n)
<1> DEFINE v == WordBytes(a)
           w == WordBytes(b)
           vw == v \o w
<1>1. /\ SizedSeq(Byte, 2, v) /\ MakeWord(v[1], v[2]) = a
      /\ SizedSeq(Byte, 2, w) /\ MakeWord(w[1], w[2]) = b
  BY WordBytesAre
<1> HIDE DEF v, w
<1>2. SizedSeq(Byte, 2 + 2, vw) /\ Carries(vw, 0, v, 2) /\ Carries(vw, 2, w, 2)
  BY <1>1, JoinedAre
<1> HIDE DEF vw
<1>3. SizedSeq(Byte, 4, vw)
  BY <1>2
<1>4. SizedSeq(Byte, 4 + n, p) /\ Carries(p, 0, vw, 4) /\ Carries(p, 4, q, n)
  BY <1>3, JoinedAre DEF Sized, vw, v, w
<1>5. p[1] = v[1] /\ p[2] = v[2] /\ p[3] = w[1] /\ p[4] = w[2]
  <2>1. p[1] = vw[1] /\ p[2] = vw[2] /\ p[3] = vw[3] /\ p[4] = vw[4]
    BY <1>4, Places
  <2>2. vw[1] = v[1] /\ vw[2] = v[2] /\ vw[3] = w[1] /\ vw[4] = w[2]
    BY <1>2, Places, Zenon
  <2> QED BY <2>1, <2>2, Zenon
<1>6. MakeWord(p[1], p[2]) = a /\ MakeWord(p[3], p[4]) = b
  BY <1>1, <1>5, Zenon
<1>7. SizedSeq(Byte, 2 + 2 + n, p)
  <2>1. 2 + 2 = 4
    OBVIOUS
  <2> QED BY <1>4, <2>1, Zenon
<1> QED BY <1>4, <1>6, <1>7, Zenon

(* A read.                                                                   *)
LEMMA ReadArrives ==
    ASSUME NEW a \in Word, NEW n \in Word, NEW f, NEW id, NEW p,
           Addressed(p, a, WordBytes(n)), Reads(f, id, Read, p)
    PROVE  /\ WrittenBy(f) = {}
           /\ ReadBy(f) = {id} \X {a + j : j \in 0..n - 1}
<1> DEFINE w == WordBytes(n)
<1>1. SizedSeq(Byte, 2, w) /\ MakeWord(w[1], w[2]) = n
  BY WordBytesAre
<1> HIDE DEF w
<1>2. MakeWord(p[1], p[2]) = a /\ Carries(p, 2, w, 2)
  BY <1>1, AddressFirst DEF w
<1>3. p[3] = w[1] /\ p[4] = w[2]
  BY <1>2, Places, Zenon
<1>4. MakeWord(p[3], p[4]) = n
  BY <1>1, <1>3, Zenon
<1>5. getId(f) = id /\ getInstruction(f) = Read /\ Parameters(f) = p
  BY DEF Reads
<1>6. WrittenBy(f) = {}
  BY CellsOf
<1>7. ReadBy(f) = {id} \X AddressesRead(p)
  BY CellsOf
<1>8. AddressesRead(p) = {a + j : j \in 0..n - 1}
  BY <1>2, <1>4, Zenon DEF AddressesRead
<1> QED BY <1>6, <1>7, <1>8, Zenon

(* A write of one register.                                                  *)
LEMMA WriteArrives ==
    ASSUME NEW a \in Word, NEW n \in {1, 2}, NEW value \in Word, NEW f, NEW id, NEW p,
           Addressed(p, a, ValueBytes(value, n)), Reads(f, id, Write, p)
    PROVE  /\ WrittenBy(f) = {Cell(id, a + j, ByteOf(value, j)) : j \in 0..n - 1}
           /\ ReadBy(f) = {}
<1> DEFINE v == ValueBytes(value, n)
<1>1. SizedSeq(Byte, n, v) /\ \A j \in 0..n - 1 : v[1 + j] = ByteOf(value, j)
  BY ValueBytesAre
<1> HIDE DEF v
<1>2. SizedSeq(Byte, 2 + n, p) /\ MakeWord(p[1], p[2]) = a /\ Carries(p, 2, v, n)
  BY <1>1, AddressFirst DEF v
<1>3. Len(p) = 2 + n
  BY <1>2 DEF SizedSeq
<1>4. \A j \in 0..n - 1 : 3 + j \in 3..Len(p) /\ p[3 + j] = ByteOf(value, j)
  <2> TAKE j \in 0..n - 1
  <2>1. 1 + j \in 1..n /\ 2 + (1 + j) = 3 + j /\ 3 + j \in 3..Len(p)
    BY <1>3
  <2>2. p[2 + (1 + j)] = v[1 + j]
    BY <1>2, <2>1, Zenon DEF Carries
  <2> QED BY <1>1, <2>1, <2>2
<1>5. getId(f) = id /\ getInstruction(f) = Write /\ Parameters(f) = p
  BY DEF Reads
<1> DEFINE b == MakeWord(p[1], p[2])
<1>6. WrittenBy(f) = OneWritten(id, p) /\ ReadBy(f) = {}
  BY CellsOf
<1>7. b = a
  BY <1>2
<1> HIDE DEF b
<1>8. OneWritten(id, p) = {Cell(id, a + j, ByteOf(value, j)) : j \in 0..n - 1}
  <2>1. a \in Int
    BY WordIsNat
  <2>2. ASSUME NEW j \in 0..n - 1
        PROVE  Cell(id, a + j, ByteOf(value, j)) = Cell(id, b + (3 + j) - 3, p[3 + j])
    BY <1>4, <1>7, <2>1, <2>2
  <2>3. ASSUME NEW i \in 3..Len(p)
        PROVE  i - 3 \in 0..n - 1 /\ 3 + (i - 3) = i
    BY <1>3, <2>3
  <2>4. OneWritten(id, p) = {Cell(id, b + i - 3, p[i]) : i \in 3..Len(p)}
    BY Zenon DEF OneWritten, b
  <2> QED BY <1>4, <2>2, <2>3, <2>4
<1> QED BY <1>6, <1>8


(* A read of many servos.                                                    *)
LEMMA PullArrives ==
    ASSUME NEW a \in Word, NEW n \in Word, NEW k, NEW ids, SizedSeq(Byte, k, ids),
           NEW f, NEW id, NEW p,
           Sized(p, a, n, ids), Reads(f, id, SyncRead, p)
    PROVE  /\ WrittenBy(f) = {}
           /\ ReadBy(f) = Range(ids) \X {a + j : j \in 0..n - 1}
<1>1. /\ SizedSeq(Byte, 2 + 2 + k, p) /\ Carries(p, 4, ids, k)
      /\ MakeWord(p[1], p[2]) = a /\ MakeWord(p[3], p[4]) = n
  BY SizeSecond
<1>2. k \in Nat /\ Len(p) = 4 + k
  BY <1>1 DEF SizedSeq
<1>3. DOMAIN ids = 1..k
  BY LenProperties DEF SizedSeq
<1>4. \A i \in 1..k : 4 + i \in 5..Len(p) /\ p[4 + i] = ids[i]
  BY <1>1, <1>2 DEF Carries
<1>5. \A m \in 5..Len(p) : m - 4 \in 1..k /\ 4 + (m - 4) = m
  BY <1>2
<1>6. ServosRead(p) = Range(ids)
  <2>1. ASSUME NEW m \in 5..Len(p) PROVE \E i \in 1..k : p[m] = ids[i]
    BY <1>4, <1>5
  <2>2. ASSUME NEW i \in 1..k PROVE \E m \in 5..Len(p) : ids[i] = p[m]
    BY <1>4
  <2>3. ServosRead(p) = {ids[i] : i \in 1..k}
    BY <2>1, <2>2 DEF ServosRead
  <2> QED BY <1>3, <2>3 DEF Range
<1>7. AddressesRead(p) = {a + j : j \in 0..n - 1}
  BY <1>1, Zenon DEF AddressesRead
<1>8. WrittenBy(f) = {} /\ ReadBy(f) = ServosRead(p) \X AddressesRead(p)
  BY CellsOf
<1> QED BY <1>6, <1>7, <1>8, Zenon

(* What one servo gets: its id and its value.                                *)
Piece(id, value, n) == <<id>> \o ValueBytes(value, n)

(* They are read back.                                                       *)
LEMMA PieceIs ==
    ASSUME NEW id \in Byte, NEW value \in Word, NEW n \in {1, 2}
    PROVE  LET s == Piece(id, value, n)
           IN  /\ SizedSeq(Byte, 1 + n, s) /\ s[1] = id
               /\ \A j \in 0..n - 1 : s[2 + j] = ByteOf(value, j)
<1> DEFINE one == <<id>>
           v == ValueBytes(value, n)
           s == Piece(id, value, n)
<1>1. SizedSeq(Byte, 1, one) /\ one[1] = id
  BY DEF SizedSeq
<1>2. SizedSeq(Byte, n, v) /\ \A j \in 0..n - 1 : v[1 + j] = ByteOf(value, j)
  BY ValueBytesAre
<1>a. s = one \o v
  BY DEF Piece
<1> HIDE DEF one, v, s
<1>3. SizedSeq(Byte, 1 + n, s) /\ Carries(s, 0, one, 1) /\ Carries(s, 1, v, n)
  BY <1>a, <1>1, <1>2, JoinedAre
<1>4. s[1] = id
  <2>1. \A i \in 1..1 : s[0 + i] = one[i]
    BY <1>3 DEF Carries
  <2>2. s[0 + 1] = one[1]
    BY <2>1
  <2> QED BY <1>1, <2>2
<1>5. ASSUME NEW j \in 0..n - 1 PROVE s[2 + j] = ByteOf(value, j)
  <2>1. 1 + j \in 1..n /\ 1 + (1 + j) = 2 + j
    OBVIOUS
  <2>2. s[1 + (1 + j)] = v[1 + j]
    BY <1>3, <2>1, Zenon DEF Carries
  <2> QED BY <1>2, <2>1, <2>2
<1> QED BY <1>3, <1>4, <1>5 DEF s

(* Numbers of the e-th of the servos.                                        *)
LEMMA Places2 ==
    \A n \in {1, 2} : \A k \in Nat : \A e \in 0..k - 1 :
        /\ e + 1 \in 1..k
        /\ 4 + (1 + n) * (e + 1 - 1) + 1 = 5 + e * (n + 1)
        /\ 1 \in 1..1 + n
        /\ \A j \in 0..n - 1 :
              /\ 2 + j \in 1..1 + n
              /\ 4 + (1 + n) * (e + 1 - 1) + (2 + j) = 6 + e * (n + 1) + j
<1> SUFFICES ASSUME NEW n \in {1, 2}, NEW k \in Nat, NEW e \in 0..k - 1
             PROVE  /\ e + 1 \in 1..k
                    /\ 4 + (1 + n) * (e + 1 - 1) + 1 = 5 + e * (n + 1)
                    /\ 1 \in 1..1 + n
                    /\ \A j \in 0..n - 1 :
                          /\ 2 + j \in 1..1 + n
                          /\ 4 + (1 + n) * (e + 1 - 1) + (2 + j) = 6 + e * (n + 1) + j
  OBVIOUS
<1>1. CASE n = 1
  BY <1>1
<1>2. CASE n = 2
  BY <1>2
<1> QED BY <1>1, <1>2


(* Behind the address and the size, the pieces s of k servos.                *)
Pushed(p, q, s, n, k) ==
    k \in Nat /\ MadeOf(Byte, q, s, 1 + n, k) /\ Carries(p, 4, q, (1 + n) * k)

(* What each servo gets of a write of many servos.                           *)
LEMMA PushedAre ==
    ASSUME NEW n \in {1, 2}, NEW k, NEW q, NEW s, NEW p, Pushed(p, q, s, n, k),
           NEW e \in 0..k - 1
    PROVE  /\ p[5 + e * (n + 1)] = s[e + 1][1]
           /\ \A j \in 0..n - 1 : p[6 + e * (n + 1) + j] = s[e + 1][2 + j]
<1> DEFINE w == 1 + n
           o == w * (e + 1 - 1)
<1>0. k \in Nat /\ MadeOf(Byte, q, s, w, k) /\ Carries(p, 4, q, w * k)
  BY DEF Pushed
<1>1. w \in {2, 3} /\ e + 1 \in 1..k
  BY <1>0
<1>2. Carries(q, o, s[e + 1], w)
  BY <1>0, <1>1 DEF MadeOf
<1>3. o \in Nat /\ w * k \in Nat /\ o + w <= w * k
  BY <1>0, <1>1, Times
<1>4. Carries(p, 4 + o, s[e + 1], w)
  <2>1. PICK m \in Nat : m = w * k
    BY <1>3
  <2>2. Carries(p, 4, q, m)
    BY <1>0, <2>1
  <2>3. w \in Nat
    BY <1>1
  <2> HIDE DEF w, o
  <2> QED BY <1>2, <1>3, <2>1, <2>2, <2>3, CarriesPart
<1>5. \A i \in 1..w : p[4 + o + i] = s[e + 1][i]
  BY <1>4, Zenon DEF Carries
<1>6. 4 + o + 1 = 5 + e * (n + 1) /\ 1 \in 1..w
  BY <1>0, Places2, Zenon
<1>7. \A j \in 0..n - 1 : 2 + j \in 1..w /\ 4 + o + (2 + j) = 6 + e * (n + 1) + j
  BY <1>0, Places2, Zenon
<1>8. p[5 + e * (n + 1)] = s[e + 1][1]
  BY <1>5, <1>6, Zenon
<1>9. ASSUME NEW j \in 0..n - 1 PROVE p[6 + e * (n + 1) + j] = s[e + 1][2 + j]
  BY <1>5, <1>7, Zenon
<1> QED BY <1>8, <1>9

(* The pieces of a write of many servos.                                     *)
PiecesOf(ids, values, n) == [i \in DOMAIN ids |-> Piece(ids[i], values[i], n)]

(* They are those of the servos, in their order.                             *)
LEMMA PiecesAre ==
    ASSUME NEW n \in {1, 2}, NEW k, NEW ids, SizedSeq(Byte, k, ids),
           NEW values \in [DOMAIN ids -> Word]
    PROVE  LET s == PiecesOf(ids, values, n)
           IN  /\ SizedSeq(Seq(Byte), k, s)
               /\ \A i \in 1..k : SizedSeq(Byte, 1 + n, s[i])
               /\ \A i \in 1..k : s[i][1] = ids[i]
               /\ \A i \in 1..k : \A j \in 0..n - 1 : s[i][2 + j] = ByteOf(values[i], j)
<1> DEFINE s == PiecesOf(ids, values, n)
<1>1. k \in Nat /\ DOMAIN ids = 1..k /\ \A i \in 1..k : ids[i] \in Byte
  BY LenProperties, ElementOfSeq DEF SizedSeq
<1>2. \A i \in 1..k : values[i] \in Word
  BY <1>1
<1>3. s = [i \in 1..k |-> Piece(ids[i], values[i], n)]
  BY <1>1, Zenon DEF PiecesOf
<1> HIDE DEF s
<1>4. ASSUME NEW i \in 1..k
      PROVE  /\ SizedSeq(Byte, 1 + n, s[i]) /\ s[i][1] = ids[i]
             /\ \A j \in 0..n - 1 : s[i][2 + j] = ByteOf(values[i], j)
  <2>1. ids[i] \in Byte /\ values[i] \in Word
    BY <1>1, <1>2
  <2>2. s[i] = Piece(ids[i], values[i], n)
    BY <1>3, Zenon
  <2> QED BY <2>1, <2>2, PieceIs
<1>5. s \in [1..k -> Seq(Byte)]
  <2>1. \A i \in 1..k : s[i] \in Seq(Byte)
    BY <1>4, Zenon DEF SizedSeq
  <2>2. s = [i \in 1..k |-> s[i]]
    BY <1>3
  <2> QED BY <2>1, <2>2, Zenon
<1>6. SizedSeq(Seq(Byte), k, s)
  <2> DEFINE T == Seq(Byte)
  <2>1. s \in [1..k -> T]
    BY <1>5
  <2> HIDE DEF T
  <2>2. s \in Seq(T) /\ Len(s) = k
    BY <1>1, <2>1
  <2> QED BY <1>1, <2>2 DEF SizedSeq, T
<1> QED BY <1>4, <1>6 DEF s

(* A write of many servos.                                                   *)
LEMMA PushArrives ==
    ASSUME NEW a \in Word, NEW n \in {1, 2}, NEW k, NEW ids, SizedSeq(Byte, k, ids),
           NEW values \in [DOMAIN ids -> Word],
           NEW f, NEW id, NEW p,
           Sized(p, a, n, FlattenSeq(PiecesOf(ids, values, n))), Reads(f, id, SyncWrite, p)
    PROVE  /\ WrittenBy(f) = {Cell(ids[i], a + j, ByteOf(values[i], j)) :
                                 i \in DOMAIN ids, j \in 0..n - 1}
           /\ ReadBy(f) = {}
<1> DEFINE s == PiecesOf(ids, values, n)
           q == FlattenSeq(s)
<1>1. /\ SizedSeq(Seq(Byte), k, s)
      /\ \A i \in 1..k : SizedSeq(Byte, 1 + n, s[i])
      /\ \A i \in 1..k : s[i][1] = ids[i]
      /\ \A i \in 1..k : \A j \in 0..n - 1 : s[i][2 + j] = ByteOf(values[i], j)
  BY PiecesAre
<1> HIDE DEF s
<1>2. 1 + n \in {2, 3} /\ n \in Word
  BY ShortEnough DEF Byte
<1>3. MadeOf(Byte, q, s, 1 + n, k)
  BY <1>1, <1>2, FlattenIs
<1> HIDE DEF q
<1>4. SizedSeq(Byte, (1 + n) * k, q)
  BY <1>3 DEF MadeOf
<1>5. Sized(p, a, n, q)
  BY DEF q, s
<1>6. /\ SizedSeq(Byte, 2 + 2 + (1 + n) * k, p) /\ Carries(p, 4, q, (1 + n) * k)
      /\ MakeWord(p[1], p[2]) = a /\ MakeWord(p[3], p[4]) = n
  BY <1>2, <1>4, <1>5, SizeSecond
<1>7. k \in Nat /\ DOMAIN ids = 1..k
  BY LenProperties DEF SizedSeq
<1>8. \A e \in 0..k - 1 :
          /\ p[5 + e * (n + 1)] = ids[e + 1]
          /\ \A j \in 0..n - 1 : p[6 + e * (n + 1) + j] = ByteOf(values[e + 1], j)
  <2> TAKE e \in 0..k - 1
  <2>1. e + 1 \in 1..k
    BY <1>7
  <2>2. /\ p[5 + e * (n + 1)] = s[e + 1][1]
        /\ \A j \in 0..n - 1 : p[6 + e * (n + 1) + j] = s[e + 1][2 + j]
    <3>1. Pushed(p, q, s, n, k)
      BY <1>3, <1>6, <1>7, Zenon DEF Pushed
    <3> QED BY <3>1, PushedAre
  <2> QED BY <1>1, <2>1, <2>2, Zenon
<1>9. (Len(p) - 4) \div (n + 1) = k
  <2>1. Len(p) = 2 + 2 + (1 + n) * k
    BY <1>6 DEF SizedSeq
  <2>2. Len(p) - 4 = (1 + n) * k /\ n + 1 = 1 + n
    BY <1>2, <1>7, <2>1, Times
  <2>3. ((1 + n) * k) \div (1 + n) = k
    BY <1>2, <1>7, Times
  <2> QED BY <2>2, <2>3
<1>10. ManyWritten(p) = EachWritten(p, a, n, k)
  BY <1>6, <1>9, Zenon DEF ManyWritten
<1>11. EachWritten(p, a, n, k) = {Cell(ids[i], a + j, ByteOf(values[i], j)) :
                                     i \in DOMAIN ids, j \in 0..n - 1}
  <2>1. \A e \in 0..k - 1 : e + 1 \in 1..k
    BY <1>7
  <2>2. \A i \in 1..k : i - 1 \in 0..k - 1 /\ i - 1 + 1 = i
    BY <1>7
  <2>3. ASSUME NEW e \in 0..k - 1, NEW j \in 0..n - 1
        PROVE  Cell(p[5 + e * (n + 1)], a + j, p[6 + e * (n + 1) + j])
                 = Cell(ids[e + 1], a + j, ByteOf(values[e + 1], j))
    BY <1>8, Zenon
  <2> DEFINE G(i, j) == Cell(ids[i], a + j, ByteOf(values[i], j))
  <2>4. EachWritten(p, a, n, k) = {G(e + 1, j) : e \in 0..k - 1, j \in 0..n - 1}
    BY <2>3 DEF EachWritten
  <2> HIDE DEF G
  <2>5. {G(e + 1, j) : e \in 0..k - 1, j \in 0..n - 1} = {G(i, j) : i \in 1..k, j \in 0..n - 1}
    <3>1. ASSUME NEW e \in 0..k - 1, NEW j \in 0..n - 1
          PROVE  \E i \in 1..k, m \in 0..n - 1 : G(e + 1, j) = G(i, m)
      BY <2>1
    <3>2. ASSUME NEW i \in 1..k, NEW j \in 0..n - 1
          PROVE  \E e \in 0..k - 1, m \in 0..n - 1 : G(i, j) = G(e + 1, m)
      <4>1. i - 1 \in 0..k - 1 /\ G(i, j) = G(i - 1 + 1, j)
        BY <2>2
      <4> QED BY <4>1
    <3> DEFINE X == {G(e + 1, j) : e \in 0..k - 1, j \in 0..n - 1}
               Y == {G(i, j) : i \in 1..k, j \in 0..n - 1}
    <3>3. ASSUME NEW x \in X PROVE x \in Y
      <4>1. PICK e \in 0..k - 1, j \in 0..n - 1 : x = G(e + 1, j)
        OBVIOUS
      <4> QED BY <3>1, <4>1
    <3>4. ASSUME NEW x \in Y PROVE x \in X
      <4>1. PICK i \in 1..k, j \in 0..n - 1 : x = G(i, j)
        OBVIOUS
      <4> QED BY <3>2, <4>1
    <3> HIDE DEF X, Y
    <3>5. X = Y
      BY <3>3, <3>4
    <3> QED BY <3>5 DEF X, Y
  <2>6. {G(i, j) : i \in 1..k, j \in 0..n - 1} = {G(i, j) : i \in DOMAIN ids, j \in 0..n - 1}
    BY <1>7
  <2> QED BY <2>4, <2>5, <2>6 DEF G
<1>12. WrittenBy(f) = ManyWritten(p) /\ ReadBy(f) = {}
  BY CellsOf
<1> QED BY <1>10, <1>11, <1>12
-----------------------------------------------------------------------------
(* f is what one of the two builders makes of n parameters, the Arduino's    *)
(* one in a buffer of the right size.                                        *)
Made(f) ==
    \E id, instruction, n, params :
        /\ id \in Byte /\ instruction \in Byte
        /\ SizedSeq(Byte, n, params) /\ 3 + n \in Word
        /\ \/ f = Build(id, instruction, params)
           \/ f = build(10 + n, id, instruction, params)

(* f is one packet and makes the servos do what o means.                     *)
Says(f, o) ==
    /\ Made(f) /\ HasPacket(f) /\ PacketSize(f) = Len(f)
    /\ WrittenBy(f) = MeantWrites(o) /\ ReadBy(f) = MeantReads(o)

(* Consecutive addresses.                                                    *)
LEMMA Span ==
    ASSUME NEW a \in Word, NEW n \in {1, 2}
    PROVE  {a + j : j \in 0..n - 1} = a..a + n - 1
<1>1. a \in Int
  BY WordIsNat
<1> HIDE DEF Word
<1>2. \A x \in a..a + n - 1 : x - a \in 0..n - 1 /\ a + (x - a) = x
  BY <1>1
<1>3. \A j \in 0..n - 1 : a + j \in a..a + n - 1
  BY <1>1
<1> QED BY <1>2, <1>3

(* The packets without parameters: nothing is read or written.               *)
LEMMA QuietSays ==
    ASSUME NEW o, o.k \in {"PingOrder", "ping", "reset", "reboot"}
    PROVE  Says(Encode(o), o)
<1>1. SizedSeq(Byte, 0, <<>>) /\ 3 + 0 \in Word /\ BroadcastId \in Byte
  BY ShortEnough DEF SizedSeq, BroadcastId, Byte
<1>2. Ping \in Byte /\ FactoryReset \in Byte /\ Reboot \in Byte
  BY DEF Ping, FactoryReset, Reboot, Byte
<1>3. PICK i \in {Ping, FactoryReset, Reboot} : Reads(Encode(o), BroadcastId, i, <<>>)
  <2>1. /\ Reads(PingOrder, BroadcastId, Ping, <<>>)
        /\ Reads(FillBPing, BroadcastId, Ping, <<>>)
        /\ Reads(FillBReset, BroadcastId, FactoryReset, <<>>)
        /\ Reads(FillBReboot, BroadcastId, Reboot, <<>>)
    BY <1>1, <1>2, BuiltReads DEF PingOrder, FillBPing, FillBReset, FillBReboot
  <2>2. Encode(o) \in {PingOrder, FillBPing, FillBReset, FillBReboot}
    BY DEF Encode
  <2> QED BY <2>1, <2>2
<1>4. MeantWrites(o) = {} /\ MeantReads(o) = {}
  BY DEF MeantWrites, MeantReads
<1>5. WrittenBy(Encode(o)) = {} /\ ReadBy(Encode(o)) = {}
  BY <1>3, CellsOf
<1>6. Made(Encode(o))
  <2>1. 10 + 0 = 10 /\ 0 \in Nat
    OBVIOUS
  <2>2. /\ Made(PingOrder) /\ Made(FillBPing) /\ Made(FillBReset) /\ Made(FillBReboot)
    BY <1>1, <1>2, <2>1 DEF Made, PingOrder, FillBPing, FillBReset, FillBReboot
  <2>3. Encode(o) \in {PingOrder, FillBPing, FillBReset, FillBReboot}
    BY DEF Encode
  <2> QED BY <2>2, <2>3
<1> QED BY <1>3, <1>4, <1>5, <1>6 DEF Says, Reads

(* A read of one register of one servo.                                      *)
LEMMA ReadSays ==
    ASSUME NEW o, o.k = "ReadOrder", o.id \in Ids, o.reg \in HostRegisters
    PROVE  Says(Encode(o), o)
<1> DEFINE a == RegMap[o.reg].address
           n == RegMap[o.reg].size
           v == WordBytes(a)
           w == WordBytes(n)
           p == v \o w
<1>1. a \in Word /\ n \in {1, 2} /\ n \in Word
  BY RegistersAre, ShortEnough DEF Byte
<1>2. o.id \in Byte /\ Read \in Byte
  <2>1. Read \in Byte
    BY DEF Byte, Read
  <2> QED BY <2>1, IdsAreBytes
<1>3. MeantWrites(o) = {} /\ MeantReads(o) = {o.id} \X (a..a + n - 1)
  BY DEF MeantWrites, MeantReads
<1>4. Encode(o) = Build(o.id, Read, p)
  BY DEF Encode, ReadOrder
<1> HIDE DEF a, n
<1>5. SizedSeq(Byte, 2, v) /\ SizedSeq(Byte, 2, w)
  BY <1>1, WordBytesAre
<1> HIDE DEF v, w
<1>6. SizedSeq(Byte, 2 + 2, p)
  BY <1>5, JoinedAre
<1>7. Addressed(p, a, WordBytes(n))
  BY DEF Addressed, v, w
<1> HIDE DEF p
<1>8. Reads(Encode(o), o.id, Read, p)
  BY <1>2, <1>4, <1>6, ShortEnough, BuiltReads
<1>9. WrittenBy(Encode(o)) = {} /\ ReadBy(Encode(o)) = {o.id} \X {a + j : j \in 0..n - 1}
  BY <1>1, <1>7, <1>8, ReadArrives
<1>10. {a + j : j \in 0..n - 1} = a..a + n - 1
  BY <1>1, Span
<1>11. Made(Encode(o))
  BY <1>2, <1>4, <1>6, ShortEnough DEF Made
<1> QED BY <1>3, <1>8, <1>9, <1>10, <1>11 DEF Says, Reads

(* A write of one register of one servo.                                     *)
LEMMA WriteSays ==
    ASSUME NEW o, o.k = "WriteOrder", o.id \in Ids, o.reg \in HostRegisters, o.value \in Values
    PROVE  Says(Encode(o), o)
<1> DEFINE a == RegMap[o.reg].address
           n == RegMap[o.reg].size
           v == WordBytes(a)
           w == ValueBytes(o.value, n)
           p == v \o w
<1>1. a \in Word /\ n \in {1, 2} /\ o.value \in Word
  BY RegistersAre, ShortEnough, ValuesAssumption
<1>2. o.id \in Byte /\ Write \in Byte
  <2>1. Write \in Byte
    BY DEF Byte, Write
  <2> QED BY <2>1, IdsAreBytes
<1>3. /\ MeantWrites(o) = {Cell(o.id, a + j, ByteOf(o.value, j)) : j \in 0..n - 1}
      /\ MeantReads(o) = {}
  BY DEF MeantWrites, MeantReads
<1>4. Encode(o) = Build(o.id, Write, p)
  BY DEF Encode, WriteOrder
<1> HIDE DEF a, n
<1>5. SizedSeq(Byte, 2, v) /\ SizedSeq(Byte, n, w)
  BY <1>1, WordBytesAre, ValueBytesAre
<1> HIDE DEF v, w
<1>6. SizedSeq(Byte, 2 + n, p)
  BY <1>5, JoinedAre
<1>7. Addressed(p, a, ValueBytes(o.value, n))
  BY DEF Addressed, v, w
<1> HIDE DEF p
<1>8. 3 + (2 + n) \in Word
  BY <1>1, ShortEnough
<1>9. Reads(Encode(o), o.id, Write, p)
  BY <1>2, <1>4, <1>6, <1>8, BuiltReads
<1>10. /\ WrittenBy(Encode(o)) = {Cell(o.id, a + j, ByteOf(o.value, j)) : j \in 0..n - 1}
       /\ ReadBy(Encode(o)) = {}
  BY <1>1, <1>7, <1>9, WriteArrives
<1>11. Made(Encode(o))
  <2>1. PICK k \in Nat : k = 2 + n
    BY <1>1
  <2> QED BY <1>2, <1>4, <1>6, <1>8, <2>1 DEF Made
<1> QED BY <1>3, <1>9, <1>10, <1>11 DEF Says, Reads

(* The selections are sequences of bytes, short enough.                      *)
LEMMA SelectionsAre ==
    ASSUME NEW ids \in Selections
    PROVE  /\ SizedSeq(Byte, Len(ids), ids)
           /\ 3 + (2 + 2 + Len(ids)) \in Word
           /\ \A n \in {1, 2} : 3 + (2 + 2 + (1 + n) * Len(ids)) \in Word
           /\ GetBsPull(Len(ids)) = 10 + (2 + 2 + Len(ids))
           /\ \A n \in {1, 2} : GetBsPush(Len(ids), n) = 10 + (2 + 2 + (1 + n) * Len(ids))
<1>1. ids \in Seq(Ids) /\ 14 + 3 * Len(ids) < 256
  BY IdsAssumption
<1>2. Len(ids) \in Nat
  BY <1>1, LenProperties
<1>3. SizedSeq(Ids, Len(ids), ids)
  BY <1>1, <1>2 DEF SizedSeq
<1>4. SizedSeq(Byte, Len(ids), ids)
  BY <1>3, IdsAreBytes, SeqOfMore
<1>5. PICK k \in Nat : k = Len(ids) /\ 14 + 3 * k < 256
  BY <1>1, <1>2
<1>6. /\ 3 + (2 + 2 + k) \in Word
      /\ 3 + (2 + 2 + 2 * k) \in Word /\ 3 + (2 + 2 + 3 * k) \in Word
  BY <1>5, ShortEnough
<1>7. \A n \in {1, 2} : 3 + (2 + 2 + (1 + n) * k) \in Word
  BY <1>6
<1>8. GetBsPull(k) = 10 + (2 + 2 + k)
  BY <1>5 DEF GetBsPull
<1>9. \A n \in {1, 2} : GetBsPush(k, n) = 10 + (2 + 2 + (1 + n) * k)
  <2>1. GetBsPush(k, 1) = 10 + (2 + 2 + (1 + 1) * k)
    BY <1>5 DEF GetBsPush
  <2>2. GetBsPush(k, 2) = 10 + (2 + 2 + (1 + 2) * k)
    BY <1>5 DEF GetBsPush
  <2> QED BY <2>1, <2>2
<1> QED BY <1>4, <1>5, <1>6, <1>7, <1>8, <1>9, Zenon

(* A read of one register of the selected servos.                            *)
LEMMA PullSays ==
    ASSUME NEW o, o.k = "pull", o.ids \in Selections, o.reg \in ArduinoRegisters
    PROVE  Says(Encode(o), o)
<1> DEFINE a == addr(o.reg)
           n == size(o.reg)
           ids == o.ids
           k == Len(ids)
           p == WordBytes(a) \o WordBytes(n) \o ids
<1>1. a \in Word /\ n \in {1, 2} /\ n \in Word
  BY RegistersAre, ShortEnough DEF Byte
<1>2. BroadcastId \in Byte /\ SyncRead \in Byte
  BY DEF Byte, BroadcastId, SyncRead
<1>3. /\ MeantWrites(o) = {}
      /\ MeantReads(o) = Range(ids) \X (a..a + n - 1)
  BY DEF MeantWrites, MeantReads
<1>4. Encode(o) = build(GetBsPull(k), BroadcastId, SyncRead, p)
  BY DEF Encode, FillBPull
<1>5. /\ SizedSeq(Byte, k, ids) /\ 3 + (2 + 2 + k) \in Word
      /\ GetBsPull(k) = 10 + (2 + 2 + k)
  BY SelectionsAre
<1>6. Sized(p, a, n, ids)
  BY DEF Sized
<1> HIDE DEF a, n, ids, k, p
<1>7. SizedSeq(Byte, 2 + 2 + k, p)
  BY <1>1, <1>5, <1>6, SizeSecond
<1>8. Reads(Encode(o), BroadcastId, SyncRead, p)
  BY <1>2, <1>4, <1>5, <1>7, BuiltReads
<1>9. /\ WrittenBy(Encode(o)) = {}
      /\ ReadBy(Encode(o)) = Range(ids) \X {a + j : j \in 0..n - 1}
  BY <1>1, <1>5, <1>6, <1>8, PullArrives
<1>10. {a + j : j \in 0..n - 1} = a..a + n - 1
  BY <1>1, Span
<1>11. Made(Encode(o))
  <2>1. PICK m \in Nat : m = 2 + 2 + k
    BY <1>5 DEF SizedSeq
  <2> QED BY <1>2, <1>4, <1>5, <1>7, <2>1 DEF Made
<1> QED BY <1>3, <1>8, <1>9, <1>10, <1>11 DEF Says, Reads

(* A write of one register of the selected servos.                           *)
LEMMA PushSays ==
    ASSUME NEW o, o.k = "push", o.ids \in Selections, o.reg \in ArduinoRegisters,
           o.values \in [DOMAIN o.ids -> Values]
    PROVE  Says(Encode(o), o)
<1> DEFINE a == addr(o.reg)
           n == size(o.reg)
           ids == o.ids
           values == o.values
           k == Len(ids)
           s == PiecesOf(ids, values, n)
           p == WordBytes(a) \o WordBytes(n) \o FlattenSeq(s)
<1>1. a \in Word /\ n \in {1, 2} /\ n \in Word
  BY RegistersAre, ShortEnough DEF Byte
<1>2. BroadcastId \in Byte /\ SyncWrite \in Byte
  BY DEF Byte, BroadcastId, SyncWrite
<1>3. /\ MeantWrites(o) = {Cell(ids[i], a + j, ByteOf(values[i], j)) :
                              i \in DOMAIN ids, j \in 0..n - 1}
      /\ MeantReads(o) = {}
  BY DEF MeantWrites, MeantReads
<1>4. Encode(o) = build(GetBsPush(k, n), BroadcastId, SyncWrite, p)
  BY DEF Encode, FillBPush, PiecesOf, Piece
<1>5. /\ SizedSeq(Byte, k, ids) /\ 3 + (2 + 2 + (1 + n) * k) \in Word
      /\ GetBsPush(k, n) = 10 + (2 + 2 + (1 + n) * k)
  BY <1>1, SelectionsAre
<1>6. values \in [DOMAIN ids -> Word]
  BY ValuesAssumption
<1>7. Sized(p, a, n, FlattenSeq(s))
  BY DEF Sized
<1> HIDE DEF a, n, ids, values, k, p
<1>8. SizedSeq(Byte, 2 + 2 + (1 + n) * k, p)
  <2>1. SizedSeq(Seq(Byte), k, s) /\ \A i \in 1..k : SizedSeq(Byte, 1 + n, s[i])
    BY <1>1, <1>5, <1>6, PiecesAre
  <2>2. 1 + n \in {2, 3}
    BY <1>1
  <2> DEFINE q == FlattenSeq(s)
  <2>3. MadeOf(Byte, q, s, 1 + n, k)
    <3> HIDE DEF s
    <3> QED BY <2>1, <2>2, FlattenIs
  <2>4. Sized(p, a, n, q)
    BY <1>7
  <2> HIDE DEF q
  <2>5. SizedSeq(Byte, (1 + n) * k, q)
    BY <2>3 DEF MadeOf
  <2> QED BY <1>1, <2>4, <2>5, SizeSecond
<1> HIDE DEF s
<1>9. Reads(Encode(o), BroadcastId, SyncWrite, p)
  BY <1>2, <1>4, <1>5, <1>8, BuiltReads
<1>10. /\ WrittenBy(Encode(o)) = {Cell(ids[i], a + j, ByteOf(values[i], j)) :
                                     i \in DOMAIN ids, j \in 0..n - 1}
       /\ ReadBy(Encode(o)) = {}
  BY <1>1, <1>5, <1>6, <1>7, <1>9, PushArrives DEF s
<1>11. Made(Encode(o))
  <2>1. PICK m \in Nat : m = 2 + 2 + (1 + n) * k
    BY <1>8 DEF SizedSeq
  <2> QED BY <1>2, <1>4, <1>5, <1>8, <2>1 DEF Made
<1> QED BY <1>3, <1>9, <1>10, <1>11 DEF Says, Reads

(* Every order and every broadcast.                                          *)
LEMMA OrdersSay ==
    ASSUME NEW o \in HostOrders \cup Broadcasts
    PROVE  Says(Encode(o), o)
<1>1. CASE o \in [k : {"PingOrder"}]
  BY <1>1, QuietSays
<1>2. CASE o \in [k : {"ReadOrder"}, id : Ids, reg : HostRegisters]
  BY <1>2, ReadSays
<1>3. CASE o \in [k : {"WriteOrder"}, id : Ids, reg : HostRegisters, value : Values]
  BY <1>3, WriteSays
<1>4. CASE o \in [k : {"ping", "reset", "reboot"}]
  BY <1>4, QuietSays
<1>5. CASE o \in [k : {"pull"}, ids : Selections, reg : ArduinoRegisters]
  BY <1>5, PullSays
<1>6. CASE \E ids \in Selections :
             o \in [k : {"push"}, ids : {ids}, reg : ArduinoRegisters,
                    values : [DOMAIN ids -> Values]]
  BY <1>6, PushSays
<1> QED BY <1>1, <1>2, <1>3, <1>4, <1>5, <1>6 DEF HostOrders, Broadcasts
-----------------------------------------------------------------------------
(* Until a byte of it is damaged, what is on the line is what was built.     *)
FrameInv == order \in HostOrders \cup Broadcasts /\ (~damaged => frame = Encode(order))

(* So it is for every order of the host and every broadcast of the Arduino.  *)
LEMMA FrameAlways == Spec => []FrameInv
<1>1. Init => FrameInv
  BY DEF Init, FrameInv
<1>2. FrameInv /\ [Next]_vars => FrameInv'
  <2> SUFFICES ASSUME FrameInv, [Next]_vars PROVE FrameInv'
    OBVIOUS
  <2>1. CASE Damage
    BY <2>1 DEF Damage, FrameInv
  <2>2. CASE Arrive
    BY <2>2 DEF Arrive, vars, FrameInv
  <2>3. CASE UNCHANGED vars
    BY <2>3 DEF vars, FrameInv
  <2> QED BY <2>1, <2>2, <2>3 DEF Next
<1> QED BY <1>1, <1>2, PTL DEF Spec

(* What Packet::Build and Packet::build make of an order is one packet,      *)
(* neither more nor less, for every id, value and selection of servos.       *)
THEOREM OrdersAreOnePacket == Spec => []OnePacket
<1>1. FrameInv => OnePacket
  BY OrdersSay DEF FrameInv, Says, OnePacket
<1> QED BY <1>1, FrameAlways, PTL

(* Orders arrive: read back from its bytes the packet reads and writes the   *)
(* registers and the values that were meant.                                 *)
THEOREM OrdersSurviveTheWire == Spec => []OrderArrives
<1>1. FrameInv => OrderArrives
  BY OrdersSay DEF FrameInv, Says, OrderArrives
<1> QED BY <1>1, FrameAlways, PTL
-----------------------------------------------------------------------------
(* The table, entry by entry: twice an index is one shift more, and the one  *)
(* behind it has the polynomial added.                                       *)
LEMMA TableDoubles ==
    \A i \in 0..127 : /\ crc_table[2 * i + 1] = Shift(crc_table[i + 1])
                      /\ crc_table[2 * i + 2] = Xor(crc_table[2 * i + 1], \h8005)
<1>1. \A i \in 0..127 : crc_table[2 * i + 1] = Shift(crc_table[i + 1])
  BY DEF crc_table, Xor, XorBit, Shift
<1>2. \A i \in 0..127 : crc_table[2 * i + 2] = Xor(crc_table[2 * i + 1], \h8005)
  BY DEF crc_table, Xor, XorBit
<1> QED BY <1>1, <1>2

(* A half of a half.                                                         *)
LEMMA HalfOf ==
    ASSUME NEW w \in Nat, NEW m \in {1, 2, 4, 8, 16, 32, 64, 128, 256, 512, 1024,
                                    2048, 4096, 8192, 16384}
    PROVE  (w \div 2) \div m = w \div (2 * m)
<1>1. (w \div 2) \div 1 = w \div 2
  OBVIOUS
<1>2. (w \div 2) \div 2 = w \div 4
  OBVIOUS
<1>3. (w \div 2) \div 4 = w \div 8
  OBVIOUS
<1>4. (w \div 2) \div 8 = w \div 16
  OBVIOUS
<1>5. (w \div 2) \div 16 = w \div 32
  OBVIOUS
<1>6. (w \div 2) \div 32 = w \div 64
  OBVIOUS
<1>7. (w \div 2) \div 64 = w \div 128
  OBVIOUS
<1>8. (w \div 2) \div 128 = w \div 256
  OBVIOUS
<1>9. (w \div 2) \div 256 = w \div 512
  OBVIOUS
<1>10. (w \div 2) \div 512 = w \div 1024
  OBVIOUS
<1>11. (w \div 2) \div 1024 = w \div 2048
  OBVIOUS
<1>12. (w \div 2) \div 2048 = w \div 4096
  OBVIOUS
<1>13. (w \div 2) \div 4096 = w \div 8192
  OBVIOUS
<1>14. (w \div 2) \div 8192 = w \div 16384
  OBVIOUS
<1>15. (w \div 2) \div 16384 = w \div 32768
  OBVIOUS
<1> QED BY <1>1, <1>2, <1>3, <1>4, <1>5, <1>6, <1>7, <1>8, <1>9, <1>10, <1>11, <1>12, <1>13, <1>14, <1>15

(* Words are the numbers below 65536.                                        *)
LEMMA WordIff == \A w : w \in Word <=> w \in Int /\ 0 <= w /\ w < 65536
BY DEF Word

(* What the bits count.                                                      *)
Units == {1, 2, 4, 8, 16, 32, 64, 128, 256, 512, 1024, 2048, 4096, 8192, 16384, 32768}

(* A quotient of a word is a number.                                         *)
LEMMA Quotient ==
    ASSUME NEW a \in Word, NEW m \in Units
    PROVE  a \div m \in Int
<1>1. a \in Int
  BY WordIsNat
<1>2. m \in Int /\ m > 0
  BY DEF Units
<1> QED BY <1>1, <1>2

(* One bit of an exclusive or: it is there or not, and the order does not matter.*)
LEMMA XorBitIs ==
    ASSUME NEW a \in Word, NEW b \in Word, NEW m \in Units
    PROVE  XorBit(a, b, m) \in {0, m} /\ XorBit(b, a, m) = XorBit(a, b, m)
<1>1. PICK x \in Int : x = a \div m
  BY Quotient
<1>2. PICK y \in Int : y = b \div m
  BY Quotient
<1>3. PICK z \in {0, 1} : z = (x + y) % 2
  OBVIOUS
<1>4. (y + x) % 2 = z
  BY <1>3
<1>5. m * z \in {0, m}
  BY <1>3 DEF Units
<1> QED BY <1>1, <1>2, <1>3, <1>4, <1>5, Zenon DEF XorBit

(* A bit of the halves is the next one of the words.                         *)
LEMMA XorBitHalf ==
    ASSUME NEW a \in Word, NEW b \in Word, NEW m \in Units, m # 32768
    PROVE  2 * XorBit(a \div 2, b \div 2, m) = XorBit(a, b, 2 * m)
<1>1. a \in Nat /\ b \in Nat
  BY WordIsNat
<1>2. PICK n : n = 2 * m
  OBVIOUS
<1>3. (a \div 2) \div m = a \div n /\ (b \div 2) \div m = b \div n
  BY <1>1, <1>2, HalfOf DEF Units
<1>4. n \in Units
  BY <1>2 DEF Units
<1>5. PICK x \in Int : x = (a \div n + b \div n) % 2
  <2>1. a \div n \in Int /\ b \div n \in Int
    BY <1>4, Quotient
  <2> QED BY <2>1
<1>6. 2 * (m * x) = n * x
  BY <1>2 DEF Units
<1>7. XorBit(a, b, n) = n * x
  BY <1>5 DEF XorBit
<1>8. XorBit(a \div 2, b \div 2, m) = m * x
  BY <1>3, <1>5 DEF XorBit
<1> QED BY <1>2, <1>6, <1>7, <1>8

(* Exclusive or, by halves: the lowest bit, and the same of the others.      *)
LEMMA XorHalves ==
    ASSUME NEW a \in Word, NEW b \in Word
    PROVE  /\ Xor(a, b) \in Word /\ Xor(b, a) = Xor(a, b)
           /\ a \div 2 \in Word /\ b \div 2 \in Word
           /\ Xor(a, b) = 2 * Xor(a \div 2, b \div 2) + ((a + b) % 2)
<1>1. \A w \in Word :
          /\ w \in Nat /\ w \div 2 \in Word /\ w \div 1 = w /\ (w \div 2) \div 32768 = 0
  <2> SUFFICES ASSUME NEW w \in Word
               PROVE  /\ w \in Nat /\ w \div 2 \in Word /\ w \div 1 = w
                      /\ (w \div 2) \div 32768 = 0
    OBVIOUS
  <2>1. w \in Nat /\ w < 65536
    BY WordIff
  <2>2. PICK h \in Nat : h = w \div 2 /\ h < 32768
    BY <2>1
  <2>3. h \div 32768 = 0 /\ w \div 1 = w
    BY <2>1, <2>2
  <2>4. h \in Word
    BY <2>2, WordIff
  <2> QED BY <2>1, <2>2, <2>3, <2>4
<1> DEFINE bit(m) == XorBit(a, b, m)
           half(m) == XorBit(a \div 2, b \div 2, m)
           Four(f, i, j, k, l) == f[i] + f[j] + f[k] + f[l]
           ab == [m \in Units |-> bit(m)]
           hh == [m \in Units |-> half(m)]
<1>2. \A m \in Units : bit(m) \in {0, m} /\ XorBit(b, a, m) = bit(m) /\ half(m) \in {0, m}
  BY <1>1, XorBitIs
<1>3. \A m \in Units : m # 32768 => 2 * half(m) = bit(2 * m)
  BY XorBitHalf
<1>4. half(32768) = 0
  <2>1. 32768 * ((0 + 0) % 2) = 0
    OBVIOUS
  <2> QED BY <1>1, <2>1 DEF XorBit
<1>5. bit(1) = (a + b) % 2
  <2>1. PICK x \in Int : x = (a + b) % 2
    BY <1>1
  <2>2. 1 * x = x
    OBVIOUS
  <2> QED BY <1>1, <2>1, <2>2 DEF XorBit
<1> HIDE DEF bit, half
<1>6. \A m \in Units : /\ ab[m] = bit(m) /\ hh[m] = half(m)
                       /\ ab[m] \in Int /\ 0 <= ab[m] /\ ab[m] <= m /\ hh[m] \in Int
                       /\ (m # 32768 => 2 * hh[m] = ab[2 * m])
  <2>1. \A m \in Units : m # 32768 => 2 * m \in Units
    BY DEF Units
  <2>2. \A m \in Units : m \in Int /\ 0 <= m
    BY DEF Units
  <2> QED BY <1>2, <1>3, <2>1, <2>2
<1>7. ab[1] = (a + b) % 2 /\ hh[32768] = 0
  BY <1>4, <1>5 DEF Units
<1> HIDE DEF ab, hh
<1> DEFINE a1 == Four(ab, 1, 2, 4, 8)
           a2 == Four(ab, 16, 32, 64, 128)
           a3 == Four(ab, 256, 512, 1024, 2048)
           a4 == Four(ab, 4096, 8192, 16384, 32768)
           h1 == Four(hh, 1, 2, 4, 8)
           h2 == Four(hh, 16, 32, 64, 128)
           h3 == Four(hh, 256, 512, 1024, 2048)
           h4 == Four(hh, 4096, 8192, 16384, 32768)
<1>8. /\ Xor(a, b) = a1 + a2 + a3 + a4 /\ Xor(b, a) = a1 + a2 + a3 + a4
      /\ Xor(a \div 2, b \div 2) = h1 + h2 + h3 + h4
  <2>1. \A m \in Units : /\ XorBit(a, b, m) = ab[m] /\ XorBit(b, a, m) = ab[m]
                         /\ XorBit(a \div 2, b \div 2, m) = hh[m]
    BY <1>2, <1>6 DEF bit, half
  <2> QED BY <2>1 DEF Xor, Units
<1>9. /\ a1 \in Int /\ 0 <= a1 /\ a1 <= 15 /\ a2 \in Int /\ 0 <= a2 /\ a2 <= 240
      /\ a3 \in Int /\ 0 <= a3 /\ a3 <= 3840 /\ a4 \in Int /\ 0 <= a4 /\ a4 <= 61440
  BY <1>6 DEF Units
<1>10. h1 \in Int /\ h2 \in Int /\ h3 \in Int /\ h4 \in Int
  BY <1>6 DEF Units
<1>11. ab[1] \in Int /\ ab[16] \in Int /\ ab[256] \in Int /\ ab[4096] \in Int
  BY <1>6 DEF Units
<1>12. 2 * h1 + ab[1] = a1 + ab[16] /\ 2 * h2 + ab[16] = a2 + ab[256]
  BY <1>6 DEF Units
<1>13. 2 * h3 + ab[256] = a3 + ab[4096] /\ 2 * h4 + ab[4096] = a4
  BY <1>6, <1>7 DEF Units
<1> HIDE DEF a1, a2, a3, a4, h1, h2, h3, h4
<1>14. PICK s \in Int, t \in Int : s = a1 + a2 + a3 + a4 /\ t = h1 + h2 + h3 + h4
  BY <1>9, <1>10
<1>15. 0 <= s /\ s < 65536
  BY <1>9, <1>14
<1>16. s = 2 * t + ab[1]
  <2>1. 2 * t = 2 * h1 + 2 * h2 + (2 * h3 + 2 * h4)
    BY <1>10, <1>14
  <2>2. 2 * h1 + 2 * h2 = a1 + a2 + ab[256] - ab[1]
    BY <1>9, <1>10, <1>11, <1>12
  <2>3. 2 * h3 + 2 * h4 = a3 + a4 - ab[256]
    BY <1>9, <1>10, <1>11, <1>13
  <2> QED BY <1>9, <1>11, <1>14, <2>1, <2>2, <2>3
<1>17. s \in Word
  BY <1>15, WordIff
<1>18. Xor(a, b) = s /\ Xor(b, a) = s /\ Xor(a \div 2, b \div 2) = t
  BY <1>8, <1>14
<1>19. a \div 2 \in Word /\ b \div 2 \in Word
  BY <1>1
<1>20. PICK r : r = (a + b) % 2
  OBVIOUS
<1>21. Xor(a, b) = 2 * Xor(a \div 2, b \div 2) + r
  <2>1. ab[1] = r
    BY <1>7, <1>20
  <2> QED BY <1>16, <1>18, <2>1, Zenon
<1> QED BY <1>17, <1>18, <1>19, <1>20, <1>21, Zenon

(* P holds of three words if it does of their halves.                        *)
HalvesOnly(P) == \A x \in Word \X Word \X Word :
    <<x[1] \div 2, x[2] \div 2, x[3] \div 2>> \in P => x \in P

(* What holds of zeros and survives doubling holds of all words.             *)
LEMMA ByHalves ==
    ASSUME NEW P, <<0, 0, 0>> \in P, HalvesOnly(P)
    PROVE  \A a, b, c \in Word : <<a, b, c>> \in P
<1> DEFINE T == {n \in Nat : \E a, b, c \in Word : <<a, b, c>> \notin P /\ n = a + b + c}
<1> SUFFICES ASSUME T # {} PROVE FALSE
  <2>1. \A a, b, c \in Word : a + b + c \in Nat
    BY WordIff
  <2> QED BY <2>1
<1>1. PICK n \in T : \A m \in T : n <= m
  BY Smallest
<1>2. PICK a \in Word, b \in Word, c \in Word : <<a, b, c>> \notin P /\ n = a + b + c
  BY <1>1
<1> HIDE DEF T
<1>3. PICK x \in Nat, y \in Nat, z \in Nat :
          /\ x = a \div 2 /\ y = b \div 2 /\ z = c \div 2
          /\ x + y + z <= n /\ (x + y + z < n \/ (a = 0 /\ b = 0 /\ c = 0))
          /\ x < 65536 /\ y < 65536 /\ z < 65536
  <2>1. \A w \in Nat : w \div 2 \in Nat /\ w \div 2 <= w /\ (w \div 2 < w \/ w = 0)
    OBVIOUS
  <2>2. a \in Nat /\ b \in Nat /\ c \in Nat /\ a < 65536 /\ b < 65536 /\ c < 65536
    BY WordIff
  <2> QED BY <1>2, <2>1, <2>2
<1>4. x \in Word /\ y \in Word /\ z \in Word
  BY <1>3, WordIff
<1>5. ~(a = 0 /\ b = 0 /\ c = 0)
  BY <1>2
<1>6. x + y + z \in Nat /\ ~(n <= x + y + z)
  <2>1. n \in Nat
    BY <1>1 DEF T
  <2> QED BY <1>3, <1>5, <2>1
<1>7. <<x, y, z>> \in P
  <2>1. x + y + z \notin T
    BY <1>1, <1>6
  <2> QED BY <1>4, <1>6, <2>1 DEF T
<1>8. <<a, b, c>> \in P
  <2>1. PICK t : t = <<a, b, c>>
    OBVIOUS
  <2>2. t \in Word \X Word \X Word /\ t[1] = a /\ t[2] = b /\ t[3] = c
    BY <2>1
  <2>3. <<t[1] \div 2, t[2] \div 2, t[3] \div 2>> \in P
    BY <1>3, <1>7, <2>2
  <2> QED BY <2>1, <2>2, <2>3 DEF HalvesOnly
<1> QED BY <1>2, <1>8

(* Nothing is nothing.                                                       *)
LEMMA XorZero == Xor(0, 0) = 0
<1>1. \A m \in Units : XorBit(0, 0, m) = 0
  <2> TAKE m \in Units
  <2>1. 0 \div m = 0
    BY DEF Units
  <2>2. (0 + 0) % 2 = 0 /\ m * 0 = 0
    BY DEF Units
  <2> QED BY <2>1, <2>2 DEF XorBit
<1> QED BY <1>1 DEF Xor, Units

(* Exclusive or cannot hide a difference.                                    *)
LEMMA XorCancels ==
    ASSUME NEW a \in Word, NEW b \in Word, NEW c \in Word, Xor(a, b) = Xor(a, c)
    PROVE  b = c
<1> DEFINE P == {x \in Word \X Word \X Word : Xor(x[1], x[2]) = Xor(x[1], x[3]) => x[2] = x[3]}
<1>1. 0 \in Word
  BY WordIff
<1>2. <<0, 0, 0>> \in P
  BY <1>1
<1>3. HalvesOnly(P)
  <2> SUFFICES ASSUME NEW x \in Word \X Word \X Word,
                      <<x[1] \div 2, x[2] \div 2, x[3] \div 2>> \in P,
                      Xor(x[1], x[2]) = Xor(x[1], x[3])
               PROVE  x[2] = x[3]
    BY DEF HalvesOnly
  <2>1. PICK u \in Word, v \in Word, w \in Word : x[1] = u /\ x[2] = v /\ x[3] = w
    OBVIOUS
  <2>2. PICK h \in Word, i \in Word, j \in Word : h = u \div 2 /\ i = v \div 2 /\ j = w \div 2
    BY XorHalves
  <2>3. Xor(h, i) = Xor(h, j) => i = j
    BY <2>1, <2>2
  <2>4. Xor(u, v) = 2 * Xor(h, i) + ((u + v) % 2) /\ Xor(u, w) = 2 * Xor(h, j) + ((u + w) % 2)
    BY <2>2, XorHalves
  <2>5. u \in Int /\ v \in Int /\ w \in Int /\ Xor(h, i) \in Int /\ Xor(h, j) \in Int
    <3>1. Xor(h, i) \in Word /\ Xor(h, j) \in Word
      BY XorHalves
    <3> QED BY <3>1, WordIff
  <2>6. Xor(h, i) = Xor(h, j) /\ (u + v) % 2 = (u + w) % 2
    BY <2>1, <2>4, <2>5
  <2>7. v % 2 = w % 2
    BY <2>5, <2>6
  <2> QED BY <2>1, <2>2, <2>3, <2>5, <2>6, <2>7
<1>4. <<a, b, c>> \in P
  <2> HIDE DEF P
  <2> QED BY <1>2, <1>3, ByHalves
<1> QED BY <1>4

(* The order of three does not matter.                                       *)
LEMMA XorAssociative ==
    ASSUME NEW a \in Word, NEW b \in Word, NEW c \in Word
    PROVE  Xor(Xor(a, b), c) = Xor(a, Xor(b, c))
<1> DEFINE P == {x \in Word \X Word \X Word :
                    Xor(Xor(x[1], x[2]), x[3]) = Xor(x[1], Xor(x[2], x[3]))}
<1>1. 0 \in Word
  BY WordIff
<1>2. <<0, 0, 0>> \in P
  BY <1>1, XorZero
<1>3. HalvesOnly(P)
  <2> SUFFICES ASSUME NEW x \in Word \X Word \X Word,
                      <<x[1] \div 2, x[2] \div 2, x[3] \div 2>> \in P
               PROVE  Xor(Xor(x[1], x[2]), x[3]) = Xor(x[1], Xor(x[2], x[3]))
    BY DEF HalvesOnly
  <2>1. PICK u \in Word, v \in Word, w \in Word : x[1] = u /\ x[2] = v /\ x[3] = w
    OBVIOUS
  <2>2. PICK h \in Word, i \in Word, j \in Word : h = u \div 2 /\ i = v \div 2 /\ j = w \div 2
    BY XorHalves
  <2>3. Xor(Xor(h, i), j) = Xor(h, Xor(i, j))
    BY <2>1, <2>2
  <2>4. PICK p \in Word, q \in Word : p = Xor(u, v) /\ q = Xor(v, w)
    BY XorHalves
  <2>5. PICK r \in Word, s \in Word : r = Xor(h, i) /\ s = Xor(i, j)
    BY XorHalves
  <2>6. p = 2 * r + ((u + v) % 2) /\ q = 2 * s + ((v + w) % 2)
    BY <2>2, <2>4, <2>5, XorHalves
  <2>7. /\ u \in Int /\ v \in Int /\ w \in Int /\ p \in Int /\ q \in Int
        /\ r \in Int /\ s \in Int
    BY WordIff
  <2>8. p \div 2 = r /\ q \div 2 = s /\ (p + w) % 2 = (u + q) % 2
    BY <2>6, <2>7
  <2>9. Xor(p, w) = 2 * Xor(r, j) + ((p + w) % 2) /\ Xor(u, q) = 2 * Xor(h, s) + ((u + q) % 2)
    <3>1. Xor(p, w) = 2 * Xor(p \div 2, w \div 2) + ((p + w) % 2)
      BY XorHalves
    <3>2. Xor(u, q) = 2 * Xor(u \div 2, q \div 2) + ((u + q) % 2)
      BY XorHalves
    <3> QED BY <2>2, <2>8, <3>1, <3>2
  <2>10. Xor(r, j) = Xor(h, s)
    BY <2>3, <2>5
  <2> QED BY <2>1, <2>4, <2>8, <2>9, <2>10
<1>4. <<a, b, c>> \in P
  <2> HIDE DEF P
  <2> QED BY <1>2, <1>3, ByHalves
<1> QED BY <1>4
-----------------------------------------------------------------------------
(* The function of Shifted exists: eight shifts, one after the other.        *)
LEMMA ShiftedIs ==
    ASSUME NEW w
    PROVE  Shifted(w) = Shift(Shift(Shift(Shift(Shift(Shift(Shift(Shift(w))))))))
<1> DEFINE Is(c) == c = [bit \in 0..8 |-> IF bit = 0 THEN w ELSE Shift(c[bit - 1])]
           c0 == CHOOSE c : Is(c)
<1>1. Shifted(w) = c0[8]
  BY Zenon DEF Shifted
<1>2. PICK f : f = <<w, Shift(w), Shift(Shift(w)), Shift(Shift(Shift(w))),
                     Shift(Shift(Shift(Shift(w)))), Shift(Shift(Shift(Shift(Shift(w))))),
                     Shift(Shift(Shift(Shift(Shift(Shift(w)))))),
                     Shift(Shift(Shift(Shift(Shift(Shift(Shift(w))))))),
                     Shift(Shift(Shift(Shift(Shift(Shift(Shift(Shift(w))))))))>>
  OBVIOUS
<1>3. Is([bit \in 0..8 |-> f[bit + 1]])
  <2>1. \A bit \in 0..8 : f[bit + 1] = IF bit = 0 THEN w ELSE Shift(f[bit])
    BY <1>2
  <2>2. \A bit \in 0..8 : bit # 0 => bit - 1 \in 0..8 /\ bit - 1 + 1 = bit
    OBVIOUS
  <2> QED BY <2>1, <2>2
<1>4. Is(c0)
  BY <1>3, Zenon
<1>5. \A bit \in 0..8 : c0[bit] = IF bit = 0 THEN w ELSE Shift(c0[bit - 1])
  BY <1>4
<1> HIDE DEF c0
<1>6. /\ c0[0] = w /\ c0[1] = Shift(c0[0]) /\ c0[2] = Shift(c0[1])
      /\ c0[3] = Shift(c0[2]) /\ c0[4] = Shift(c0[3]) /\ c0[5] = Shift(c0[4])
      /\ c0[6] = Shift(c0[5]) /\ c0[7] = Shift(c0[6]) /\ c0[8] = Shift(c0[7])
  BY <1>5
<1> QED BY <1>1, <1>6

(* Doubled words.                                                            *)
LEMMA XorDoubled ==
    ASSUME NEW a \in Word, NEW b \in Word, 2 * a \in Word, 2 * b \in Word
    PROVE  Xor(2 * a, 2 * b) = 2 * Xor(a, b)
<1>1. Xor(2 * a, 2 * b) = 2 * Xor((2 * a) \div 2, (2 * b) \div 2) + ((2 * a + 2 * b) % 2)
  BY XorHalves
<1>2. a \in Int /\ b \in Int
  BY WordIff
<1>3. (2 * a) \div 2 = a /\ (2 * b) \div 2 = b /\ (2 * a + 2 * b) % 2 = 0
  BY <1>2
<1>4. Xor(a, b) \in Int
  <2>1. Xor(a, b) \in Word
    BY XorHalves
  <2> QED BY <2>1, WordIff
<1> QED BY <1>1, <1>3, <1>4

(* Below m and above it nothing mixes.                                       *)
Splits(m) ==
    /\ \A a, b \in Word : a < m /\ b < m => Xor(a, b) < m
    /\ \A a, h \in Word : a < m /\ m * h \in Word => Xor(m * h, a) = m * h + a

(* Where words split at m, they split at twice m.                            *)
LEMMA SplitsTwice ==
    ASSUME NEW m \in Nat, m > 0, Splits(m)
    PROVE  Splits(2 * m)
<1>1. ASSUME NEW a \in Word, NEW b \in Word, a < 2 * m, b < 2 * m
      PROVE  Xor(a, b) < 2 * m
  <2>1. PICK h \in Word, i \in Word, x \in Word :
            h = a \div 2 /\ i = b \div 2 /\ x = Xor(h, i)
    BY XorHalves
  <2>2. Xor(a, b) = 2 * x + ((a + b) % 2)
    BY <2>1, XorHalves
  <2>3. a \in Nat /\ b \in Nat /\ x \in Nat
    BY WordIff
  <2>4. h < m /\ i < m
    BY <1>1, <2>1, <2>3
  <2>5. x < m
    BY <2>1, <2>4 DEF Splits
  <2> QED BY <2>2, <2>3, <2>5
<1>2. ASSUME NEW a \in Word, NEW h \in Word, a < 2 * m, (2 * m) * h \in Word
      PROVE  Xor((2 * m) * h, a) = (2 * m) * h + a
  <2>1. h \in Nat /\ a \in Nat
    BY WordIff
  <2>2. PICK p \in Nat : p = m * h
    BY <2>1
  <2>3. (2 * m) * h = 2 * p
    BY <2>1, <2>2
  <2>4. p \in Word /\ 2 * p \in Word
    BY <1>2, <2>2, <2>3, WordIff
  <2>5. PICK i \in Word : i = a \div 2
    BY XorHalves
  <2>6. i < m
    BY <1>2, <2>1, <2>5
  <2>7. Xor(p, i) = p + i
    BY <2>2, <2>4, <2>6 DEF Splits
  <2>8. Xor(2 * p, a) = 2 * Xor((2 * p) \div 2, a \div 2) + ((2 * p + a) % 2)
    BY <2>4, XorHalves
  <2>9. (2 * p) \div 2 = p
    BY <2>2
  <2>10. i \in Int
    BY WordIff
  <2>11. Xor(2 * p, a) = 2 * (p + i) + ((2 * p + a) % 2)
    BY <2>5, <2>7, <2>8, <2>9
  <2>12. 2 * (p + i) + ((2 * p + a) % 2) = 2 * p + a
    BY <2>1, <2>2, <2>5, <2>10
  <2> QED BY <2>3, <2>11, <2>12
<1> QED BY <1>1, <1>2 DEF Splits

(* Words split between any two of their bits.                                *)
LEMMA SplitsAt == Splits(256) /\ Splits(512) /\ Splits(32768)
<1>1. Splits(1)
  <2>1. ASSUME NEW a \in Word, a < 1 PROVE a = 0
    BY <2>1, WordIff
  <2>2. ASSUME NEW h \in Word PROVE 1 * h = h /\ h + 0 = h
    BY WordIff
  <2>3. \A h \in Word : Xor(h, 0) = h
    <3> DEFINE P == {x \in Word \X Word \X Word : Xor(x[1], 0) = x[1]}
    <3>1. 0 \in Word
      BY WordIff
    <3>2. <<0, 0, 0>> \in P
      BY <3>1, XorZero
    <3>3. HalvesOnly(P)
      <4> SUFFICES ASSUME NEW x \in Word \X Word \X Word,
                          <<x[1] \div 2, x[2] \div 2, x[3] \div 2>> \in P
                   PROVE  Xor(x[1], 0) = x[1]
        BY DEF HalvesOnly
      <4>1. PICK u \in Word, h \in Word : x[1] = u /\ h = u \div 2
        BY XorHalves
      <4>2. Xor(h, 0) = h
        BY <4>1
      <4>3. Xor(u, 0) = 2 * Xor(u \div 2, 0 \div 2) + ((u + 0) % 2)
        BY <3>1, XorHalves
      <4>4. 0 \div 2 = 0 /\ u \in Int /\ h \in Int
        BY WordIff
      <4>5. 2 * h + ((u + 0) % 2) = u
        BY <4>1, <4>4
      <4> QED BY <4>1, <4>2, <4>3, <4>4, <4>5
    <3>4. ASSUME NEW h \in Word PROVE <<h, 0, 0>> \in P
      <4> HIDE DEF P
      <4> QED BY <3>1, <3>2, <3>3, ByHalves
    <3> QED BY <3>4
  <2>4. Xor(0, 0) < 1
    BY XorZero
  <2> QED BY <2>1, <2>2, <2>3, <2>4 DEF Splits
<1>2. Splits(2) /\ Splits(4) /\ Splits(8) /\ Splits(16)
  BY <1>1, SplitsTwice
<1>3. Splits(32) /\ Splits(64) /\ Splits(128) /\ Splits(256)
  BY <1>2, SplitsTwice
<1>4. Splits(512) /\ Splits(1024) /\ Splits(2048) /\ Splits(4096)
  BY <1>3, SplitsTwice
<1>5. Splits(8192) /\ Splits(16384) /\ Splits(32768)
  BY <1>4, SplitsTwice
<1> QED BY <1>3, <1>4, <1>5

(* A shift of a word: its highest bit decides, and the others move up.       *)
LEMMA ShiftWord ==
    /\ \h8005 \in Word /\ \h8005 = 32773
    /\ \A w \in Word : Shift(w) \in Word
    /\ \A w \in Word : w < 32768 => Shift(w) = 2 * w /\ 2 * w \in Word
    /\ \A r \in Word : r < 32768 =>
          /\ 32768 + r \in Word /\ 2 * r \in Word
          /\ Shift(32768 + r) = Xor(2 * r, \h8005)
<1>1. \h8005 \in Word /\ \h8005 = 32773
  BY WordIff
<1>2. ASSUME NEW w \in Word, w < 32768
      PROVE  Shift(w) = 2 * w /\ 2 * w \in Word
  <2>1. w \in Nat
    BY WordIff
  <2>2. ~(w >= 32768) /\ 2 * w < 65536
    BY <1>2, <2>1
  <2>3. Shift(w) = 2 * w
    BY <2>2 DEF Shift
  <2> QED BY <2>1, <2>2, <2>3, WordIff
<1>3. ASSUME NEW r \in Word, r < 32768
      PROVE  /\ 32768 + r \in Word /\ 2 * r \in Word
             /\ Shift(32768 + r) = Xor(2 * r, \h8005)
  <2>1. r \in Nat
    BY WordIff
  <2>2. 32768 + r < 65536 /\ 2 * r < 65536 /\ 32768 + r >= 32768
    BY <1>3, <2>1
  <2>3. (2 * (32768 + r)) % 65536 = 2 * r
    BY <2>1, <2>2
  <2>4. Shift(32768 + r) = Xor(2 * r, \h8005)
    BY <2>2, <2>3 DEF Shift
  <2> QED BY <2>1, <2>2, <2>4, WordIff
<1>4. ASSUME NEW w \in Word PROVE Shift(w) \in Word
  <2>1. CASE w < 32768
    BY <1>2, <2>1
  <2>2. CASE ~(w < 32768)
    <3>1. PICK r \in Word : r < 32768 /\ w = 32768 + r
      <4>1. w \in Nat /\ w < 65536
        BY WordIff
      <4>2. w - 32768 \in Nat /\ w - 32768 < 32768 /\ w = 32768 + (w - 32768)
        BY <2>2, <4>1
      <4>3. w - 32768 < 65536
        BY <4>2
      <4>4. w - 32768 \in Word
        BY <4>2, <4>3, WordIff
      <4> QED BY <4>2, <4>4
    <3> QED BY <1>1, <1>3, <3>1, XorHalves
  <2> QED BY <2>1, <2>2
<1> QED BY <1>1, <1>2, <1>3, <1>4

(* Every word is its highest bit and the rest.                               *)
LEMMA TopBit ==
    ASSUME NEW w \in Word
    PROVE  w < 32768 \/ \E r \in Word : r < 32768 /\ w = 32768 + r
<1>1. w \in Nat /\ w < 65536
  BY WordIff
<1>2. ASSUME ~(w < 32768) PROVE \E r \in Word : r < 32768 /\ w = 32768 + r
  <2>1. PICK r \in Nat : r = w - 32768
    BY <1>1, <1>2
  <2>2. r < 32768 /\ r < 65536 /\ w = 32768 + r
    BY <1>1, <2>1
  <2> QED BY <2>1, <2>2, WordIff
<1> QED BY <1>2

(* And the highest bits are those of an exclusive or.                        *)
LEMMA XorTop ==
    ASSUME NEW r \in Word, NEW s \in Word, r < 32768, s < 32768
    PROVE  /\ Xor(r, s) \in Word /\ Xor(r, s) < 32768
           /\ 2 * r \in Word /\ 2 * s \in Word /\ Xor(2 * r, 2 * s) = 2 * Xor(r, s)
           /\ Xor(32768 + r, s) = 32768 + Xor(r, s)
           /\ Xor(r, 32768 + s) = 32768 + Xor(r, s)
           /\ Xor(32768 + r, 32768 + s) = Xor(r, s)
<1>1. /\ Xor(r, s) \in Word /\ Xor(r, s) < 32768
      /\ 2 * r \in Word /\ 2 * s \in Word
  <2>1. Xor(r, s) \in Word
    BY XorHalves
  <2>2. Xor(r, s) < 32768
    BY SplitsAt DEF Splits
  <2> QED BY <2>1, <2>2, ShiftWord
<1>2. Xor(2 * r, 2 * s) = 2 * Xor(r, s)
  BY <1>1, XorDoubled
<1>3. PICK t \in Word : t = 32768 /\ 32768 * 1 = 32768
  <2>1. 32768 \in Word
    BY WordIff
  <2> QED BY <2>1
<1>4. 1 \in Word /\ 0 \in Word
  BY WordIff
<1>5. \A x \in Word : x < 32768 => Xor(t, x) = t + x
  BY <1>3, <1>4, SplitsAt DEF Splits
<1>6. PICK x \in Word : x = Xor(r, s)
  BY <1>1
<1>7. PICK u \in Word, v \in Word : u = t + r /\ v = t + s
  BY <1>3, ShiftWord
<1>8. u = Xor(t, r) /\ v = Xor(t, s) /\ Xor(t, x) = t + x
  BY <1>1, <1>5, <1>6, <1>7
<1>9. Xor(u, s) = t + x
  BY <1>6, <1>8, XorAssociative
<1>10. Xor(r, v) = t + x
  <2>1. Xor(v, r) = Xor(t, Xor(s, r))
    BY <1>8, XorAssociative
  <2>2. Xor(s, r) = x /\ Xor(r, v) = Xor(v, r)
    BY <1>6, XorHalves
  <2> QED BY <1>8, <2>1, <2>2
<1>11. Xor(u, v) = x
  <2>1. Xor(u, v) = Xor(t, Xor(r, v))
    BY <1>8, XorAssociative
  <2>2. Xor(t, Xor(t, x)) = Xor(Xor(t, t), x)
    BY XorAssociative
  <2>3. Xor(t, t) = 0
    <3>1. Xor(32768, 32768) = 0
      BY DEF Xor, XorBit
    <3> QED BY <1>3, <3>1
  <2>4. Xor(0, x) = x
    <3>1. 32768 * 0 \in Word /\ 32768 * 0 = 0
      BY <1>4
    <3>2. Xor(32768 * 0, x) = 32768 * 0 + x
      BY <1>1, <1>4, <1>6, <3>1, SplitsAt DEF Splits
    <3>3. 0 + x = x
      BY WordIff
    <3> QED BY <3>1, <3>2, <3>3
  <2> QED BY <1>8, <1>10, <2>1, <2>2, <2>3, <2>4
<1> QED BY <1>1, <1>2, <1>3, <1>6, <1>7, <1>9, <1>10, <1>11

(* Nothing changes nothing.                                                  *)
LEMMA XorNothing == \A w \in Word : Xor(0, w) = w /\ Xor(w, 0) = w
<1> SUFFICES ASSUME NEW w \in Word PROVE Xor(0, w) = w /\ Xor(w, 0) = w
  OBVIOUS
<1>1. 0 \in Word
  BY WordIff
<1>2. Xor(Xor(0, 0), w) = Xor(0, Xor(0, w))
  BY <1>1, XorAssociative
<1>3. Xor(0, w) = Xor(0, Xor(0, w)) /\ Xor(0, w) \in Word
  BY <1>1, <1>2, XorZero, XorHalves
<1>4. w = Xor(0, w)
  BY <1>1, <1>3, XorCancels
<1> QED BY <1>1, <1>4, XorHalves

(* A shift is linear.                                                        *)
LEMMA ShiftLinear ==
    ASSUME NEW y \in Word, NEW z \in Word
    PROVE  Shift(Xor(y, z)) = Xor(Shift(y), Shift(z))
<1>1. PICK p \in Word : p = \h8005 /\ Xor(p, p) = 0
  <2>1. Xor(32773, 32773) = 0
    BY DEF Xor, XorBit
  <2> QED BY <2>1, ShiftWord
<1>2. \A w \in Word : w < 32768 =>
          /\ Shift(w) = 2 * w /\ 2 * w \in Word /\ 32768 + w \in Word
          /\ Shift(32768 + w) = Xor(2 * w, p)
  BY <1>1, ShiftWord
<1>3. ASSUME NEW r \in Word, NEW s \in Word, r < 32768, s < 32768
      PROVE  /\ Shift(Xor(r, s)) = Xor(Shift(r), Shift(s))
             /\ Shift(Xor(32768 + r, s)) = Xor(Shift(32768 + r), Shift(s))
             /\ Shift(Xor(r, 32768 + s)) = Xor(Shift(r), Shift(32768 + s))
             /\ Shift(Xor(32768 + r, 32768 + s)) = Xor(Shift(32768 + r), Shift(32768 + s))
  <2>1. PICK x \in Word, a \in Word, b \in Word :
            /\ x = Xor(r, s) /\ x < 32768 /\ a = 2 * r /\ b = 2 * s
            /\ Xor(a, b) = 2 * x
    BY <1>3, XorTop
  <2>2. /\ Xor(32768 + r, s) = 32768 + x /\ Xor(r, 32768 + s) = 32768 + x
        /\ Xor(32768 + r, 32768 + s) = x
    BY <1>3, <2>1, XorTop
  <2>3. /\ Shift(r) = a /\ Shift(s) = b /\ Shift(32768 + r) = Xor(a, p)
        /\ Shift(32768 + s) = Xor(b, p)
    BY <1>2, <1>3, <2>1
  <2>4. Shift(x) = Xor(a, b) /\ Shift(32768 + x) = Xor(Xor(a, b), p)
    BY <1>2, <2>1
  <2>5. PICK bp \in Word : bp = Xor(b, p) /\ bp = Xor(p, b)
    BY XorHalves
  <2>6. Xor(Xor(a, b), p) = Xor(a, bp) /\ Xor(Xor(a, p), b) = Xor(a, bp)
    <3>1. Xor(Xor(a, b), p) = Xor(a, Xor(b, p))
      BY XorAssociative
    <3>2. Xor(Xor(a, p), b) = Xor(a, Xor(p, b))
      BY XorAssociative
    <3> QED BY <2>5, <3>1, <3>2
  <2>7. Xor(Xor(a, p), bp) = Xor(a, Xor(p, bp)) /\ Xor(p, bp) = Xor(Xor(p, p), b)
    <3>1. Xor(Xor(a, p), bp) = Xor(a, Xor(p, bp))
      BY XorAssociative
    <3>2. Xor(Xor(p, p), b) = Xor(p, Xor(p, b))
      BY XorAssociative
    <3> QED BY <2>5, <3>1, <3>2
  <2>8. Xor(0, b) = b
    BY XorNothing
  <2>9. Xor(Xor(a, p), bp) = Xor(a, b)
    BY <1>1, <2>7, <2>8
  <2> QED BY <2>1, <2>2, <2>3, <2>4, <2>5, <2>6, <2>9
<1>4. PICK r \in Word : r < 32768 /\ (y = r \/ y = 32768 + r)
  BY TopBit
<1>5. PICK s \in Word : s < 32768 /\ (z = s \/ z = 32768 + s)
  BY TopBit
<1> QED BY <1>3, <1>4, <1>5

(* So are eight shifts.                                                      *)
LEMMA ShiftedLinear ==
    ASSUME NEW y \in Word, NEW z \in Word
    PROVE  Shifted(y) \in Word /\ Shifted(Xor(y, z)) = Xor(Shifted(y), Shifted(z))
<1> DEFINE L(f, g, h) == f \in Word /\ g \in Word /\ h = Xor(f, g)
<1>1. ASSUME NEW f, NEW g, NEW h, L(f, g, h) PROVE L(Shift(f), Shift(g), Shift(h))
  BY <1>1, ShiftLinear, ShiftWord
<1>2. L(y, z, Xor(y, z))
  OBVIOUS
<1> HIDE DEF L
<1>3. L(Shift(Shift(y)), Shift(Shift(z)), Shift(Shift(Xor(y, z))))
  BY <1>1, <1>2
<1>4. L(Shift(Shift(Shift(Shift(y)))), Shift(Shift(Shift(Shift(z)))),
        Shift(Shift(Shift(Shift(Xor(y, z))))))
  BY <1>1, <1>3
<1>5. L(Shift(Shift(Shift(Shift(Shift(Shift(y)))))), Shift(Shift(Shift(Shift(Shift(Shift(z)))))),
        Shift(Shift(Shift(Shift(Shift(Shift(Xor(y, z))))))))
  BY <1>1, <1>4
<1>6. L(Shifted(y), Shifted(z), Shifted(Xor(y, z)))
  BY <1>1, <1>5, ShiftedIs
<1> QED BY <1>6 DEF L

(* No two words shift to the same one.                                       *)
LEMMA ShiftCancels ==
    ASSUME NEW y \in Word, NEW z \in Word, Shift(y) = Shift(z)
    PROVE  y = z
<1>1. \h8005 \in Word /\ \h8005 = 32773
  BY ShiftWord
<1>2. \A a, b \in Word : Xor(2 * a, \h8005) # 2 * b \/ 2 * a \notin Word
  <2> SUFFICES ASSUME NEW a \in Word, NEW b \in Word, 2 * a \in Word,
                      Xor(2 * a, \h8005) = 2 * b
               PROVE  FALSE
    OBVIOUS
  <2>1. PICK x \in Word : 2 * b = 2 * x + ((2 * a + 32773) % 2)
    <3>1. Xor(2 * a, \h8005) = 2 * Xor((2 * a) \div 2, \h8005 \div 2) + ((2 * a + \h8005) % 2)
      BY <1>1, XorHalves
    <3>2. Xor((2 * a) \div 2, \h8005 \div 2) \in Word
      BY <1>1, XorHalves
    <3> QED BY <1>1, <3>1, <3>2
  <2>2. a \in Int /\ b \in Int /\ x \in Int
    BY WordIff
  <2> QED BY <2>1, <2>2
<1>3. ASSUME NEW a \in Word, NEW b \in Word, 2 * a \in Word, 2 * b \in Word,
             Xor(2 * a, \h8005) = Xor(2 * b, \h8005)
      PROVE  a = b
  <2>1. PICK p \in Word, u \in Word, v \in Word : p = \h8005 /\ u = 2 * a /\ v = 2 * b
    BY <1>1, <1>3
  <2>2. Xor(p, u) = Xor(u, p) /\ Xor(p, v) = Xor(v, p)
    BY XorHalves
  <2>3. u = v
    BY <1>3, <2>1, <2>2, XorCancels
  <2> QED BY <2>1, <2>3, WordIff
<1>4. PICK r \in Word : r < 32768 /\ (y = r \/ y = 32768 + r)
  BY TopBit
<1>5. PICK s \in Word : s < 32768 /\ (z = s \/ z = 32768 + s)
  BY TopBit
<1>6. /\ 2 * r \in Word /\ 2 * s \in Word /\ Shift(r) = 2 * r /\ Shift(s) = 2 * s
      /\ Shift(32768 + r) = Xor(2 * r, \h8005) /\ Shift(32768 + s) = Xor(2 * s, \h8005)
  BY <1>4, <1>5, ShiftWord
<1>7. 2 * r = 2 * s => r = s
  BY WordIff
<1> QED BY <1>2, <1>3, <1>4, <1>5, <1>6, <1>7

(* So it is with eight shifts.                                               *)
LEMMA ShiftedCancels ==
    ASSUME NEW y \in Word, NEW z \in Word, Shifted(y) = Shifted(z)
    PROVE  y = z
<1> DEFINE C(f, g) == f \in Word /\ g \in Word /\ (f = g => y = z)
<1>1. ASSUME NEW f, NEW g, C(f, g) PROVE C(Shift(f), Shift(g))
  BY <1>1, ShiftCancels, ShiftWord
<1>2. C(y, z)
  OBVIOUS
<1> HIDE DEF C
<1>3. C(Shift(Shift(y)), Shift(Shift(z)))
  BY <1>1, <1>2
<1>4. C(Shift(Shift(Shift(Shift(y)))), Shift(Shift(Shift(Shift(z)))))
  BY <1>1, <1>3
<1>5. C(Shift(Shift(Shift(Shift(Shift(Shift(y)))))), Shift(Shift(Shift(Shift(Shift(Shift(z)))))))
  BY <1>1, <1>4
<1>6. C(Shifted(y), Shifted(z))
  BY <1>1, <1>5, ShiftedIs
<1> QED BY <1>6 DEF C
-----------------------------------------------------------------------------
(* Bytes are the numbers below 256, and words.                               *)
LEMMA ByteIff ==
    \A b : /\ b \in Byte <=> b \in Word /\ b < 256
           /\ b \in Byte <=> b \in Int /\ 0 <= b /\ b < 256
<1>1. \A b : b \in Byte <=> b \in Int /\ 0 <= b /\ b < 256
  BY DEF Byte
<1>2. \A b : b \in Int /\ 0 <= b /\ b < 256 <=> b \in Word /\ b < 256
  BY WordIff
<1> QED BY <1>1, <1>2

(* So the table has what eight shifts make of a byte.                        *)
LEMMA TableIs ==
    ASSUME NEW i \in Byte
    PROVE  256 * i \in Word /\ crc_table[i + 1] = Shifted(256 * i)
<1>1. \A j \in Byte : j \in Nat /\ 256 * j \in Word
  BY ByteIff, WordIff
<1>2. crc_table[1] = Shifted(0)
  <2>1. Shift(0) = 0
    BY DEF Shift
  <2>2. crc_table[1] = 0
    BY DEF crc_table
  <2> QED BY <2>1, <2>2, ShiftedIs
<1>3. Shifted(256) = \h8005
  <2>1. /\ Shift(256) = 512 /\ Shift(512) = 1024 /\ Shift(1024) = 2048
        /\ Shift(2048) = 4096 /\ Shift(4096) = 8192 /\ Shift(8192) = 16384
        /\ Shift(16384) = 32768
    BY DEF Shift
  <2>2. Shift(32768) = Xor(0, \h8005)
    BY DEF Shift
  <2>3. Xor(0, \h8005) = \h8005
    BY ShiftWord, XorNothing
  <2> QED BY <2>1, <2>2, <2>3, ShiftedIs
<1> DEFINE T == {j \in Byte : crc_table[j + 1] # Shifted(256 * j)}
<1> SUFFICES ASSUME T # {} PROVE FALSE
  BY <1>1
<1>4. PICK n \in T : \A m \in T : n <= m
  <2>1. T \in SUBSET Nat
    BY <1>1
  <2> HIDE DEF T
  <2> QED BY <2>1, Smallest
<1>5. n \in Byte /\ crc_table[n + 1] # Shifted(256 * n)
  OBVIOUS
<1>6. PICK h \in Nat : h <= 127 /\ (n = 2 * h \/ n = 2 * h + 1) /\ (h < n \/ n = 0)
  <2>1. n \in Nat /\ n < 256
    BY <1>5, ByteIff
  <2>2. PICK k \in Nat : k = n \div 2
    BY <2>1
  <2> QED BY <2>1, <2>2
<1>7. n # 0
  BY <1>2, <1>5
<1>8. h \in Byte /\ h < n
  BY <1>6, <1>7, ByteIff
<1>9. crc_table[h + 1] = Shifted(256 * h)
  <2>1. h \notin T
    BY <1>1, <1>4, <1>5, <1>8
  <2> QED BY <1>8, <2>1
<1> HIDE DEF T
<1>10. PICK w \in Word : w = 256 * h /\ w < 32768 /\ 2 * w = 256 * (2 * h)
  <2>2. 256 * h < 32768 /\ 2 * (256 * h) = 256 * (2 * h)
    BY <1>6
  <2> QED BY <1>1, <1>8, <2>2
<1>11. Shift(w) = 2 * w /\ 2 * w \in Word
  BY <1>10, ShiftWord
<1>12. Shifted(2 * w) = Shift(Shifted(w))
  BY <1>11, ShiftedIs
<1>13. /\ crc_table[2 * h + 1] = Shift(crc_table[h + 1])
       /\ crc_table[2 * h + 2] = Xor(crc_table[2 * h + 1], \h8005)
  <2>1. h \in 0..127
    BY <1>6
  <2> QED BY <2>1, TableDoubles
<1>14. crc_table[2 * h + 1] = Shifted(2 * w)
  BY <1>9, <1>10, <1>12, <1>13
<1>15. n = 2 * h + 1
  BY <1>5, <1>6, <1>10, <1>14
<1>16. n + 1 = 2 * h + 2
  BY <1>6, <1>15
<1>17. crc_table[n + 1] = Xor(Shifted(2 * w), \h8005)
  BY <1>13, <1>14, <1>16
<1>18. 256 * n = Xor(2 * w, 256)
  <2>1. PICK d \in Word : d = 256 /\ d < 512
    BY WordIff
  <2>2. PICK k \in Word : k = h
    BY <1>8, ByteIff
  <2>3. 512 * k = 2 * w /\ 256 * n = 2 * w + 256
    BY <1>6, <1>10, <1>15, <2>2
  <2>4. Xor(512 * k, d) = 512 * k + d
    BY <1>11, <2>1, <2>3, SplitsAt DEF Splits
  <2> QED BY <2>1, <2>3, <2>4
<1>19. Shifted(256 * n) = Xor(Shifted(2 * w), Shifted(256))
  <2>1. 256 \in Word
    BY WordIff
  <2> QED BY <1>11, <1>18, <2>1, ShiftedLinear
<1> QED BY <1>3, <1>5, <1>17, <1>19

(* A byte is shifted out of the way without a carry.                         *)
LEMMA ByteShifts ==
    ASSUME NEW b \in Byte
    PROVE  256 * b \in Word /\ Shifted(b) = 256 * b
<1>1. b \in Nat /\ b < 256
  BY ByteIff
<1>2. \A w \in Nat : w < 32768 => Shift(w) = 2 * w
  BY DEF Shift
<1>3. Shift(b) = 2 * b /\ Shift(2 * b) = 4 * b /\ Shift(4 * b) = 8 * b /\ Shift(8 * b) = 16 * b
  BY <1>1, <1>2
<1>4. Shift(16 * b) = 32 * b /\ Shift(32 * b) = 64 * b
  BY <1>1, <1>2
<1>5. Shift(64 * b) = 128 * b /\ Shift(128 * b) = 256 * b
  BY <1>1, <1>2
<1> QED BY <1>1, <1>3, <1>4, <1>5, ShiftedIs, WordIff

(* The high bytes of an exclusive or.                                        *)
LEMMA XorHigh ==
    ASSUME NEW a \in Byte, NEW b \in Byte
    PROVE  /\ Xor(a, b) \in Byte /\ 256 * a \in Word /\ 256 * b \in Word
           /\ Xor(256 * a, 256 * b) = 256 * Xor(a, b)
<1>1. a \in Word /\ b \in Word /\ a < 256 /\ b < 256 /\ Xor(a, b) \in Word
  BY ByteIff, XorHalves
<1>2. Xor(a, b) \in Byte
  <2>1. Xor(a, b) < 256
    BY <1>1, SplitsAt DEF Splits
  <2> QED BY <1>1, <2>1, ByteIff
<1>3. /\ 256 * a \in Word /\ Shifted(a) = 256 * a /\ 256 * b \in Word /\ Shifted(b) = 256 * b
      /\ Shifted(Xor(a, b)) = 256 * Xor(a, b)
  BY <1>2, ByteShifts
<1> QED BY <1>1, <1>2, <1>3, ShiftedLinear

(* One byte of the CRC: what the table does is what eight shifts do.         *)
LEMMA UpdateIsShifted ==
    ASSUME NEW crc \in Word, NEW d \in Byte
    PROVE  /\ 256 * d \in Word /\ Xor(crc, 256 * d) \in Word
           /\ NextCrc(crc, d) = Shifted(Xor(crc, 256 * d))
<1>1. PICK hi \in Nat, lo \in Nat :
          /\ hi = crc \div 256 /\ hi < 256 /\ lo < 256 /\ crc = 256 * hi + lo
          /\ (crc * 256) % 65536 = 256 * lo
  <2>1. crc \in Nat /\ crc < 65536
    BY WordIff
  <2>2. PICK h \in Nat, l \in Nat : h = crc \div 256 /\ l = crc % 256
    BY <2>1
  <2>3. crc = 256 * h + l /\ l < 256 /\ h < 256
    BY <2>1, <2>2
  <2>4. (crc * 256) % 65536 = 256 * l
    BY <2>3
  <2> QED BY <2>2, <2>3, <2>4
<1>2. hi \in Byte /\ lo \in Byte /\ hi \in Word /\ lo \in Word
  BY <1>1, ByteIff
<1>3. PICK x \in Byte : x = Xor(hi, d) /\ 256 * x = Xor(256 * hi, 256 * d)
  <2>1. Xor(hi, d) \in Byte /\ Xor(256 * hi, 256 * d) = 256 * Xor(hi, d)
    BY <1>2, XorHigh
  <2> QED BY <2>1
<1>4. PICK y \in Word, z \in Word, w \in Word : y = 256 * hi /\ z = 256 * d /\ w = 256 * x
  BY <1>2, ByteShifts
<1>5. crc = Xor(y, lo)
  BY <1>1, <1>2, <1>4, SplitsAt DEF Splits
<1>6. Xor(crc, z) = Xor(w, lo)
  <2>1. Xor(Xor(lo, y), z) = Xor(lo, Xor(y, z))
    BY <1>2, XorAssociative
  <2>2. Xor(y, z) = w
    BY <1>3, <1>4
  <2>3. Xor(lo, y) = crc /\ Xor(lo, w) = Xor(w, lo)
    BY <1>2, <1>5, XorHalves
  <2> QED BY <2>1, <2>2, <2>3
<1>7. Shifted(Xor(w, lo)) = Xor(Shifted(w), 256 * lo)
  BY <1>2, ByteShifts, ShiftedLinear
<1>8. NextCrc(crc, d) = Xor(256 * lo, crc_table[x + 1])
  <2>1. CrcIndex(crc, d) = x
    BY <1>1, <1>3 DEF CrcIndex
  <2> QED BY <1>1, <2>1 DEF NextCrc
<1>9. crc_table[x + 1] = Shifted(w)
  BY <1>4, TableIs
<1>10. Xor(256 * lo, Shifted(w)) = Xor(Shifted(w), 256 * lo)
  BY <1>2, ByteShifts, ShiftedLinear, XorHalves
<1>11. 256 * d \in Word /\ Xor(crc, 256 * d) \in Word
  BY <1>4, XorHalves
<1> QED BY <1>1, <1>4, <1>6, <1>7, <1>8, <1>9, <1>10, <1>11
-----------------------------------------------------------------------------
(* The function of UpdateCRC, over the first n elements.                     *)
Crcs(s, n, c) == c = [i \in 0..n |-> IF i = 0 THEN 0 ELSE NextCrc(c[i-1], s[i])]

(* If all smaller n have such a function, so has n.                          *)
LEMMA CrcsFrom ==
    ASSUME NEW s, NEW n \in Nat, \A m \in Nat : m < n => \E c : Crcs(s, m, c)
    PROVE  \E c : Crcs(s, n, c)
<1>1. CASE n = 0
  <2>1. PICK c : c = [i \in 0..0 |-> 0]
    OBVIOUS
  <2>2. c = [i \in 0..0 |-> IF i = 0 THEN 0 ELSE NextCrc(c[i-1], s[i])]
    BY <2>1
  <2> QED BY <1>1, <2>2 DEF Crcs
<1>2. CASE n > 0
  <2>1. PICK c : Crcs(s, n - 1, c)
    BY <1>2
  <2> DEFINE last == NextCrc(c[n-1], s[n])
             h == [i \in 0..n |-> IF i = n THEN last ELSE c[i]]
  <2>2. \A i \in 0..n-1 : c[i] = IF i = 0 THEN 0 ELSE NextCrc(c[i-1], s[i])
    BY <2>1 DEF Crcs
  <2>3. \A i \in 0..n : h[i] = IF i = 0 THEN 0 ELSE NextCrc(h[i-1], s[i])
    <3>1. SUFFICES ASSUME NEW i \in 0..n
                   PROVE h[i] = IF i = 0 THEN 0 ELSE NextCrc(h[i-1], s[i])
      OBVIOUS
    <3>2. CASE i = n
      <4>1. h[n-1] = c[n-1] /\ h[n] = last
        BY <1>2
      <4> HIDE DEF h
      <4> QED BY <1>2, <3>2, <4>1
    <3>3. CASE i < n
      <4>1. i \in 0..n-1 /\ h[i] = c[i]
        BY <3>3
      <4>2. i # 0 => h[i-1] = c[i-1]
        BY <3>3
      <4> HIDE DEF h
      <4> QED BY <4>1, <4>2, <2>2
    <3> QED BY <3>1, <3>2, <3>3
  <2>4. h = [i \in 0..n |-> h[i]]
    OBVIOUS
  <2> HIDE DEF h
  <2>5. h = [i \in 0..n |-> IF i = 0 THEN 0 ELSE NextCrc(h[i-1], s[i])]
    BY <2>3, <2>4
  <2> QED BY <2>5 DEF Crcs
<1> QED BY <1>1, <1>2

(* There is such a function, for otherwise there is a smallest n without.    *)
LEMMA CrcsExist ==
    ASSUME NEW s, NEW n \in Nat
    PROVE  \E c : Crcs(s, n, c)
<1> DEFINE T == {m \in Nat : ~\E c : Crcs(s, m, c)}
<1>1. SUFFICES ASSUME T # {} PROVE FALSE
  OBVIOUS
<1>2. PICK x \in T : \A y \in T : x <= y
  BY <1>1, Smallest
<1>3. \A m \in Nat : m < x => \E c : Crcs(s, m, c)
  BY <1>2
<1>4. \E c : Crcs(s, x, c)
  BY <1>3, CrcsFrom
<1> QED BY <1>4

(* The first n elements are the same.                                        *)
SameFirst(s, t, n) == \A i \in 1..n : s[i] = t[i]

(* The CRC after byte i depends on the first i bytes only.                   *)
LEMMA CrcsAgree ==
    ASSUME NEW s, NEW t, NEW n \in Nat, NEW m \in Nat, n <= m, SameFirst(s, t, n),
           NEW c, Crcs(s, n, c), NEW d, Crcs(t, m, d)
    PROVE  \A i \in 0..n : c[i] = d[i]
<1> DEFINE T == {i \in 0..n : c[i] # d[i]}
<1>1. SUFFICES ASSUME T # {} PROVE FALSE
  OBVIOUS
<1>2. T \in SUBSET Nat
  OBVIOUS
<1>3. PICK x \in T : \A y \in T : x <= y
  <2> HIDE DEF T
  <2> QED BY <1>1, <1>2, Smallest
<1>4. x \in 0..n /\ c[x] # d[x]
  OBVIOUS
<1>5. \A i \in 0..n : c[i] = IF i = 0 THEN 0 ELSE NextCrc(c[i-1], s[i])
  BY DEF Crcs
<1>6. \A i \in 0..m : d[i] = IF i = 0 THEN 0 ELSE NextCrc(d[i-1], t[i])
  BY DEF Crcs
<1>7. x # 0
  BY <1>4, <1>5, <1>6
<1>8. x - 1 \in 0..n /\ x - 1 < x /\ x \in 1..n /\ x \in 0..m
  BY <1>4, <1>7
<1>9. c[x-1] = d[x-1]
  BY <1>3, <1>4, <1>8
<1>10. c[x] = NextCrc(c[x-1], s[x]) /\ d[x] = NextCrc(d[x-1], t[x])
  BY <1>5, <1>6, <1>7, <1>8
<1>11. s[x] = t[x]
  BY <1>8 DEF SameFirst
<1> QED BY <1>4, <1>9, <1>10, <1>11, Zenon

(* All of them are words, each the shifted one before it.                    *)
LEMMA CrcsAre ==
    ASSUME NEW n \in Nat, NEW s, \A i \in 1..n : s[i] \in Byte, NEW c, Crcs(s, n, c)
    PROVE  /\ c[0] = 0 /\ \A i \in 0..n : c[i] \in Word
           /\ \A i \in 1..n : /\ 256 * s[i] \in Word /\ Xor(c[i-1], 256 * s[i]) \in Word
                              /\ c[i] = Shifted(Xor(c[i-1], 256 * s[i]))
<1>1. \A i \in 0..n : c[i] = IF i = 0 THEN 0 ELSE NextCrc(c[i-1], s[i])
  BY DEF Crcs
<1>2. c[0] = 0 /\ 0 \in Word
  BY <1>1, WordIff
<1>3. ASSUME NEW w \in Word, NEW d \in Byte
      PROVE  /\ 256 * d \in Word /\ Xor(w, 256 * d) \in Word
             /\ NextCrc(w, d) = Shifted(Xor(w, 256 * d)) /\ NextCrc(w, d) \in Word
  BY UpdateIsShifted, ShiftedLinear
<1> DEFINE T == {i \in 0..n : c[i] \notin Word}
<1>4. T = {}
  <2>1. SUFFICES ASSUME T # {} PROVE FALSE
    OBVIOUS
  <2>2. T \in SUBSET Nat
    OBVIOUS
  <2>3. PICK x \in T : \A y \in T : x <= y
    <3> HIDE DEF T
    <3> QED BY <2>1, <2>2, Smallest
  <2>4. x \in 0..n /\ c[x] \notin Word
    OBVIOUS
  <2>5. x # 0
    BY <1>2, <2>4
  <2>6. x - 1 \in 0..n /\ x - 1 < x /\ x \in 1..n
    BY <2>4, <2>5
  <2>7. c[x-1] \in Word
    BY <2>3, <2>4, <2>6
  <2>8. s[x] \in Byte
    BY <2>6
  <2> QED BY <1>1, <1>3, <2>4, <2>5, <2>7, <2>8
<1>5. \A i \in 0..n : c[i] \in Word
  BY <1>4
<1>6. ASSUME NEW i \in 1..n
      PROVE  /\ 256 * s[i] \in Word /\ Xor(c[i-1], 256 * s[i]) \in Word
             /\ c[i] = Shifted(Xor(c[i-1], 256 * s[i]))
  <2>1. i \in 0..n /\ i # 0 /\ i - 1 \in 0..n
    OBVIOUS
  <2>2. c[i-1] \in Word /\ s[i] \in Byte
    BY <1>5, <2>1
  <2>3. c[i] = NextCrc(c[i-1], s[i])
    BY <1>1, <2>1
  <2> QED BY <1>3, <2>2, <2>3
<1> QED BY <1>2, <1>5, <1>6

(* c has what UpdateCRC makes of the first n bytes of f, and f of the rest.  *)
CrcsOf(f, c) ==
    /\ c[0] = 0 /\ \A n \in 0..Len(f) : c[n] \in Word
    /\ \A n \in 0..Len(f) : UpdateCRC(0, SubSeq(f, 1, n)) = c[n]
    /\ \A n \in 1..Len(f) : /\ f[n] \in Byte /\ 256 * f[n] \in Word
                            /\ Xor(c[n-1], 256 * f[n]) \in Word
                            /\ c[n] = Shifted(Xor(c[n-1], 256 * f[n]))

(* There is such a function for every sequence of bytes.                     *)
LEMMA CrcsOfAre ==
    ASSUME NEW f \in Seq(Byte)
    PROVE  \E c : CrcsOf(f, c)
<1>1. Len(f) \in Nat /\ \A i \in 1..Len(f) : f[i] \in Byte
  BY LenProperties, ElementOfSeq
<1>2. PICK c : Crcs(f, Len(f), c)
  BY <1>1, CrcsExist
<1>3. /\ c[0] = 0 /\ \A i \in 0..Len(f) : c[i] \in Word
      /\ \A i \in 1..Len(f) : /\ 256 * f[i] \in Word /\ Xor(c[i-1], 256 * f[i]) \in Word
                              /\ c[i] = Shifted(Xor(c[i-1], 256 * f[i]))
  BY <1>1, <1>2, CrcsAre
<1>4. ASSUME NEW n \in 0..Len(f) PROVE UpdateCRC(0, SubSeq(f, 1, n)) = c[n]
  <2> DEFINE s == SubSeq(f, 1, n)
             d == CHOOSE g : Crcs(s, Len(s), g)
  <2>1. n \in Nat /\ n <= Len(f) /\ n \in 0..n
    BY <1>1
  <2>2. Len(s) = n
    BY <2>1, FirstLen
  <2>3. \A i \in 1..n : s[i] = f[i]
    BY <1>1, <2>1
  <2>4. UpdateCRC(0, s) = d[Len(s)]
    BY Zenon DEF UpdateCRC, Crcs
  <2> HIDE DEF s
  <2>5. Crcs(s, n, d)
    <3>1. \E g : Crcs(s, n, g)
      BY <2>1, CrcsExist
    <3> QED BY <2>2, <3>1, Zenon
  <2> HIDE DEF d
  <2>6. \A i \in 0..n : d[i] = c[i]
    <3>1. PICK m \in Nat : m = Len(f) /\ n <= m /\ Crcs(f, m, c)
      BY <1>1, <1>2, <2>1
    <3>2. n \in Nat
      BY <2>1
    <3>3. SameFirst(s, f, n)
      BY <2>3 DEF SameFirst
    <3> QED BY <2>5, <3>1, <3>2, <3>3, CrcsAgree, SMT
  <2> QED BY <2>1, <2>2, <2>4, <2>6 DEF s
<1> QED BY <1>1, <1>3, <1>4 DEF CrcsOf
-----------------------------------------------------------------------------
(* A sequence of bytes that ends with the CRC of what comes before.          *)
Whole(f) ==
    /\ f \in Seq(Byte) /\ Len(f) >= 2
    /\ getCrc(f) = UpdateCRC(0, SubSeq(f, 1, Len(f) - 2))

(* What comes before the CRC are bytes.                                      *)
LEMMA BodyIs ==
    ASSUME NEW id \in Byte, NEW instruction \in Byte, NEW n, NEW params,
           SizedSeq(Byte, n, params), 3 + n \in Word
    PROVE  SizedSeq(Byte, 8 + n, Body(id, instruction, params))
<1> DEFINE fields == <<Reserve, id, WordLoByte(3 + n), WordHiByte(3 + n), instruction>>
<1>1. Body(id, instruction, params) = Header \o fields \o params
  <2>1. Len(params) = n
    BY DEF SizedSeq
  <2> QED BY <2>1 DEF Body, PacketLength
<1>2. SizedSeq(Byte, 3, Header)
  <2>1. 253 \in Byte /\ 255 \in Byte
    BY ByteIff
  <2> QED BY <2>1 DEF SizedSeq, Header
<1>3. SizedSeq(Byte, 5, fields)
  <2>1. 0 \in Byte /\ WordLoByte(3 + n) \in Byte /\ WordHiByte(3 + n) \in Byte
    BY ByteIff, WordIs
  <2> QED BY <2>1 DEF SizedSeq, Reserve
<1> HIDE DEF fields
<1>4. 3 + 5 = 8
  OBVIOUS
<1>5. SizedSeq(Byte, 8, Header \o fields)
  BY <1>2, <1>3, <1>4, JoinedAre
<1> QED BY <1>1, <1>5, JoinedAre

(* Both builders put the CRC of all that comes before behind it.             *)
LEMMA MadeIsWhole ==
    ASSUME NEW f, Made(f)
    PROVE  Whole(f)
<1>1. PICK id, instruction, n, params :
          /\ id \in Byte /\ instruction \in Byte /\ n \in Nat
          /\ SizedSeq(Byte, n, params) /\ 3 + n \in Word
          /\ \/ f = Build(id, instruction, params)
             \/ f = build(10 + n, id, instruction, params)
  BY DEF Made, SizedSeq
<1>2. PICK b : b = Body(id, instruction, params)
  OBVIOUS
<1>3. PICK m \in Nat : m = 8 + n
  BY <1>1
<1>4. b = Body(id, instruction, params) /\ m = 8 + n /\ SizedSeq(Byte, m, b)
  <2>1. SizedSeq(Byte, 8 + n, Body(id, instruction, params))
    BY <1>1, BodyIs
  <2> QED BY <1>2, <1>3, <2>1
<1>5. b \in Seq(Byte) /\ Len(b) = m
  BY <1>4 DEF SizedSeq
<1>6. SubSeq(b, 1, m) = b
  BY <1>5
<1>7. PICK w \in Word : w = UpdateCRC(0, b)
  <2>1. PICK c : CrcsOf(b, c)
    BY <1>5, CrcsOfAre
  <2>2. m \in 0..Len(b)
    BY <1>5
  <2>3. UpdateCRC(0, SubSeq(b, 1, m)) = c[m] /\ c[m] \in Word
    BY <2>1, <2>2 DEF CrcsOf
  <2> QED BY <1>6, <2>3
<1>8. f = b \o CrcBytes(w)
  <2>1. CASE f = Build(id, instruction, params)
    BY <1>4, <1>7, <2>1 DEF Build
  <2>2. CASE f = build(10 + n, id, instruction, params)
    <3>1. 10 + n - 2 = m
      BY <1>1, <1>4
    <3>2. build(10 + n, id, instruction, params) = b \o CrcBytes(UpdateCRC(0, SubSeq(b, 1, m)))
      BY <1>1, <1>4, <3>1 DEF build
    <3> QED BY <1>6, <1>7, <2>2, <3>2
  <2> QED BY <1>1, <2>1, <2>2
<1>9. PICK lo \in Byte, hi \in Byte : CrcBytes(w) = <<lo, hi>> /\ MakeWord(lo, hi) = w
  BY WordIs DEF CrcBytes
<1>10. PICK t : t = <<lo, hi>> /\ t[1] = lo /\ t[2] = hi /\ SizedSeq(Byte, 2, t)
  <2>1. SizedSeq(Byte, 2, <<lo, hi>>)
    BY DEF SizedSeq
  <2> QED BY <2>1
<1>11. SizedSeq(Byte, m + 2, f) /\ Carries(f, 0, b, m) /\ Carries(f, m, t, 2)
  BY <1>4, <1>8, <1>9, <1>10, JoinedAre
<1>12. f \in Seq(Byte) /\ Len(f) = m + 2
  BY <1>11 DEF SizedSeq
<1>13. f[m + 1] = lo /\ f[m + 2] = hi
  BY <1>10, <1>11 DEF Carries
<1>14. getCrc(f) = w
  <2>1. m + 2 - 1 = m + 1
    OBVIOUS
  <2> QED BY <1>9, <1>12, <1>13, <2>1 DEF getCrc
<1>15. SubSeq(f, 1, m) = b
  <2>1. \A i \in 1..m : f[i] = b[i]
    BY <1>11 DEF Carries
  <2> QED BY <1>5, <1>12, <2>1
<1>16. Len(f) >= 2 /\ Len(f) - 2 = m
  BY <1>12
<1> QED BY <1>7, <1>12, <1>14, <1>15, <1>16 DEF Whole

(* So does every order and every broadcast.                                  *)
LEMMA OrdersAreWhole == \A o \in HostOrders \cup Broadcasts : Whole(Encode(o))
BY OrdersSay, MadeIsWhole DEF Says

(* The CRC that is sent is the one of the polynomial 8005 over all the bytes *)
(* before it: byte after byte, the table of Packet::UpdateCRC does what      *)
(* eight shifts do, for every id, value and selection of servos.             *)
THEOREM CrcIsPolynomial == Spec => []CrcOfPolynomial
<1>1. FrameInv => CrcOfPolynomial
  <2> SUFFICES ASSUME FrameInv, ~damaged PROVE CrcOfPolynomial
    BY DEF CrcOfPolynomial
  <2>1. Whole(frame)
    BY OrdersAreWhole DEF FrameInv
  <2>2. PICK c : CrcsOf(frame, c)
    BY <2>1, CrcsOfAre DEF Whole
  <2>3. Len(frame) \in Nat
    BY <2>1, LenProperties DEF Whole
  <2>4. ASSUME NEW n \in 1..Len(frame) - 2
        PROVE  CrcOf(n) = Shifted(Xor(CrcOf(n - 1), 256 * frame[n]))
    <3>1. n \in 0..Len(frame) /\ n - 1 \in 0..Len(frame) /\ n \in 1..Len(frame)
      BY <2>3
    <3>2. CrcOf(n) = c[n] /\ CrcOf(n - 1) = c[n - 1]
      BY <2>2, <3>1 DEF CrcsOf, CrcOf
    <3>3. c[n] = Shifted(Xor(c[n - 1], 256 * frame[n]))
      BY <2>2, <3>1 DEF CrcsOf
    <3> QED BY <3>2, <3>3
  <2>5. getCrc(frame) = CrcOf(Len(frame) - 2)
    BY <2>1 DEF Whole, CrcOf
  <2> QED BY <2>4, <2>5 DEF CrcOfPolynomial
<1> QED BY <1>1, FrameAlways, PTL
-----------------------------------------------------------------------------
(* What inverts bits of a byte changes it, and it stays a byte.              *)
LEMMA FlipChanges ==
    ASSUME NEW x \in Byte, NEW flip \in 1..255
    PROVE  Xor(x, flip) \in Byte /\ Xor(x, flip) # x
<1>1. flip \in Byte /\ flip # 0
  BY ByteIff
<1>2. x \in Word /\ flip \in Word /\ 0 \in Word
  BY <1>1, ByteIff, WordIff
<1>3. Xor(x, 0) = x
  BY <1>2, XorNothing
<1>4. Xor(x, flip) # x
  BY <1>1, <1>2, <1>3, XorCancels
<1> QED BY <1>1, <1>4, XorHigh

(* f and g differ in one element.                                            *)
DifferAt(f, g, i) ==
    /\ Len(f) \in Nat /\ Len(g) = Len(f) /\ i \in 1..Len(f) /\ f[i] # g[i]
    /\ \A j \in 1..Len(f) : j # i => g[j] = f[j]

(* If the CRC are the same before it, they never are after it.               *)
LEMMA OneByteChanges ==
    ASSUME NEW f, NEW g, NEW c, NEW d, CrcsOf(f, c), CrcsOf(g, d),
           NEW i, DifferAt(f, g, i), c[i - 1] = d[i - 1]
    PROVE  \A j \in i..Len(f) : c[j] # d[j]
<1>0. /\ Len(f) \in Nat /\ Len(g) = Len(f) /\ i \in 1..Len(f) /\ f[i] # g[i]
      /\ \A j \in 1..Len(f) : j # i => g[j] = f[j]
  BY DEF DifferAt
<1>1. \A n \in 0..Len(f) : c[n] \in Word /\ d[n] \in Word
  BY <1>0 DEF CrcsOf
<1>2. \A n \in 1..Len(f) :
          /\ f[n] \in Byte /\ 256 * f[n] \in Word
          /\ Xor(c[n-1], 256 * f[n]) \in Word /\ c[n] = Shifted(Xor(c[n-1], 256 * f[n]))
  BY DEF CrcsOf
<1>3. \A n \in 1..Len(f) :
          /\ g[n] \in Byte /\ 256 * g[n] \in Word
          /\ Xor(d[n-1], 256 * g[n]) \in Word /\ d[n] = Shifted(Xor(d[n-1], 256 * g[n]))
  BY <1>0 DEF CrcsOf
<1> DEFINE T == {j \in i..Len(f) : c[j] = d[j]}
<1> SUFFICES ASSUME T # {} PROVE FALSE
  OBVIOUS
<1>4. PICK k \in T : \A j \in T : k <= j
  <2>1. T \in SUBSET Nat
    BY <1>0
  <2> HIDE DEF T
  <2> QED BY <2>1, Smallest
<1>5. k \in i..Len(f) /\ c[k] = d[k]
  OBVIOUS
<1>6. k \in 1..Len(f) /\ k - 1 \in 0..Len(f)
  BY <1>0, <1>5
<1>7. PICK u \in Word, v \in Word, y \in Word, z \in Word :
          u = c[k-1] /\ v = d[k-1] /\ y = 256 * f[k] /\ z = 256 * g[k]
  BY <1>1, <1>2, <1>3, <1>6
<1>8. Shifted(Xor(u, y)) = Shifted(Xor(v, z)) /\ Xor(u, y) \in Word /\ Xor(v, z) \in Word
  BY <1>2, <1>3, <1>5, <1>6, <1>7
<1>9. Xor(u, y) = Xor(v, z)
  BY <1>8, ShiftedCancels
<1>10. CASE k = i
  <2>1. u = v
    BY <1>7, <1>10
  <2>2. y = z
    BY <1>9, <2>1, XorCancels
  <2>3. f[k] \in Int /\ g[k] \in Int
    BY <1>2, <1>3, <1>6, ByteIff
  <2>4. f[k] = g[k]
    BY <1>7, <2>2, <2>3
  <2> QED BY <1>0, <1>10, <2>4
<1>11. CASE k # i
  <2>1. y = z
    BY <1>0, <1>6, <1>7, <1>11
  <2>2. Xor(u, y) = Xor(y, u) /\ Xor(v, z) = Xor(z, v)
    BY XorHalves
  <2>3. Xor(y, u) = Xor(y, v)
    BY <1>9, <2>1, <2>2
  <2>4. u = v
    BY <2>3, XorCancels
  <2>5. k - 1 \in T
    <3>1. k - 1 \in i..Len(f)
      BY <1>0, <1>5, <1>11
    <3> QED BY <1>7, <2>4, <3>1
  <2>6. k \in Int /\ k - 1 < k
    BY <1>0, <1>5
  <2>7. k <= k - 1
    BY <1>4, <2>5
  <2> QED BY <2>6, <2>7
<1> QED BY <1>10, <1>11

(* Whatever byte of a packet is damaged, its CRC does not fit any more.      *)
LEMMA OneByteShows ==
    ASSUME NEW f, Whole(f), NEW i \in DOMAIN f, NEW flip \in 1..255,
           NEW g, g = [f EXCEPT ![i] = Xor(@, flip)]
    PROVE  getCrc(g) # UpdateCRC(0, SubSeq(g, 1, Len(g) - 2))
<1>1. /\ f \in Seq(Byte) /\ Len(f) \in Nat /\ Len(f) >= 2 /\ i \in 1..Len(f)
      /\ \A j \in 1..Len(f) : f[j] \in Byte
  BY LenProperties, ElementOfSeq DEF Whole
<1>2. PICK y \in Byte : y = Xor(f[i], flip) /\ y # f[i]
  BY <1>1, FlipChanges
<1>3. g = [f EXCEPT ![i] = y]
  BY <1>2
<1>4. /\ g \in Seq(Byte) /\ Len(g) = Len(f) /\ g[i] = y
      /\ \A j \in 1..Len(f) : j # i => g[j] = f[j]
  BY <1>1, <1>3
<1>5. PICK c : CrcsOf(f, c)
  BY <1>1, CrcsOfAre
<1>6. PICK d : CrcsOf(g, d)
  BY <1>4, CrcsOfAre
<1>7. PICK l \in Nat : l = Len(f) - 2 /\ l \in 0..Len(f) /\ Len(f) = l + 2
  BY <1>1
<1>8. \A n \in 0..Len(f) : /\ UpdateCRC(0, SubSeq(f, 1, n)) = c[n]
                           /\ UpdateCRC(0, SubSeq(g, 1, n)) = d[n]
  <2>1. \A n \in 0..Len(f) : UpdateCRC(0, SubSeq(f, 1, n)) = c[n]
    BY <1>5 DEF CrcsOf
  <2>2. \A n \in 0..Len(g) : UpdateCRC(0, SubSeq(g, 1, n)) = d[n]
    BY <1>6 DEF CrcsOf
  <2>3. Len(g) = Len(f)
    BY <1>4
  <2> QED BY <2>1, <2>2, <2>3
<1>9. getCrc(f) = c[l]
  BY <1>7, <1>8 DEF Whole
<1>10. ASSUME NEW n \in 0..Len(f), n < i PROVE c[n] = d[n]
  <2>1. SubSeq(f, 1, n) = [j \in 1..n |-> f[j]] /\ SubSeq(g, 1, n) = [j \in 1..n |-> g[j]]
    BY <1>1, <1>4
  <2>2. \A j \in 1..n : g[j] = f[j]
    BY <1>1, <1>4, <1>10
  <2>3. SubSeq(f, 1, n) = SubSeq(g, 1, n)
    BY <2>1, <2>2
  <2> QED BY <1>8, <2>3
<1>11. SUFFICES getCrc(g) # d[l]
  BY <1>4, <1>7, <1>8
<1>12. CASE i <= l
  <2>1. \A j \in i..Len(f) : c[j] # d[j]
    <3>1. i - 1 \in 0..Len(f) /\ i - 1 < i
      BY <1>1
    <3>2. c[i - 1] = d[i - 1]
      BY <1>10, <3>1
    <3>3. DifferAt(f, g, i)
      BY <1>1, <1>2, <1>4 DEF DifferAt
    <3> QED BY <1>5, <1>6, <3>2, <3>3, OneByteChanges
  <2>2. c[l] # d[l]
    BY <1>1, <1>7, <1>12, <2>1
  <2>3. getCrc(g) = getCrc(f)
    <3>1. Len(f) - 1 \in 1..Len(f) /\ Len(f) \in 1..Len(f) /\ Len(f) - 1 # i /\ Len(f) # i
      BY <1>1, <1>7, <1>12
    <3> QED BY <1>4, <3>1 DEF getCrc
  <2> QED BY <1>9, <2>2, <2>3
<1>13. CASE ~(i <= l)
  <2>1. c[l] = d[l]
    BY <1>1, <1>7, <1>10, <1>13
  <2>2. i = l + 1 \/ i = l + 2
    BY <1>1, <1>7, <1>13
  <2>3. l + 1 \in 1..Len(f) /\ l + 2 \in 1..Len(f) /\ l + 2 - 1 = l + 1
    BY <1>7
  <2>4. PICK p \in Int, q \in Int : p = f[l + 1] /\ q = f[l + 2]
    BY <1>1, <2>3, ByteIff
  <2>5. getCrc(f) = p + 256 * q
    BY <1>7, <2>3, <2>4 DEF getCrc, MakeWord
  <2>6. getCrc(g) = g[l + 1] + 256 * g[l + 2]
    BY <1>4, <1>7, <2>3 DEF getCrc, MakeWord
  <2>7. y \in Int
    BY ByteIff
  <2>8. CASE i = l + 1
    <3>1. getCrc(g) = y + 256 * q /\ y # p
      BY <1>2, <1>4, <2>3, <2>4, <2>6, <2>8
    <3>2. getCrc(g) # getCrc(f)
      BY <2>4, <2>5, <2>7, <3>1
    <3> QED BY <1>9, <2>1, <3>2
  <2>9. CASE i = l + 2
    <3>1. getCrc(g) = p + 256 * y /\ y # q
      BY <1>2, <1>4, <2>3, <2>4, <2>6, <2>9
    <3>2. getCrc(g) # getCrc(f)
      BY <2>4, <2>5, <2>7, <3>1
    <3> QED BY <1>9, <2>1, <3>2
  <2> QED BY <2>2, <2>8, <2>9
<1> QED BY <1>12, <1>13

(* Damage inverts bits of one byte of what was built.                        *)
DamageInv ==
    damaged => \E i \in DOMAIN Encode(order), flip \in Flips :
                  frame = [Encode(order) EXCEPT ![i] = Xor(@, flip)]

(* It happens once.                                                          *)
LEMMA DamageOnce == Spec => []DamageInv
<1>1. Init => DamageInv
  BY DEF Init, DamageInv
<1>2. FrameInv /\ DamageInv /\ [Next]_vars => DamageInv'
  <2> SUFFICES ASSUME FrameInv, DamageInv, [Next]_vars PROVE DamageInv'
    OBVIOUS
  <2>1. CASE Damage
    BY <2>1 DEF Damage, FrameInv, DamageInv
  <2>2. CASE Arrive
    BY <2>2 DEF Arrive, vars, DamageInv
  <2>3. CASE UNCHANGED vars
    BY <2>3 DEF vars, DamageInv
  <2> QED BY <2>1, <2>2, <2>3 DEF Next
<1> QED BY <1>1, <1>2, FrameAlways, PTL DEF Spec

(* A byte damaged on the line shows in the CRC, whatever bits of it are      *)
(* inverted, also when it is one of the length or of the CRC itself.         *)
THEOREM DamageAlwaysShows == Spec => []DamageShows
<1>1. FrameInv /\ DamageInv => DamageShows
  <2> SUFFICES ASSUME FrameInv, DamageInv, damaged
               PROVE  getCrc(frame) # CrcOf(Len(frame) - 2)
    BY DEF DamageShows
  <2>1. PICK i \in DOMAIN Encode(order), flip \in Flips :
            frame = [Encode(order) EXCEPT ![i] = Xor(@, flip)]
    BY DEF DamageInv
  <2>2. Whole(Encode(order))
    BY OrdersAreWhole DEF FrameInv
  <2>3. flip \in 1..255
    BY ValuesAssumption
  <2> QED BY <2>1, <2>2, <2>3, OneByteShows DEF CrcOf
<1> QED BY <1>1, FrameAlways, DamageOnce, PTL
=============================================================================
