------------------------ MODULE PacketParserProofs ------------------------
(***************************************************************************)
(* Theorems about PacketParser, for every line and every cut of it.        *)
(***************************************************************************)
EXTENDS PacketParser, SuffixLemmas

(* The bytes of a packet that is complete are in the buffer.                 *)
LEMMA PacketInBuffer ==
    ASSUME NEW s \in Seq(Byte), HasPacket(s)
    PROVE  PacketSize(s) \in Nat /\ PacketSize(s) >= 7 /\ PacketSize(s) <= Len(s)
<1>1. Len(s) \in Nat /\ Len(s) >= 7 /\ PacketSize(s) <= Len(s)
  BY LenProperties DEF HasPacket
<1>2. s[6] \in 0..255 /\ s[7] \in 0..255
  <2>1. 6 \in 1..Len(s) /\ 7 \in 1..Len(s)
    BY <1>1
  <2> QED BY <2>1, ElementOfSeq DEF Byte
<1>3. PacketSize(s) = 7 + (s[6] + 256 * s[7])
  BY DEF PacketSize, getLength, MakeWord
<1>4. 7 + (s[6] + 256 * s[7]) \in Nat /\ 7 + (s[6] + 256 * s[7]) >= 7
  <2>1. \A lo, hi \in 0..255 : 7 + (lo + 256 * hi) \in Nat /\ 7 + (lo + 256 * hi) >= 7
    OBVIOUS
  <2> QED BY <1>2, <2>1
<1> QED BY <1>1, <1>3, <1>4

(* The bytes that were not sent yet and those that wait are moved as wholes. *)
LEMMA ReadJoins ==
    ASSUME TypeOK, NEW n \in 1..MaxChunk, Read(n)
    PROVE  /\ line' \in Seq(Byte) /\ mParseBuffer' \in Seq(Byte)
           /\ mParseBuffer' \o line' = mParseBuffer \o line
<1> DEFINE chunk == SubSeq(line, 1, n)
           rest == From(line, n + 1)
<1>1. /\ line \in Seq(Byte) /\ mParseBuffer \in Seq(Byte)
      /\ n \in Nat \ {0} /\ n <= Len(line) /\ Len(line) \in Nat
      /\ mParseBuffer' = mParseBuffer \o chunk /\ line' = rest
  BY ChunkAssumption, LenProperties DEF TypeOK, Read
<1>2. chunk \in Seq(Byte) /\ chunk \o rest = line
  BY <1>1, CutAndJoin
<1>3. rest \in Seq(Byte)
  <2>1. n + 1 \in Nat \ {0} /\ n + 1 <= Len(line) + 1
    BY <1>1
  <2> QED BY <1>1, <2>1, FromType
<1> HIDE DEF chunk, rest
<1>4. (mParseBuffer \o chunk) \o rest = mParseBuffer \o (chunk \o rest)
  <2>1. mParseBuffer \in Seq(Byte) /\ chunk \in Seq(Byte) /\ rest \in Seq(Byte)
    BY <1>1, <1>2, <1>3
  <2> QED BY <2>1, ConcatAssociative
<1>5. mParseBuffer \o chunk \in Seq(Byte)
  BY <1>1, <1>2, ConcatProperties
<1> QED BY <1>1, <1>2, <1>3, <1>4, <1>5

(* A parse takes bytes from the front of the buffer, and only there.         *)
Taken(n) == n \in 0..Len(mParseBuffer) /\ mParseBuffer' = From(mParseBuffer, n + 1)

(* The bytes of a wrong header are taken from the front.                     *)
LEMMA DropTakes == TypeOK /\ DropHeader => \E n \in Nat : Taken(n)
<1> SUFFICES ASSUME TypeOK, DropHeader PROVE \E n \in Nat : Taken(n)
  OBVIOUS
<1>1. PICK k \in 1..3 : BadHeaderAt(mParseBuffer, k) /\ mParseBuffer' = From(mParseBuffer, k + 1)
  BY DEF DropHeader
<1>2. k \in Nat /\ k \in 0..Len(mParseBuffer)
  BY <1>1, LenProperties DEF TypeOK, BadHeaderAt
<1> QED BY <1>1, <1>2 DEF Taken

(* So are those of a packet that is given to processPacket.                  *)
LEMMA DeliverTakes == TypeOK /\ Deliver => \E n \in Nat : Taken(n)
<1> SUFFICES ASSUME TypeOK, Deliver PROVE \E n \in Nat : Taken(n)
  OBVIOUS
<1>1. PacketSize(mParseBuffer) \in Nat /\ PacketSize(mParseBuffer) <= Len(mParseBuffer)
  BY PacketInBuffer DEF TypeOK, Deliver
<1>2. PacketSize(mParseBuffer) \in 0..Len(mParseBuffer)
  BY <1>1, LenProperties DEF TypeOK
<1> QED BY <1>1, <1>2 DEF Deliver, Taken
-----------------------------------------------------------------------------
(* A line is a sequence of pieces, each a sequence of bytes.                 *)
LEMMA LineType ==
    ASSUME NEW l \in Lines
    PROVE  /\ l \in Seq(Pieces) /\ Len(l) \in Nat
           /\ \A i \in 1..Len(l) : l[i] \in Pieces /\ IsPiece(l[i])
           /\ Packets(l) \in Seq(Seq(Byte)) /\ Len(Packets(l)) = Len(l)
           /\ BytesOf(l) \in Seq(Byte)
<1>1. l \in Seq(Pieces) /\ \A i \in DOMAIN l : IsPiece(l[i])
  BY LinesAssumption
<1>2. Len(l) \in Nat /\ DOMAIN l = 1..Len(l) /\ \A i \in 1..Len(l) : l[i] \in Pieces
  BY <1>1, LenProperties, ElementOfSeq
<1>3. \A i \in 1..Len(l) : l[i].bytes \in Seq(Byte)
  BY <1>2 DEF Pieces
<1>4. Packets(l) \in [1..Len(l) -> Seq(Byte)]
  BY <1>2, <1>3 DEF Packets
<1>5. Packets(l) \in Seq(Seq(Byte)) /\ Len(Packets(l)) = Len(l)
  BY <1>2, <1>4
<1>6. BytesOf(l) \in Seq(Byte)
  BY <1>5, FlattenType DEF BytesOf
<1> QED BY <1>1, <1>2, <1>5, <1>6

(* The types hold at the start, and every action keeps them.                 *)
LEMMA InitType == Init => TypeOK
BY LineType, EmptySeq DEF Init, TypeOK

(* A step of the parser or a read keeps the types.                           *)
LEMMA NextType == TypeOK /\ [Next]_vars => TypeOK'
<1> SUFFICES ASSUME TypeOK, [Next]_vars PROVE TypeOK'
  OBVIOUS
<1>1. ASSUME NEW n \in Nat, Taken(n) PROVE mParseBuffer' \in Seq(Byte)
  <2>1. /\ mParseBuffer \in Seq(Byte) /\ Len(mParseBuffer) \in Nat
        /\ n + 1 \in Nat \ {0} /\ n + 1 <= Len(mParseBuffer) + 1
        /\ mParseBuffer' = From(mParseBuffer, n + 1)
    BY <1>1, LenProperties DEF TypeOK, Taken
  <2> QED BY <2>1, FromType
<1>2. ASSUME NEW n \in 1..MaxChunk, Read(n) PROVE TypeOK'
  <2>1. line' \in Seq(Byte) /\ mParseBuffer' \in Seq(Byte)
    BY <1>2, ReadJoins
  <2> QED BY <1>2, <2>1 DEF TypeOK, Read
<1>3. CASE DropHeader
  <2>1. mParseBuffer' \in Seq(Byte)
    BY <1>1, <1>3, DropTakes
  <2> QED BY <1>3, <2>1 DEF TypeOK, DropHeader
<1>4. CASE Wait
  BY <1>4 DEF TypeOK, Wait
<1>5. CASE Deliver
  <2> DEFINE pack == SubSeq(mParseBuffer, 1, PacketSize(mParseBuffer))
  <2>1. mParseBuffer' \in Seq(Byte)
    BY <1>1, <1>5, DeliverTakes
  <2>2. pack \in Seq(Byte)
    <3>1. PacketSize(mParseBuffer) \in Nat /\ PacketSize(mParseBuffer) <= Len(mParseBuffer)
      BY <1>5, PacketInBuffer DEF TypeOK, Deliver
    <3>2. mParseBuffer \in Seq(Byte)
      BY DEF TypeOK
    <3> QED BY <3>1, <3>2, CutAndJoin
  <2>3. delivered' = Append(delivered, pack) /\ delivered \in Seq(Seq(Byte))
    BY <1>5 DEF Deliver, TypeOK
  <2> HIDE DEF pack
  <2>4. delivered' \in Seq(Seq(Byte))
    BY <2>2, <2>3, AppendProperties
  <2> QED BY <1>5, <2>1, <2>4 DEF TypeOK, Deliver
<1>6. CASE UNCHANGED vars
  BY <1>6 DEF TypeOK, vars
<1> QED BY <1>2, <1>3, <1>4, <1>5, <1>6 DEF Next, ParsePacket, Silence

(* Every variable of PacketParser keeps its type: a buffer of bytes goes in, *)
(* packets of bytes come out, whatever the bytes are (Service.cxx:374-466).  *)
THEOREM ParserTypeCorrect == Spec => []TypeOK
BY InitType, NextType, PTL DEF Spec
-----------------------------------------------------------------------------
(* Taking n bytes from the front moves on by n bytes of what was sent.       *)
LEMMA TakenMovesOn ==
    ASSUME TypeOK, NEW k \in 1..Len(stream) + 1,
           mParseBuffer \o line = From(stream, k),
           NEW n \in Nat, Taken(n), UNCHANGED <<line, stream>>
    PROVE  /\ k + n \in 1..Len(stream) + 1
           /\ mParseBuffer' \o line' = From(stream, k + n)
<1>2. /\ stream \in Seq(Byte) /\ line \in Seq(Byte) /\ mParseBuffer \in Seq(Byte)
      /\ Len(stream) \in Nat /\ Len(line) \in Nat /\ Len(mParseBuffer) \in Nat
      /\ k \in Nat \ {0} /\ n + 1 \in Nat \ {0}
      /\ k <= Len(stream) + 1 /\ n <= Len(mParseBuffer)
      /\ mParseBuffer' = From(mParseBuffer, n + 1)
  BY LenProperties DEF TypeOK, Taken
<1>3. Len(mParseBuffer) + Len(line) = Len(stream) - k + 1
  <2>1. Len(mParseBuffer \o line) = Len(mParseBuffer) + Len(line)
    BY <1>2, ConcatProperties
  <2>2. Len(From(stream, k)) = Len(stream) - k + 1
    BY <1>2, FromType
  <2> QED BY <2>1, <2>2
<1>4. From(mParseBuffer, n + 1) \o line = From(mParseBuffer \o line, n + 1)
  <2>1. n + 1 <= Len(mParseBuffer) + 1
    BY <1>2
  <2> QED BY <1>2, <2>1, FromConcat
<1>5. From(From(stream, k), n + 1) = From(stream, k + (n + 1) - 1)
  <2>1. k + (n + 1) <= Len(stream) + 2
    BY <1>2, <1>3
  <2> QED BY <1>2, <2>1, FromFrom
<1>6. k + n \in 1..Len(stream) + 1 /\ k + (n + 1) - 1 = k + n
  BY <1>2, <1>3
<1> QED BY <1>2, <1>4, <1>5, <1>6

(* So what waits and what is still to come stays the end of what was sent.   *)
LEMMA TakenConserves ==
    ASSUME TypeOK, BytesConserved, NEW n \in Nat, Taken(n), UNCHANGED <<line, stream>>
    PROVE  BytesConserved'
<1>1. PICK k \in 1..Len(stream) + 1 : mParseBuffer \o line = From(stream, k)
  BY DEF BytesConserved
<1>2. /\ k + n \in 1..Len(stream') + 1
      /\ mParseBuffer' \o line' = From(stream', k + n)
  BY <1>1, TakenMovesOn
<1> QED BY <1>2 DEF BytesConserved

(* At the start all of it is still to come.                                  *)
LEMMA InitConserved == Init => BytesConserved
<1> SUFFICES ASSUME Init PROVE BytesConserved
  OBVIOUS
<1>1. stream \in Seq(Byte) /\ Len(stream) \in Nat
  BY InitType, LenProperties DEF TypeOK
<1>2. mParseBuffer \o line = stream
  BY <1>1, ConcatEmptySeq DEF Init
<1>3. From(stream, 1) = stream
  BY <1>1, SubSeqFull DEF From
<1>4. 1 \in 1..Len(stream) + 1
  BY <1>1
<1> QED BY <1>2, <1>3, <1>4 DEF BytesConserved

(* Reads join what they cut, parses take from the front.                     *)
LEMMA NextConserved == TypeOK /\ BytesConserved /\ [Next]_vars => BytesConserved'
<1> SUFFICES ASSUME TypeOK, BytesConserved, [Next]_vars PROVE BytesConserved'
  OBVIOUS
<1>1. ASSUME NEW n \in 1..MaxChunk, Read(n) PROVE BytesConserved'
  <2>1. mParseBuffer' \o line' = mParseBuffer \o line
    BY <1>1, ReadJoins
  <2>2. stream' = stream
    BY <1>1 DEF Read
  <2> QED BY <2>1, <2>2 DEF BytesConserved
<1>2. CASE DropHeader
  <2>1. UNCHANGED <<line, stream>>
    BY <1>2 DEF DropHeader
  <2> QED BY <1>2, <2>1, DropTakes, TakenConserves
<1>3. CASE Wait
  <2>1. UNCHANGED <<line, stream, mParseBuffer>>
    BY <1>3 DEF Wait
  <2> QED BY <2>1 DEF BytesConserved
<1>4. CASE Deliver
  <2>1. UNCHANGED <<line, stream>>
    BY <1>4 DEF Deliver
  <2> QED BY <1>4, <2>1, DeliverTakes, TakenConserves
<1>5. CASE UNCHANGED vars
  <2>1. UNCHANGED <<line, stream, mParseBuffer>>
    BY <1>5 DEF vars
  <2> QED BY <2>1 DEF BytesConserved
<1> QED BY <1>1, <1>2, <1>3, <1>4, <1>5 DEF Next, ParsePacket, Silence

(* However the line is cut into reads and whatever is on it, the bytes that  *)
(* wait and those still to come are the end of what was sent: none is lost,  *)
(* repeated or moved (Service.cxx:358-362, 409-436, 463).                    *)
THEOREM NoByteLost == Spec => []BytesConserved
BY InitType, NextType, InitConserved, NextConserved, PTL DEF Spec
-----------------------------------------------------------------------------
(* A parse of s that erases and parses on, from its end down to byte j: what *)
(* parse[k] is, and that p is such a function.                               *)
ParseStep(s, p, k) ==
    LET rest == From(s, k)
    IN  IF BadHeader(rest)
        THEN p[k + (CHOOSE i \in 1..3 : BadHeaderAt(rest, i))]
        ELSE IF HasPacket(rest)
             THEN <<SubSeq(rest, 1, PacketSize(rest))>> \o p[k + PacketSize(rest)]
             ELSE <<>>

Parses(s, j, p) == p = [k \in j..Len(s) + 1 |-> ParseStep(s, p, k)]

(* A header is wrong at one byte at most, and it is there.                   *)
LEMMA WrongByte ==
    ASSUME NEW s \in Seq(Byte), NEW i \in 1..3, BadHeaderAt(s, i)
    PROVE  /\ BadHeader(s)
           /\ (CHOOSE j \in 1..3 : BadHeaderAt(s, j)) = i
           /\ i <= Len(s)
<1>1. \A j \in 1..3 : BadHeaderAt(s, j) => j = i
  <2> SUFFICES ASSUME NEW j \in 1..3, BadHeaderAt(s, j) PROVE j = i
    OBVIOUS
  <2>1. j < i => j \in 1..i-1
    OBVIOUS
  <2>2. i < j => i \in 1..j-1
    OBVIOUS
  <2>3. ~(j < i) /\ ~(i < j)
    BY <2>1, <2>2 DEF BadHeaderAt
  <2> QED BY <2>3
<1>2. (CHOOSE j \in 1..3 : BadHeaderAt(s, j)) = i
  BY <1>1
<1> QED BY <1>2 DEF BadHeader, BadHeaderAt

(* From any byte on the parse goes on behind that byte and inside of s.      *)
LEMMA ParseGoesOn ==
    ASSUME NEW s \in Seq(Byte), NEW k \in 1..Len(s) + 1
    PROVE  LET rest == From(s, k) IN
           /\ rest \in Seq(Byte) /\ Len(rest) = Len(s) + 1 - k
           /\ BadHeader(rest) =>
                 k + (CHOOSE i \in 1..3 : BadHeaderAt(rest, i)) \in k+1..Len(s) + 1
           /\ HasPacket(rest) => k + PacketSize(rest) \in k+1..Len(s) + 1
<1> DEFINE rest == From(s, k)
           i == CHOOSE i \in 1..3 : BadHeaderAt(rest, i)
<1>1. Len(s) \in Nat /\ k \in Nat \ {0} /\ k <= Len(s) + 1
  BY LenProperties
<1>2. rest \in Seq(Byte) /\ Len(rest) = Len(s) - k + 1
  BY <1>1, FromType
<1> HIDE DEF rest
<1>3. BadHeader(rest) => i \in 1..3 /\ i <= Len(rest)
  BY DEF BadHeader, BadHeaderAt
<1>4. HasPacket(rest) => PacketSize(rest) \in Nat /\ PacketSize(rest) >= 7
                            /\ PacketSize(rest) <= Len(rest)
  BY <1>2, PacketInBuffer
<1> HIDE DEF i
<1>5. BadHeader(rest) => k + i \in k+1..Len(s) + 1
  BY <1>1, <1>2, <1>3
<1>6. HasPacket(rest) => k + PacketSize(rest) \in k+1..Len(s) + 1
  BY <1>1, <1>2, <1>4
<1>7. Len(rest) = Len(s) + 1 - k
  BY <1>1, <1>2
<1> QED BY <1>2, <1>5, <1>6, <1>7 DEF rest, i

(* What the parse finds at a byte depends on what it finds behind it only.   *)
LEMMA ParseAgrees ==
    ASSUME NEW s \in Seq(Byte), NEW k \in 1..Len(s) + 1, NEW p, NEW q,
           \A m \in k+1..Len(s) + 1 : p[m] = q[m]
    PROVE  ParseStep(s, p, k) = ParseStep(s, q, k)
<1> DEFINE rest == From(s, k)
           i == CHOOSE i \in 1..3 : BadHeaderAt(rest, i)
<1>1. BadHeader(rest) => p[k + i] = q[k + i]
  BY ParseGoesOn
<1>2. HasPacket(rest) => p[k + PacketSize(rest)] = q[k + PacketSize(rest)]
  BY ParseGoesOn
<1>3. /\ ParseStep(s, p, k) = IF BadHeader(rest) THEN p[k + i]
                              ELSE IF HasPacket(rest)
                              THEN <<SubSeq(rest, 1, PacketSize(rest))>> \o p[k + PacketSize(rest)]
                              ELSE <<>>
      /\ ParseStep(s, q, k) = IF BadHeader(rest) THEN q[k + i]
                              ELSE IF HasPacket(rest)
                              THEN <<SubSeq(rest, 1, PacketSize(rest))>> \o q[k + PacketSize(rest)]
                              ELSE <<>>
  BY DEF ParseStep
<1> HIDE DEF rest, i
<1> QED BY <1>1, <1>2, <1>3

(* If there is such a parse from j + 1 on, there is one from j on.           *)
LEMMA ParsesFrom ==
    ASSUME NEW s \in Seq(Byte), NEW j \in 1..Len(s) + 1, \E q : Parses(s, j + 1, q)
    PROVE  \E p : Parses(s, j, p)
<1> DEFINE n == Len(s) + 1
<1>0. n \in Nat /\ j \in 1..n /\ n = Len(s) + 1
  BY LenProperties
<1>1. PICK q : Parses(s, j + 1, q)
  OBVIOUS
<1> DEFINE first == ParseStep(s, q, j)
           p == [k \in j..n |-> IF k = j THEN first ELSE q[k]]
<1>2. \A k \in j+1..n : q[k] = ParseStep(s, q, k)
  BY <1>1 DEF Parses
<1> HIDE DEF n, first
<1>3. p[j] = first /\ \A m \in j+1..n : p[m] = q[m]
  BY <1>0
<1>4. p = [k \in j..n |-> p[k]]
  OBVIOUS
<1> HIDE DEF p
<1>5. \A k \in j..n : p[k] = ParseStep(s, p, k)
  <2> TAKE k \in j..n
  <2>1. k \in 1..Len(s) + 1 /\ \A m \in k+1..Len(s) + 1 : m \in j+1..n
    BY <1>0
  <2>2. \A m \in k+1..Len(s) + 1 : p[m] = q[m]
    BY <1>3, <2>1
  <2>3. ParseStep(s, p, k) = ParseStep(s, q, k)
    BY <2>1, <2>2, ParseAgrees
  <2>4. CASE k = j
    BY <1>3, <2>3, <2>4 DEF first
  <2>5. CASE k # j
    <3>1. k \in j+1..n
      BY <1>0, <2>5
    <3> QED BY <1>2, <1>3, <2>3, <3>1
  <2> QED BY <2>4, <2>5
<1>6. p = [k \in j..n |-> ParseStep(s, p, k)]
  BY <1>4, <1>5
<1> QED BY <1>6 DEF Parses, n

(* There is one from every byte on: otherwise there is a last one without.   *)
LEMMA ParsesExists ==
    ASSUME NEW s \in Seq(Byte)
    PROVE  \E p : Parses(s, 1, p)
<1> DEFINE n == Len(s) + 1
           T == {m \in 0..n : ~\E p : Parses(s, n + 1 - m, p)}
<1>0. n \in Nat /\ n >= 1 /\ n = Len(s) + 1
  BY LenProperties
<1> HIDE DEF n
<1>1. T = {}
  <2> SUFFICES ASSUME T # {} PROVE FALSE
    OBVIOUS
  <2>1. T \in SUBSET Nat
    BY <1>0
  <2>2. PICK x \in T : \A y \in T : x <= y
    <3> HIDE DEF T
    <3> QED BY <2>1, Smallest
  <2>3. x \in 0..n /\ ~\E p : Parses(s, n + 1 - x, p)
    OBVIOUS
  <2>4. CASE x = 0
    <3>1. n + 1 - x = Len(s) + 2
      BY <1>0, <2>4
    <3>2. Len(s) + 2..Len(s) + 1 = {}
      BY <1>0
    <3> DEFINE p == [k \in {} |-> <<>>]
    <3>3. p = [k \in Len(s) + 2..Len(s) + 1 |-> ParseStep(s, p, k)]
      BY <3>2
    <3>4. Parses(s, Len(s) + 2, p)
      BY <3>3 DEF Parses
    <3> QED BY <2>3, <3>1, <3>4
  <2>5. CASE x # 0
    <3>1. x - 1 \in 0..n /\ x - 1 \notin T
      <4>1. x - 1 \in 0..n /\ ~(x <= x - 1)
        BY <1>0, <2>3, <2>5
      <4> HIDE DEF T
      <4> QED BY <2>2, <4>1
    <3>2. \E p : Parses(s, n + 1 - (x - 1), p)
      BY <3>1
    <3>3. n + 1 - x \in 1..Len(s) + 1 /\ n + 1 - (x - 1) = (n + 1 - x) + 1
      BY <1>0, <2>3, <2>5
    <3>4. \E p : Parses(s, n + 1 - x, p)
      BY <3>2, <3>3, ParsesFrom
    <3> QED BY <2>3, <3>4
  <2> QED BY <2>4, <2>5
<1>2. n \in 0..n /\ n + 1 - n = 1
  BY <1>0
<1>3. n \notin T
  BY <1>1
<1> QED BY <1>2, <1>3

(* The parse that WholeLine names.                                           *)
ParseOf(s) == CHOOSE p : Parses(s, 1, p)

(* Every value of it is a step of the parse.                                *)
LEMMA ParseIs ==
    ASSUME NEW s \in Seq(Byte)
    PROVE  \A k \in 1..Len(s) + 1 : ParseOf(s)[k] = ParseStep(s, ParseOf(s), k)
<1>1. Parses(s, 1, ParseOf(s))
  BY ParsesExists DEF ParseOf
<1> HIDE DEF ParseOf
<1> QED BY <1>1 DEF Parses

(* It finds a sequence of packets.                                           *)
LEMMA ParseType ==
    ASSUME NEW s \in Seq(Byte)
    PROVE  \A k \in 1..Len(s) + 1 : ParseOf(s)[k] \in Seq(Seq(Byte))
<1> DEFINE p == ParseOf(s)
           n == Len(s) + 1
           T == {m \in 0..Len(s) : p[n - m] \notin Seq(Seq(Byte))}
<1>0. n \in Nat /\ n >= 1 /\ n = Len(s) + 1
  BY LenProperties
<1>1. \A k \in 1..n : p[k] = ParseStep(s, p, k)
  BY ParseIs
<1> HIDE DEF n, p
<1>2. T = {}
  <2> SUFFICES ASSUME T # {} PROVE FALSE
    OBVIOUS
  <2>1. T \in SUBSET Nat
    BY <1>0
  <2>2. PICK x \in T : \A y \in T : x <= y
    <3> HIDE DEF T
    <3> QED BY <2>1, Smallest
  <2> DEFINE k == n - x
             rest == From(s, k)
             i == CHOOSE i \in 1..3 : BadHeaderAt(rest, i)
             size == PacketSize(rest)
  <2>3. x \in 0..Len(s) /\ p[k] \notin Seq(Seq(Byte))
    OBVIOUS
  <2>4. k \in 1..n /\ k \in 1..Len(s) + 1
    BY <1>0, <2>3
  <2>5. \A m \in k+1..n : p[m] \in Seq(Seq(Byte))
    <3> TAKE m \in k+1..n
    <3>1. n - m \in 0..Len(s) /\ ~(x <= n - m) /\ n - (n - m) = m
      BY <1>0, <2>3
    <3>2. n - m \notin T
      <4> HIDE DEF T
      <4> QED BY <2>2, <3>1
    <3> QED BY <3>1, <3>2
  <2>6. p[k] = IF BadHeader(rest) THEN p[k + i]
               ELSE IF HasPacket(rest) THEN <<SubSeq(rest, 1, size)>> \o p[k + size]
               ELSE <<>>
    BY <1>1, <2>4 DEF ParseStep
  <2>7. /\ rest \in Seq(Byte)
        /\ BadHeader(rest) => k + i \in k+1..n
        /\ HasPacket(rest) => k + size \in k+1..n
    BY <1>0, <2>4, ParseGoesOn
  <2>8. ASSUME HasPacket(rest) PROVE <<SubSeq(rest, 1, size)>> \in Seq(Seq(Byte))
    <3>1. size \in Nat /\ size <= Len(rest)
      BY <2>7, <2>8, PacketInBuffer
    <3>2. SubSeq(rest, 1, size) \in Seq(Byte)
      <4> HIDE DEF rest, size
      <4> QED BY <2>7, <3>1, CutAndJoin
    <3> HIDE DEF rest, size
    <3> QED BY <3>2
  <2>9. <<>> \in Seq(Seq(Byte))
    OBVIOUS
  <2> HIDE DEF rest, i, size, k
  <2>10. CASE BadHeader(rest)
    BY <2>3, <2>5, <2>6, <2>7, <2>10
  <2>11. CASE ~BadHeader(rest) /\ HasPacket(rest)
    BY <2>3, <2>5, <2>6, <2>7, <2>8, <2>11, ConcatProperties
  <2> QED BY <2>3, <2>6, <2>9, <2>10, <2>11
<1>3. \A k \in 1..n : n - k \in 0..Len(s) /\ n - (n - k) = k
  BY <1>0
<1> QED BY <1>0, <1>2, <1>3 DEF p

(* What the buffer starts with, the rest of the line starts with.            *)
LEMMA BufferStarts ==
    ASSUME NEW buf \in Seq(Byte), NEW more \in Seq(Byte)
    PROVE  LET rest == buf \o more IN
           /\ \A i \in 1..3 : BadHeaderAt(buf, i) => BadHeaderAt(rest, i)
           /\ HasPacket(buf) =>
                 /\ HasPacket(rest) /\ PacketSize(rest) = PacketSize(buf)
                 /\ SubSeq(rest, 1, PacketSize(rest)) = SubSeq(buf, 1, PacketSize(buf))
<1> DEFINE rest == buf \o more
<1>1. /\ rest \in Seq(Byte) /\ Len(rest) = Len(buf) + Len(more)
      /\ Len(buf) \in Nat /\ Len(more) \in Nat
      /\ \A i \in 1..Len(buf) : rest[i] = buf[i]
  <2>1. rest \in Seq(Byte) /\ Len(rest) = Len(buf) + Len(more)
    BY ConcatProperties
  <2>2. Len(buf) \in Nat /\ Len(more) \in Nat
    BY LenProperties
  <2>3. \A i \in 1..Len(rest) : rest[i] = IF i <= Len(buf) THEN buf[i] ELSE more[i - Len(buf)]
    BY ConcatProperties
  <2> HIDE DEF rest
  <2> QED BY <2>1, <2>2, <2>3
<1> HIDE DEF rest
<1>2. ASSUME NEW i \in 1..3, BadHeaderAt(buf, i) PROVE BadHeaderAt(rest, i)
  <2>1. i <= Len(buf) /\ i <= Len(rest) /\ \A j \in 1..i : j \in 1..Len(buf)
    BY <1>1, <1>2 DEF BadHeaderAt
  <2>2. i \in 1..i /\ \A j \in 1..i-1 : j \in 1..i
    OBVIOUS
  <2> QED BY <1>1, <1>2, <2>1, <2>2 DEF BadHeaderAt
<1>3. ASSUME HasPacket(buf)
      PROVE  /\ HasPacket(rest) /\ PacketSize(rest) = PacketSize(buf)
             /\ SubSeq(rest, 1, PacketSize(rest)) = SubSeq(buf, 1, PacketSize(buf))
  <2>1. /\ PacketSize(buf) \in Nat /\ PacketSize(buf) <= Len(buf)
        /\ Len(buf) >= 7 /\ PacketSize(buf) >= 7
    BY <1>3, PacketInBuffer DEF HasPacket
  <2>2. \A i \in 1..7 : i \in 1..Len(buf)
    BY <1>1, <2>1
  <2>3. PacketSize(rest) = PacketSize(buf)
    BY <1>1, <2>2 DEF PacketSize, getLength
  <2>4. ~BadHeader(rest)
    <3> SUFFICES ASSUME NEW i \in 1..3, BadHeaderAt(rest, i) PROVE FALSE
      BY DEF BadHeader
    <3>1. \A j \in 1..i : rest[j] = buf[j]
      BY <1>1, <2>2
    <3>2. i <= Len(buf) /\ i \in 1..i /\ \A j \in 1..i-1 : j \in 1..i
      BY <1>1, <2>1
    <3>3. BadHeaderAt(buf, i)
      BY <3>1, <3>2 DEF BadHeaderAt
    <3> QED BY <1>3, <3>3 DEF HasPacket, BadHeader
  <2>5. HasPacket(rest)
    BY <1>1, <2>1, <2>3, <2>4 DEF HasPacket
  <2> DEFINE n == PacketSize(buf)
             a == SubSeq(rest, 1, n)
             b == SubSeq(buf, 1, n)
  <2>6. /\ a \in Seq(Byte) /\ Len(a) = n /\ \A i \in 1..n : a[i] = rest[i]
        /\ b \in Seq(Byte) /\ Len(b) = n /\ \A i \in 1..n : b[i] = buf[i]
    <3>1. n \in Nat \ {0} /\ n <= Len(buf) /\ n <= Len(rest) /\ 1 \in Int /\ n \in Int
      BY <1>1, <2>1
    <3> HIDE DEF n
    <3>2. ASSUME NEW s \in Seq(Byte), n <= Len(s)
          PROVE  /\ SubSeq(s, 1, n) \in Seq(Byte) /\ Len(SubSeq(s, 1, n)) = n
                 /\ \A i \in 1..n : SubSeq(s, 1, n)[i] = s[i]
      <4>1. \A i \in 1..n : s[i] \in Byte
        <5>1. Len(s) \in Nat
          BY LenProperties
        <5> QED BY <3>1, <3>2, <5>1, ElementOfSeq
      <4> DEFINE c == SubSeq(s, 1, n)
      <4>2. /\ c \in Seq(Byte) /\ Len(c) = IF 1 <= n THEN n - 1 + 1 ELSE 0
            /\ \A i \in 1..n - 1 + 1 : c[i] = s[1 + i - 1]
        BY <3>1, <4>1, SubSeqProperties
      <4> HIDE DEF c
      <4>3. Len(c) = n /\ \A i \in 1..n : c[i] = s[i]
        BY <3>1, <4>2
      <4> QED BY <4>2, <4>3 DEF c
    <3> QED BY <1>1, <3>1, <3>2
  <2>7. \A i \in 1..n : i \in 1..Len(buf)
    BY <1>1, <2>1
  <2> HIDE DEF n, a, b
  <2>8. a = b
    BY <1>1, <2>6, <2>7, SeqEqual
  <2> QED BY <2>3, <2>5, <2>8 DEF a, b, n
<1> QED BY <1>2, <1>3 DEF rest

(* It is the one that WholeLine uses.                                        *)
LEMMA WholeLineIs == WholeLine = ParseOf(stream)[1]
BY DEF WholeLine, ParseOf, Parses, ParseStep
-----------------------------------------------------------------------------
(* What is still to be parsed starts at a byte from which the parse of the   *)
(* whole line finds what that parse finds in all and was not delivered yet.  *)
CutInv ==
    \E k \in 1..Len(stream) + 1 :
        /\ mParseBuffer \o line = From(stream, k)
        /\ delivered \o ParseOf(stream)[k] = ParseOf(stream)[1]

(* At the start the whole line is to be parsed.                              *)
LEMMA InitCut == Init => CutInv
<1> SUFFICES ASSUME Init PROVE CutInv
  OBVIOUS
<1>1. stream \in Seq(Byte) /\ Len(stream) \in Nat
  BY InitType, LenProperties DEF TypeOK
<1>2. mParseBuffer \o line = stream
  BY <1>1, ConcatEmptySeq DEF Init
<1>3. From(stream, 1) = stream
  BY <1>1, SubSeqFull DEF From
<1>4. 1 \in 1..Len(stream) + 1
  BY <1>1
<1>5. ParseOf(stream)[1] \in Seq(Seq(Byte))
  BY <1>1, <1>4, ParseType
<1>6. delivered \o ParseOf(stream)[1] = ParseOf(stream)[1]
  BY <1>5, ConcatEmptySeq DEF Init
<1> QED BY <1>2, <1>3, <1>4, <1>6 DEF CutInv

(* The parser erases what the parse of the whole line erases.                *)
LEMMA DropFollows ==
    ASSUME TypeOK, CutInv, DropHeader
    PROVE  CutInv'
<1>1. PICK k \in 1..Len(stream) + 1 :
          /\ mParseBuffer \o line = From(stream, k)
          /\ delivered \o ParseOf(stream)[k] = ParseOf(stream)[1]
  BY DEF CutInv
<1>2. PICK i \in 1..3 : BadHeaderAt(mParseBuffer, i) /\ mParseBuffer' = From(mParseBuffer, i + 1)
  BY DEF DropHeader
<1>3. i \in Nat /\ Taken(i)
  BY <1>2, LenProperties DEF TypeOK, BadHeaderAt, Taken
<1>4. UNCHANGED <<line, stream, delivered>>
  BY DEF DropHeader
<1>5. /\ k + i \in 1..Len(stream) + 1
      /\ mParseBuffer' \o line' = From(stream, k + i)
  BY <1>1, <1>3, <1>4, TakenMovesOn
<1> DEFINE rest == From(stream, k)
<1>6. BadHeaderAt(rest, i)
  BY <1>1, <1>2, BufferStarts DEF TypeOK
<1>7. stream \in Seq(Byte) /\ rest \in Seq(Byte)
  BY ParseGoesOn DEF TypeOK
<1>8. BadHeader(rest) /\ (CHOOSE j \in 1..3 : BadHeaderAt(rest, j)) = i
  <2> HIDE DEF rest
  <2> QED BY <1>6, <1>7, WrongByte
<1>9. ParseOf(stream)[k] = ParseOf(stream)[k + i]
  BY <1>7, <1>8, ParseIs DEF ParseStep
<1>10. /\ k + i \in 1..Len(stream') + 1
       /\ mParseBuffer' \o line' = From(stream', k + i)
       /\ delivered' \o ParseOf(stream')[k + i] = ParseOf(stream')[1]
  BY <1>1, <1>4, <1>5, <1>9
<1> QED BY <1>10 DEF CutInv

(* The packet it delivers is the next one of the parse of the whole line.    *)
LEMMA DeliverFollows ==
    ASSUME TypeOK, CutInv, Deliver
    PROVE  CutInv'
<1>1. PICK k \in 1..Len(stream) + 1 :
          /\ mParseBuffer \o line = From(stream, k)
          /\ delivered \o ParseOf(stream)[k] = ParseOf(stream)[1]
  BY DEF CutInv
<1> DEFINE n == PacketSize(mParseBuffer)
           pack == SubSeq(mParseBuffer, 1, n)
           rest == From(stream, k)
           p == ParseOf(stream)
<1>2. /\ mParseBuffer \in Seq(Byte) /\ line \in Seq(Byte) /\ stream \in Seq(Byte)
      /\ delivered \in Seq(Seq(Byte)) /\ HasPacket(mParseBuffer)
  BY DEF TypeOK, Deliver
<1>3. n \in Nat /\ n <= Len(mParseBuffer) /\ Taken(n)
  <2>1. n \in Nat /\ n <= Len(mParseBuffer)
    BY <1>2, PacketInBuffer
  <2>2. n \in 0..Len(mParseBuffer)
    BY <1>2, <2>1, LenProperties
  <2> QED BY <2>1, <2>2 DEF Deliver, Taken
<1>4. UNCHANGED <<line, stream>> /\ delivered' = Append(delivered, pack)
  BY DEF Deliver
<1>5. /\ k + n \in 1..Len(stream) + 1
      /\ mParseBuffer' \o line' = From(stream, k + n)
  BY <1>1, <1>3, <1>4, TakenMovesOn
<1>6. /\ HasPacket(rest) /\ PacketSize(rest) = n
      /\ SubSeq(rest, 1, PacketSize(rest)) = pack
  BY <1>1, <1>2, BufferStarts
<1>7. ~BadHeader(rest)
  BY <1>6 DEF HasPacket
<1>8. p[k] = <<pack>> \o p[k + n]
  <2>1. p[k] = ParseStep(stream, p, k)
    BY <1>2, ParseIs
  <2> QED BY <1>6, <1>7, <2>1 DEF ParseStep
<1>9. pack \in Seq(Byte) /\ p[k + n] \in Seq(Seq(Byte))
  <2>1. pack \in Seq(Byte)
    BY <1>2, <1>3, CutAndJoin
  <2>2. p[k + n] \in Seq(Seq(Byte))
    BY <1>2, <1>5, ParseType
  <2> QED BY <2>1, <2>2
<1> HIDE DEF pack, p
<1>10. delivered' \o p[k + n] = p[1]
  <2> DEFINE q == p[k + n]
             one == <<pack>>
  <2>1. one \in Seq(Seq(Byte))
    BY <1>9
  <2>2. Append(delivered, pack) = delivered \o one
    BY <1>2, <1>9, AppendIsConcat
  <2>3. q \in Seq(Seq(Byte))
    BY <1>9
  <2>4. delivered \o (one \o q) = p[1]
    BY <1>1, <1>8 DEF p
  <2> HIDE DEF one, q
  <2>5. (delivered \o one) \o q = delivered \o (one \o q)
    <3>1. delivered \in Seq(Seq(Byte))
      BY <1>2
    <3>2. PICK S : S = Seq(Byte)
      OBVIOUS
    <3>3. delivered \in Seq(S) /\ one \in Seq(S) /\ q \in Seq(S)
      BY <2>1, <2>3, <3>1, <3>2
    <3> QED BY <3>3, ConcatAssociative
  <2> QED BY <1>4, <2>2, <2>4, <2>5 DEF q
<1>11. /\ k + n \in 1..Len(stream') + 1
       /\ mParseBuffer' \o line' = From(stream', k + n)
       /\ delivered' \o ParseOf(stream')[k + n] = ParseOf(stream')[1]
  BY <1>4, <1>5, <1>10 DEF p
<1> QED BY <1>11 DEF CutInv

(* A step of the parser or a read keeps to the parse of the whole line.      *)
LEMMA NextCut == TypeOK /\ CutInv /\ [Next]_vars => CutInv'
<1> SUFFICES ASSUME TypeOK, CutInv, [Next]_vars PROVE CutInv'
  OBVIOUS
<1>1. ASSUME NEW n \in 1..MaxChunk, Read(n) PROVE CutInv'
  <2>1. mParseBuffer' \o line' = mParseBuffer \o line
    BY <1>1, ReadJoins
  <2>2. UNCHANGED <<stream, delivered>>
    BY <1>1 DEF Read
  <2> QED BY <2>1, <2>2 DEF CutInv
<1>2. CASE DropHeader
  BY <1>2, DropFollows
<1>3. CASE Wait
  <2>1. UNCHANGED <<line, stream, mParseBuffer, delivered>>
    BY <1>3 DEF Wait
  <2> QED BY <2>1 DEF CutInv
<1>4. CASE Deliver
  BY <1>4, DeliverFollows
<1>5. CASE UNCHANGED vars
  <2>1. UNCHANGED <<line, stream, mParseBuffer, delivered>>
    BY <1>5 DEF vars
  <2> QED BY <2>1 DEF CutInv
<1> QED BY <1>1, <1>2, <1>3, <1>4, <1>5 DEF Next, ParsePacket, Silence

(* What something can be joined to is a prefix of the whole.                 *)
LEMMA JoinedPrefix ==
    ASSUME NEW S, NEW s \in Seq(S), NEW t \in Seq(S)
    PROVE  IsPrefix(s, s \o t)
<1> DEFINE u == s \o t
           n == Len(s)
<1>1. /\ u \in Seq(S) /\ Len(u) = n + Len(t) /\ n \in Nat /\ Len(t) \in Nat
      /\ \A i \in 1..n : u[i] = s[i]
  <2>1. n \in Nat /\ Len(t) \in Nat
    BY LenProperties
  <2>2. u \in Seq(S) /\ Len(u) = n + Len(t)
    BY ConcatProperties
  <2>3. \A i \in 1..Len(u) : u[i] = IF i <= n THEN s[i] ELSE t[i - n]
    BY ConcatProperties
  <2>4. \A i \in 1..n : i \in 1..Len(u) /\ i <= n
    BY <2>1, <2>2
  <2> QED BY <2>1, <2>2, <2>3, <2>4
<1>2. SubSeq(s, 1, n) = s
  BY SubSeqFull
<1> HIDE DEF u
<1>3. SubSeq(u, 1, n) \in Seq(S) /\ Len(SubSeq(u, 1, n)) = n
      /\ \A i \in 1..n : SubSeq(u, 1, n)[i] = u[i]
  <2>1. \A i \in 1..n : u[i] \in S
    BY <1>1, ElementOfSeq
  <2> DEFINE c == SubSeq(u, 1, n)
  <2>2. 1 \in Int /\ n \in Int
    BY <1>1
  <2> HIDE DEF n
  <2>3. /\ c \in Seq(S) /\ Len(c) = IF 1 <= n THEN n - 1 + 1 ELSE 0
        /\ \A i \in 1..n - 1 + 1 : c[i] = u[1 + i - 1]
    BY <2>1, <2>2, SubSeqProperties
  <2> HIDE DEF c
  <2>4. Len(c) = n /\ \A i \in 1..n : c[i] = u[i]
    BY <1>1, <2>3
  <2> QED BY <2>3, <2>4 DEF c
<1>4. SubSeq(u, 1, n) = s
  <2> DEFINE c == SubSeq(u, 1, n)
  <2>1. c \in Seq(S) /\ Len(c) = Len(s) /\ \A i \in 1..Len(c) : c[i] = s[i]
    BY <1>1, <1>3
  <2> HIDE DEF c
  <2>2. c = s
    BY <2>1, SeqEqual
  <2> QED BY <2>2 DEF c
<1> QED BY <1>1, <1>2, <1>4 DEF IsPrefix, u

(* So what was delivered is what the parse of the whole line finds first.    *)
LEMMA CutMeans == TypeOK /\ CutInv => CutDoesNotMatter
<1> SUFFICES ASSUME TypeOK, CutInv PROVE CutDoesNotMatter
  OBVIOUS
<1>1. PICK k \in 1..Len(stream) + 1 :
          delivered \o ParseOf(stream)[k] = ParseOf(stream)[1]
  BY DEF CutInv
<1>2. delivered \in Seq(Seq(Byte)) /\ ParseOf(stream)[k] \in Seq(Seq(Byte))
  BY ParseType DEF TypeOK
<1>3. IsPrefix(delivered, delivered \o ParseOf(stream)[k])
  BY <1>2, JoinedPrefix
<1> QED BY <1>1, <1>3, WholeLineIs DEF CutDoesNotMatter

(* However the bytes of the line are cut into reads, and whatever they are,  *)
(* the packets given to processPacket are the first ones of a parse of the   *)
(* whole line (Service.cxx:374-466).                                         *)
THEOREM CutIsHidden == Spec => []CutDoesNotMatter
BY InitType, NextType, InitCut, NextCut, CutMeans, PTL DEF Spec
-----------------------------------------------------------------------------
(* The bytes of the first n pieces, and what comes behind them.              *)
FirstOnes(n) == FlattenSeq(SubSeq(Packets(sent), 1, n))
Behind(n) == From(stream, Len(FirstOnes(n)) + 1)

(* The line is one of the lines, whole.                                      *)
LineInv == sent \in Lines /\ stream = BytesOf(sent)

(* The packet that a piece is, or none.                                      *)
PacketAt(l, i) == IF l[i].packet THEN <<l[i].bytes>> ELSE <<>>

(* The first n pieces are the first n sequences of bytes, and those among    *)
(* them that are packets.                                                    *)
LEMMA FirstPieces ==
    ASSUME NEW l \in Lines, NEW n \in 0..Len(l)
    PROVE  /\ Packets(SubSeq(l, 1, n)) = SubSeq(Packets(l), 1, n)
           /\ PacketsOf(SubSeq(l, 1, n))
                 = FlattenSeq(SubSeq([i \in 1..Len(l) |-> PacketAt(l, i)], 1, n))
<1> DEFINE k == [i \in 1..Len(l) |-> PacketAt(l, i)]
           t == SubSeq(l, 1, n)
<1>1. /\ l \in Seq(Pieces) /\ Len(l) \in Nat /\ n \in Nat /\ n <= Len(l)
      /\ Packets(l) \in Seq(Seq(Byte)) /\ Len(Packets(l)) = Len(l)
      /\ DOMAIN l = 1..Len(l)
  BY LineType, LenProperties
<1>2. /\ t = [i \in 1..n |-> l[i]]
      /\ SubSeq(Packets(l), 1, n) = [i \in 1..n |-> Packets(l)[i]]
      /\ SubSeq(k, 1, n) = [i \in 1..n |-> k[i]]
  BY <1>1
<1>3. DOMAIN t = 1..n /\ \A i \in 1..n : t[i] = l[i] /\ i \in 1..Len(l)
  BY <1>1, <1>2
<1> HIDE DEF t
<1>4. Packets(t) = [i \in 1..n |-> Packets(l)[i]]
  BY <1>1, <1>3 DEF Packets
<1>5. [i \in DOMAIN t |-> IF t[i].packet THEN <<t[i].bytes>> ELSE <<>>]
        = [i \in 1..n |-> k[i]]
  BY <1>3 DEF PacketAt
<1> HIDE DEF k
<1> QED BY <1>2, <1>4, <1>5 DEF PacketsOf, t, k

(* Behind n pieces comes the next one, and behind it the rest.               *)
LEMMA NextPiece ==
    ASSUME LineInv, NEW n \in Nat, n < Len(sent)
    PROVE  LET e == sent[n + 1].bytes IN
           /\ e \in Seq(Byte) /\ IsPiece(sent[n + 1])
           /\ FirstOnes(n) \in Seq(Byte) /\ FirstOnes(n + 1) \in Seq(Byte)
           /\ Len(FirstOnes(n + 1)) = Len(FirstOnes(n)) + Len(e)
           /\ Len(FirstOnes(n + 1)) <= Len(stream)
           /\ Behind(n) = e \o Behind(n + 1)
<1> DEFINE s == Packets(sent)
           a == FirstOnes(n)
           t == FirstOnes(n + 1)
<1>1. /\ Len(sent) \in Nat /\ s \in Seq(Seq(Byte)) /\ Len(s) = Len(sent)
      /\ stream \in Seq(Byte) /\ stream = FlattenSeq(s)
      /\ DOMAIN sent = 1..Len(sent) /\ n + 1 \in 1..Len(sent)
      /\ IsPiece(sent[n + 1])
  BY LineType, LenProperties DEF LineInv, BytesOf
<1>2. s[n + 1] = sent[n + 1].bytes
  BY <1>1 DEF Packets
<1> DEFINE e == sent[n + 1].bytes
<1>3. a \in Seq(Byte) /\ e \in Seq(Byte) /\ t = a \o e
  <2> HIDE DEF s
  <2>1. n < Len(s)
    BY <1>1
  <2> QED BY <1>1, <1>2, <2>1, FlattenNext DEF FirstOnes, s
<1>4. IsPrefix(t, stream)
  <2>1. n + 1 \in 0..Len(s)
    BY <1>1
  <2> HIDE DEF s
  <2> QED BY <1>1, <2>1, FlattenStart DEF FirstOnes, s
<1>5. t \in Seq(Byte)
  BY <1>3, ConcatProperties
<1> HIDE DEF a, t, e, s
<1>6. ComesNext(stream, a, e, t)
  <2>1. a \in Seq(Byte) /\ e \in Seq(Byte) /\ stream \in Seq(Byte)
    BY <1>1, <1>3
  <2>2. t = a \o e
    BY <1>3
  <2> QED BY <1>4, <2>1, <2>2, RestOfStart
<1> QED BY <1>1, <1>3, <1>5, <1>6 DEF a, t, e, Behind, ComesNext

(* Behind all pieces nothing comes.                                          *)
LEMMA LastPiece ==
    ASSUME LineInv
    PROVE  Behind(Len(sent)) = <<>>
<1>1. /\ Packets(sent) \in Seq(Seq(Byte)) /\ Len(Packets(sent)) = Len(sent)
      /\ stream \in Seq(Byte) /\ stream = FlattenSeq(Packets(sent))
  BY LineType DEF LineInv, BytesOf
<1>2. SubSeq(Packets(sent), 1, Len(sent)) = Packets(sent)
  BY <1>1, SubSeqFull
<1>3. FirstOnes(Len(sent)) = stream
  BY <1>1, <1>2 DEF FirstOnes
<1>4. Len(stream) \in Nat /\ From(stream, Len(stream) + 1) = <<>>
  <2>1. Len(stream) \in Nat
    BY <1>1, LenProperties
  <2>2. Len(stream) + 1 \in Int /\ Len(stream) \in Int /\ Len(stream) < Len(stream) + 1
    BY <2>1
  <2> QED BY <2>1, <2>2, SubSeqEmpty DEF From
<1> QED BY <1>3, <1>4 DEF Behind

(* What comes behind n pieces are bytes, as many as are left.                *)
LEMMA BehindType ==
    ASSUME LineInv, NEW n \in Nat, n <= Len(sent)
    PROVE  /\ FirstOnes(n) \in Seq(Byte) /\ Len(FirstOnes(n)) <= Len(stream)
           /\ Behind(n) \in Seq(Byte)
           /\ Len(Behind(n)) = Len(stream) - Len(FirstOnes(n))
<1> DEFINE a == FirstOnes(n)
<1>1. /\ Packets(sent) \in Seq(Seq(Byte)) /\ Len(Packets(sent)) = Len(sent)
      /\ Len(sent) \in Nat /\ stream \in Seq(Byte) /\ stream = FlattenSeq(Packets(sent))
  BY LineType DEF LineInv, BytesOf
<1>2. a \in Seq(Byte) /\ IsPrefix(a, stream)
  <2>1. n \in 0..Len(Packets(sent))
    BY <1>1
  <2>2. SubSeq(Packets(sent), 1, n) \in Seq(Seq(Byte))
    BY <1>1, <2>1, CutAndJoin
  <2> QED BY <1>1, <2>1, <2>2, FlattenStart, FlattenType DEF FirstOnes
<1> HIDE DEF a
<1>3. Len(a) \in Nat /\ Len(stream) \in Nat /\ Len(a) <= Len(stream)
  BY <1>1, <1>2, LenProperties DEF IsPrefix
<1>4. Len(a) + 1 \in Nat \ {0} /\ Len(a) + 1 <= Len(stream) + 1
  BY <1>3
<1>5. /\ From(stream, Len(a) + 1) \in Seq(Byte)
      /\ Len(From(stream, Len(a) + 1)) = Len(stream) - (Len(a) + 1) + 1
  BY <1>1, <1>4, FromType
<1> QED BY <1>2, <1>3, <1>5 DEF a, Behind

(* Before the first piece comes everything.                                  *)
LEMMA FirstPiece ==
    ASSUME LineInv
    PROVE  /\ FirstOnes(0) = <<>> /\ Behind(0) = stream
           /\ PacketsOf(SubSeq(sent, 1, 0)) = <<>>
           /\ SubSeq(Packets(sent), 1, 0) = <<>>
<1>1. stream \in Seq(Byte)
  BY LineType DEF LineInv
<1>2. \A s : SubSeq(s, 1, 0) = <<>>
  BY SubSeqEmpty
<1>3. FlattenSeq(<<>>) = <<>>
  BY DEF FlattenSeq
<1>4. FirstOnes(0) = <<>> /\ SubSeq(Packets(sent), 1, 0) = <<>>
  BY <1>2, <1>3 DEF FirstOnes
<1>5. PacketsOf(SubSeq(sent, 1, 0)) = <<>>
  <2>1. Len(sent) \in Nat /\ 0 \in 0..Len(sent)
    BY LineType DEF LineInv
  <2> QED BY <1>2, <1>3, <2>1, FirstPieces DEF LineInv
<1>6. From(stream, 0 + 1) = stream
  BY <1>1, SubSeqFull DEF From
<1>7. Len(<<>>) = 0
  BY EmptySeq
<1> QED BY <1>4, <1>5, <1>6, <1>7 DEF Behind

(* A piece adds one packet or none.                                          *)
LEMMA PacketsType ==
    ASSUME LineInv
    PROVE  LET k == [i \in 1..Len(sent) |-> PacketAt(sent, i)]
           IN  k \in Seq(Seq(Seq(Byte))) /\ Len(k) = Len(sent)
<1> DEFINE k == [i \in 1..Len(sent) |-> PacketAt(sent, i)]
           W == Seq(Seq(Byte))
<1>1. Len(sent) \in Nat /\ \A i \in 1..Len(sent) : sent[i] \in Pieces
  BY LineType DEF LineInv
<1>2. \A i \in 1..Len(sent) : sent[i].bytes \in Seq(Byte)
  BY <1>1 DEF Pieces
<1>3. \A i \in 1..Len(sent) : PacketAt(sent, i) \in W
  BY <1>2 DEF PacketAt
<1>4. Len(sent) \in Nat
  BY <1>1
<1>5. k \in [1..Len(sent) -> W]
  BY <1>3
<1> HIDE DEF k, W
<1>6. k \in Seq(W) /\ Len(k) = Len(sent)
  BY <1>4, <1>5
<1> QED BY <1>6 DEF k, W

(* The packets among n + 1 pieces.                                           *)
LEMMA NextPacket ==
    ASSUME LineInv, NEW n \in Nat, n < Len(sent)
    PROVE  /\ PacketsOf(SubSeq(sent, 1, n)) \in Seq(Seq(Byte))
           /\ PacketsOf(SubSeq(sent, 1, n + 1))
                 = PacketsOf(SubSeq(sent, 1, n)) \o PacketAt(sent, n + 1)
           /\ SubSeq(Packets(sent), 1, n + 1)
                 = Append(SubSeq(Packets(sent), 1, n), sent[n + 1].bytes)
<1> DEFINE k == [i \in 1..Len(sent) |-> PacketAt(sent, i)]
           s == Packets(sent)
<1>1. /\ Len(sent) \in Nat /\ n \in 0..Len(sent) /\ n + 1 \in 0..Len(sent)
      /\ n + 1 \in 1..Len(sent) /\ DOMAIN sent = 1..Len(sent)
      /\ s \in Seq(Seq(Byte)) /\ Len(s) = Len(sent)
      /\ \A i \in 1..Len(sent) : sent[i] \in Pieces
  BY LineType, LenProperties DEF LineInv
<1>2. k \in Seq(Seq(Seq(Byte))) /\ Len(k) = Len(sent)
  BY PacketsType
<1>3. k[n + 1] = PacketAt(sent, n + 1) /\ s[n + 1] = sent[n + 1].bytes
  BY <1>1 DEF Packets
<1>4. /\ PacketsOf(SubSeq(sent, 1, n)) = FlattenSeq(SubSeq(k, 1, n))
      /\ PacketsOf(SubSeq(sent, 1, n + 1)) = FlattenSeq(SubSeq(k, 1, n + 1))
  BY <1>1, FirstPieces DEF LineInv
<1> HIDE DEF k, s
<1>5. /\ FlattenSeq(SubSeq(k, 1, n)) \in Seq(Seq(Byte))
      /\ FlattenSeq(SubSeq(k, 1, n + 1)) = FlattenSeq(SubSeq(k, 1, n)) \o k[n + 1]
  BY <1>1, <1>2, FlattenNext
<1>6. SubSeq(s, 1, n + 1) = Append(SubSeq(s, 1, n), s[n + 1])
  BY <1>1, NextOne
<1> QED BY <1>3, <1>4, <1>5, <1>6 DEF s
-----------------------------------------------------------------------------
(* Where the parser stands on a line whose noise holds no header byte: the   *)
(* first n pieces came, and of the last one, when it is noise, w still       *)
(* waits. On a clean line no such bytes wait.                                *)
AtPiece(n, w) ==
    /\ n \in 0..Len(sent) /\ w \in Seq(Byte)
    /\ mParseBuffer \o line = w \o Behind(n)
    /\ \A i \in 1..Len(w) : w[i] # Header[1]
    /\ delivered = PacketsOf(SubSeq(sent, 1, n))
    /\ Clean => w = <<>> /\ delivered = SubSeq(Packets(sent), 1, n)

(* The parser rests only where no packet is complete.                        *)
PieceInv ==
    /\ HarmlessNoise => \E n, w : AtPiece(n, w)
    /\ Clean /\ ~parsing => ~HasPacket(mParseBuffer)

(* What the parser meets next: noise, a packet or the end of the line.       *)
Meets(n, w) ==
    \/ w # <<>>
    \/ w = <<>> /\ n = Len(sent)
    \/ w = <<>> /\ n \in Nat /\ n < Len(sent) /\ sent[n + 1].packet

(* It always meets one of them.                                              *)
LEMMA MeetsOne ==
    ASSUME LineInv, HarmlessNoise, NEW n, NEW w, AtPiece(n, w)
    PROVE  \E m, v : AtPiece(m, v) /\ Meets(m, v)
<1>0. Len(sent) \in Nat /\ n \in Nat /\ n <= Len(sent) /\ DOMAIN sent = 1..Len(sent)
  BY LineType, LenProperties DEF LineInv, AtPiece
<1>1. n # Len(sent) => n < Len(sent)
  <2>1. \A i, j \in Nat : i <= j /\ i # j => i < j
    OBVIOUS
  <2> QED BY <1>0, <2>1, Zenon
<1>2. CASE Meets(n, w)
  BY <1>2
<1>3. CASE ~Meets(n, w)
  <2> DEFINE v == sent[n + 1].bytes
  <2>1. w = <<>> /\ n < Len(sent) /\ ~sent[n + 1].packet
    <3>1. w = <<>> /\ n # Len(sent)
      BY <1>3, Zenon DEF Meets
    <3>2. n < Len(sent)
      BY <1>1, <3>1, Zenon
    <3> QED BY <1>0, <1>3, <3>1, <3>2, Zenon DEF Meets
  <2>2. n + 1 \in 0..Len(sent) /\ n + 1 \in DOMAIN sent
    BY <1>0, <2>1
  <2>3. v \in Seq(Byte) /\ v # <<>> /\ Behind(n) = v \o Behind(n + 1)
    BY <1>0, <2>1, NextPiece DEF IsPiece
  <2>4. mParseBuffer \o line = v \o Behind(n + 1)
    <3>1. <<>> \o Behind(n) = Behind(n)
      <4>1. Behind(n) \in Seq(Byte)
        BY <1>0, <2>1, BehindType
      <4> QED BY <4>1, ConcatEmptySeq
    <3> QED BY <2>1, <2>3, <3>1 DEF AtPiece
  <2>5. \A i \in 1..Len(v) : v[i] # Header[1]
    <3>1. DOMAIN v = 1..Len(v)
      BY <2>3, LenProperties
    <3> QED BY <2>1, <2>2, <3>1 DEF HarmlessNoise
  <2>6. delivered = PacketsOf(SubSeq(sent, 1, n + 1))
    <3> DEFINE d == PacketsOf(SubSeq(sent, 1, n))
    <3>1. d \in Seq(Seq(Byte)) /\ PacketsOf(SubSeq(sent, 1, n + 1)) = d \o <<>>
      BY <1>0, <2>1, NextPacket DEF PacketAt
    <3>2. delivered = d
      BY DEF AtPiece
    <3> HIDE DEF d
    <3>3. d \o <<>> = d
      BY <3>1, ConcatEmptySeq
    <3> QED BY <3>1, <3>2, <3>3
  <2>7. ~Clean
    BY <2>1, <2>2 DEF Clean
  <2> HIDE DEF v
  <2>8. AtPiece(n + 1, v)
    BY <2>2, <2>3, <2>4, <2>5, <2>6, <2>7 DEF AtPiece
  <2> QED BY <2>3, <2>8 DEF Meets
<1> QED BY <1>2, <1>3

(* A buffer that agrees with a packet has no wrong header, and it holds the  *)
(* packet as soon as it has as many bytes.                                   *)
LEMMA SamePacket ==
    ASSUME NEW b \in Seq(Byte), NEW e \in Seq(Byte),
           HasPacket(e), PacketSize(e) = Len(e),
           \A i \in 1..Len(b) : i <= Len(e) => b[i] = e[i]
    PROVE  /\ ~BadHeader(b)
           /\ Len(b) >= Len(e) => HasPacket(b)
           /\ HasPacket(b) => /\ PacketSize(b) = Len(e) /\ Len(e) <= Len(b)
                              /\ SubSeq(b, 1, PacketSize(b)) = e
<1>1. Len(b) \in Nat /\ Len(e) \in Nat /\ Len(e) >= 7 /\ ~BadHeader(e)
  BY LenProperties DEF HasPacket
<1>2. ~BadHeader(b)
  <2> SUFFICES ASSUME NEW k \in 1..3, BadHeaderAt(b, k) PROVE FALSE
    BY DEF BadHeader
  <2>1. k <= Len(b) /\ \A i \in 1..k : i \in 1..Len(b) /\ i <= Len(e)
    BY <1>1 DEF BadHeaderAt
  <2>2. \A i \in 1..k : b[i] = e[i]
    BY <2>1
  <2>3. k <= Len(e) /\ e[k] # Header[k] /\ \A i \in 1..k-1 : e[i] = Header[i]
    <3>1. k \in 1..k /\ \A i \in 1..k-1 : i \in 1..k
      OBVIOUS
    <3> QED BY <2>1, <2>2, <3>1 DEF BadHeaderAt
  <2>4. BadHeaderAt(e, k)
    BY <2>3 DEF BadHeaderAt
  <2> QED BY <1>1, <2>4 DEF BadHeader
<1>3. Len(b) >= 7 => PacketSize(b) = Len(e)
  <2> SUFFICES ASSUME Len(b) >= 7 PROVE PacketSize(b) = Len(e)
    OBVIOUS
  <2>1. 6 \in 1..Len(b) /\ 7 \in 1..Len(b) /\ 6 <= Len(e) /\ 7 <= Len(e)
    BY <1>1
  <2>2. b[6] = e[6] /\ b[7] = e[7]
    BY <2>1
  <2> QED BY <2>2 DEF PacketSize, getLength
<1>4. Len(b) >= Len(e) => HasPacket(b)
  BY <1>1, <1>2, <1>3 DEF HasPacket
<1>5. ASSUME HasPacket(b)
      PROVE  PacketSize(b) = Len(e) /\ Len(e) <= Len(b) /\ SubSeq(b, 1, PacketSize(b)) = e
  <2>1. PacketSize(b) = Len(e) /\ Len(e) <= Len(b)
    BY <1>3, <1>5 DEF HasPacket
  <2> DEFINE c == SubSeq(b, 1, Len(e))
             n == Len(e)
  <2>2. c \in Seq(Byte) /\ Len(c) = n /\ \A i \in 1..n : c[i] = e[i]
    <3>1. \A i \in 1..n : b[i] = e[i] /\ b[i] \in Byte
      <4>1. \A i \in 1..n : i \in 1..Len(b) /\ i <= Len(e)
        BY <1>1, <2>1
      <4> QED BY <4>1, ElementOfSeq
    <3>2. 1 \in Int /\ n \in Int /\ n >= 7
      BY <1>1
    <3> HIDE DEF n
    <3>3. /\ SubSeq(b, 1, n) \in Seq(Byte)
          /\ Len(SubSeq(b, 1, n)) = IF 1 <= n THEN n - 1 + 1 ELSE 0
          /\ \A i \in 1..n - 1 + 1 : SubSeq(b, 1, n)[i] = b[1 + i - 1]
      BY <3>1, <3>2, SubSeqProperties
    <3>4. /\ SubSeq(b, 1, n) \in Seq(Byte) /\ Len(SubSeq(b, 1, n)) = n
          /\ \A i \in 1..n : SubSeq(b, 1, n)[i] = b[i]
      BY <3>2, <3>3
    <3> QED BY <3>1, <3>4 DEF n
  <2> HIDE DEF c
  <2>3. c = e
    BY <2>2, SeqEqual
  <2> QED BY <2>1, <2>3 DEF c
<1> QED BY <1>2, <1>4, <1>5

(* What the parser meets is in its buffer, as far as the buffer goes.        *)
LEMMA InBuffer ==
    ASSUME TypeOK, NEW v \in Seq(Byte), NEW r \in Seq(Byte),
           mParseBuffer \o line = v \o r
    PROVE  /\ Len(mParseBuffer) + Len(line) = Len(v) + Len(r)
           /\ \A i \in 1..Len(mParseBuffer) : i <= Len(v) => mParseBuffer[i] = v[i]
<1> DEFINE u == mParseBuffer \o line
<1>1. mParseBuffer \in Seq(Byte) /\ line \in Seq(Byte)
  BY DEF TypeOK
<1>2. /\ Len(u) = Len(mParseBuffer) + Len(line)
      /\ \A i \in 1..Len(mParseBuffer) + Len(line) :
             u[i] = IF i <= Len(mParseBuffer) THEN mParseBuffer[i]
                    ELSE line[i - Len(mParseBuffer)]
  BY <1>1, ConcatProperties
<1>3. /\ Len(v \o r) = Len(v) + Len(r)
      /\ \A i \in 1..Len(v) + Len(r) :
             (v \o r)[i] = IF i <= Len(v) THEN v[i] ELSE r[i - Len(v)]
  BY ConcatProperties
<1>4. u = v \o r
  OBVIOUS
<1> HIDE DEF u
<1>5. Len(mParseBuffer) \in Nat /\ Len(line) \in Nat /\ Len(v) \in Nat /\ Len(r) \in Nat
  BY <1>1, LenProperties
<1>6. Len(mParseBuffer) + Len(line) = Len(v) + Len(r)
  BY <1>2, <1>3, <1>4
<1>7. \A i \in 1..Len(mParseBuffer) :
         /\ i \in 1..Len(mParseBuffer) + Len(line) /\ i \in 1..Len(v) + Len(r)
         /\ i <= Len(mParseBuffer)
  BY <1>5, <1>6
<1> QED BY <1>2, <1>3, <1>4, <1>6, <1>7

(* A parse meets noise only by dropping its first byte.                      *)
LEMMA NoiseIsDropped ==
    ASSUME TypeOK, LineInv, NEW n, NEW w, AtPiece(n, w), w # <<>>
    PROVE  /\ ~HasPacket(mParseBuffer)
           /\ \A k \in 1..3 : BadHeaderAt(mParseBuffer, k) => k = 1
<1>1. /\ w \in Seq(Byte) /\ Behind(n) \in Seq(Byte) /\ mParseBuffer \in Seq(Byte)
      /\ mParseBuffer \o line = w \o Behind(n)
  <2>1. n \in Nat /\ n <= Len(sent)
    BY LineType DEF AtPiece, LineInv
  <2> QED BY <2>1, BehindType DEF AtPiece, TypeOK
<1>2. Len(w) \in Nat \ {0} /\ Len(mParseBuffer) \in Nat
  BY <1>1, EmptySeq, LenProperties
<1>3. \A i \in 1..Len(mParseBuffer) : i <= Len(w) => mParseBuffer[i] = w[i]
  BY <1>1, InBuffer
<1>4. Len(mParseBuffer) >= 1 => mParseBuffer[1] # Header[1]
  <2>1. Len(mParseBuffer) >= 1 => 1 \in 1..Len(mParseBuffer) /\ 1 <= Len(w) /\ 1 \in 1..Len(w)
    BY <1>2
  <2>2. \A i \in 1..Len(w) : w[i] # Header[1]
    BY DEF AtPiece
  <2> QED BY <1>3, <2>1, <2>2
<1>5. ~HasPacket(mParseBuffer)
  <2> SUFFICES ASSUME HasPacket(mParseBuffer) PROVE FALSE
    OBVIOUS
  <2>1. Len(mParseBuffer) >= 1 /\ 1 <= Len(mParseBuffer)
    BY <1>2 DEF HasPacket
  <2>2. 1 \in 1..3 /\ \A i \in 1..1-1 : mParseBuffer[i] = Header[i]
    OBVIOUS
  <2>3. BadHeaderAt(mParseBuffer, 1)
    BY <1>4, <2>1, <2>2 DEF BadHeaderAt
  <2> QED BY <2>2, <2>3 DEF HasPacket, BadHeader
<1>6. ASSUME NEW k \in 1..3, BadHeaderAt(mParseBuffer, k) PROVE k = 1
  <2> SUFFICES ASSUME k # 1 PROVE FALSE
    OBVIOUS
  <2>1. 1 \in 1..k-1 /\ Len(mParseBuffer) >= 1
    BY <1>2, <1>6 DEF BadHeaderAt
  <2>2. mParseBuffer[1] = Header[1]
    BY <1>6, <2>1 DEF BadHeaderAt
  <2> QED BY <1>4, <2>1, <2>2
<1> QED BY <1>5, <1>6

(* When it meets a packet no header is wrong, and the packet is given as     *)
(* soon as all its bytes came, whole and alone.                              *)
LEMMA PacketIsGiven ==
    ASSUME TypeOK, LineInv, NEW n, AtPiece(n, <<>>), n < Len(sent), sent[n + 1].packet
    PROVE  LET e == sent[n + 1].bytes IN
           /\ ~BadHeader(mParseBuffer)
           /\ Len(mParseBuffer) >= Len(e) => HasPacket(mParseBuffer)
           /\ HasPacket(mParseBuffer) =>
                 /\ PacketSize(mParseBuffer) = Len(e) /\ Len(e) <= Len(mParseBuffer)
                 /\ SubSeq(mParseBuffer, 1, PacketSize(mParseBuffer)) = e
           /\ mParseBuffer \o line = e \o Behind(n + 1)
<1> DEFINE e == sent[n + 1].bytes
<1>1. n \in Nat /\ n < Len(sent) /\ n <= Len(sent) /\ n + 1 <= Len(sent) /\ n + 1 \in Nat
  BY LineType DEF AtPiece, LineInv
<1>2. e \in Seq(Byte) /\ IsPiece(sent[n + 1]) /\ Behind(n) = e \o Behind(n + 1)
  BY <1>1, NextPiece
<1>3. Behind(n) \in Seq(Byte) /\ Behind(n + 1) \in Seq(Byte)
  BY <1>1, BehindType
<1>4. HasPacket(e) /\ PacketSize(e) = Len(e)
  BY <1>2 DEF IsPiece
<1> HIDE DEF e
<1>5. mParseBuffer \o line = e \o Behind(n + 1)
  <2>1. <<>> \o Behind(n) = Behind(n)
    BY <1>3, ConcatEmptySeq
  <2> QED BY <1>2, <2>1 DEF AtPiece
<1>6. \A i \in 1..Len(mParseBuffer) : i <= Len(e) => mParseBuffer[i] = e[i]
  BY <1>2, <1>3, <1>5, InBuffer
<1>7. mParseBuffer \in Seq(Byte)
  BY DEF TypeOK
<1>8. /\ ~BadHeader(mParseBuffer)
      /\ Len(mParseBuffer) >= Len(e) => HasPacket(mParseBuffer)
      /\ HasPacket(mParseBuffer) =>
            /\ PacketSize(mParseBuffer) = Len(e) /\ Len(e) <= Len(mParseBuffer)
            /\ SubSeq(mParseBuffer, 1, PacketSize(mParseBuffer)) = e
  BY <1>2, <1>4, <1>6, <1>7, SamePacket
<1> QED BY <1>5, <1>8 DEF e
-----------------------------------------------------------------------------
(* The line stays what it is.                                                *)
LEMMA LineStays == LineInv /\ [Next]_vars => LineInv' /\ UNCHANGED <<sent, stream>>
BY DEF LineInv, Next, Read, ParsePacket, DropHeader, Wait, Deliver, Silence, vars

(* Dropping a wrong header keeps the parser at its piece.                    *)
LEMMA DropAtPiece ==
    ASSUME TypeOK, LineInv, NEW n, NEW w, AtPiece(n, w), Meets(n, w), DropHeader
    PROVE  ~Clean /\ \E m, v : AtPiece(m, v)'
<1>1. PICK k \in 1..3 : BadHeaderAt(mParseBuffer, k) /\ mParseBuffer' = From(mParseBuffer, k + 1)
  BY DEF DropHeader
<1>2. BadHeader(mParseBuffer) /\ Len(mParseBuffer) \in Nat /\ 1 <= Len(mParseBuffer)
  BY <1>1, LenProperties DEF BadHeader, BadHeaderAt, TypeOK
<1>3. UNCHANGED <<sent, stream, line, delivered>>
  BY DEF DropHeader
<1>4. CASE w # <<>>
  <2>1. k = 1
    BY <1>1, <1>4, NoiseIsDropped
  <2>2. /\ w \in Seq(Byte) /\ Len(w) \in Nat \ {0}
        /\ mParseBuffer \in Seq(Byte) /\ line \in Seq(Byte)
    BY <1>4, EmptySeq DEF AtPiece, TypeOK
  <2>3. Behind(n) \in Seq(Byte) /\ mParseBuffer \o line = w \o Behind(n)
    <3>1. n \in Nat /\ n <= Len(sent)
      BY LineType DEF AtPiece, LineInv
    <3> QED BY <3>1, BehindType DEF AtPiece
  <2> DEFINE v == From(w, 2)
  <2>4. /\ v \in Seq(Byte) /\ Len(v) = Len(w) - 1
        /\ \A i \in 1..(Len(w) - 1) : v[i] = w[i + 1]
    <3>1. 2 \in Nat \ {0} /\ 2 <= Len(w) + 1 /\ Len(w) - 2 + 1 = Len(w) - 1
      BY <2>2
    <3>2. /\ v \in Seq(Byte) /\ Len(v) = Len(w) - 2 + 1
          /\ \A i \in 1..(Len(w) - 2 + 1) : v[i] = w[2 + i - 1]
      BY <2>2, <3>1, FromType
    <3>3. \A i \in 1..(Len(w) - 1) : 2 + i - 1 = i + 1
      BY <2>2
    <3> HIDE DEF v
    <3> QED BY <3>1, <3>2, <3>3
  <2>5. mParseBuffer' \o line' = v \o Behind(n)
    <3>1. From(mParseBuffer, 2) \o line = From(mParseBuffer \o line, 2)
      <4>1. 2 \in Nat \ {0} /\ 2 <= Len(mParseBuffer) + 1
        BY <1>2
      <4> QED BY <2>2, <4>1, FromConcat
    <3>2. From(w, 2) \o Behind(n) = From(w \o Behind(n), 2)
      <4>1. 2 \in Nat \ {0} /\ 2 <= Len(w) + 1
        BY <2>2
      <4> QED BY <2>2, <2>3, <4>1, FromConcat
    <3>3. mParseBuffer' = From(mParseBuffer, 2)
      BY <1>1, <2>1
    <3> QED BY <1>3, <2>3, <3>1, <3>2, <3>3
  <2>6. \A i \in 1..Len(v) : v[i] # Header[1]
    <3>1. \A i \in 1..(Len(w) - 1) : i + 1 \in 1..Len(w)
      BY <2>2
    <3>2. \A i \in 1..Len(w) : w[i] # Header[1]
      BY DEF AtPiece
    <3> HIDE DEF v
    <3> QED BY <2>4, <3>1, <3>2
  <2>7. ~Clean
    BY <1>4 DEF AtPiece
  <2> HIDE DEF v
  <2>8. AtPiece(n, v)'
    <3>1. Behind(n)' = Behind(n) /\ Clean' = Clean
      BY <1>3 DEF Behind, FirstOnes, Clean
    <3>2. n \in 0..Len(sent) /\ delivered = PacketsOf(SubSeq(sent, 1, n))
      BY DEF AtPiece
    <3>3. mParseBuffer' \o line' = v \o Behind(n)'
      BY <2>5, <3>1
    <3>4. ~Clean'
      BY <2>7, <3>1
    <3> QED BY <1>3, <2>4, <2>6, <3>2, <3>3, <3>4 DEF AtPiece
  <2> QED BY <2>7, <2>8
<1>5. CASE w = <<>> /\ n = Len(sent)
  <2>1. /\ Behind(n) = <<>> /\ <<>> \in Seq(Byte) /\ Len(<<>>) = 0
        /\ mParseBuffer \o line = <<>> \o <<>>
    BY <1>5, LastPiece, EmptySeq DEF AtPiece
  <2>2. Len(mParseBuffer) + Len(line) = Len(<<>>) + Len(<<>>)
    BY <2>1, InBuffer
  <2>3. Len(line) \in Nat
    BY LenProperties DEF TypeOK
  <2> QED BY <1>2, <2>1, <2>2, <2>3
<1>6. CASE w = <<>> /\ n \in Nat /\ n < Len(sent) /\ sent[n + 1].packet
  <2>1. AtPiece(n, <<>>)
    BY <1>6
  <2>2. ~BadHeader(mParseBuffer)
    BY <1>6, <2>1, PacketIsGiven
  <2> QED BY <1>2, <2>2
<1> QED BY <1>4, <1>5, <1>6 DEF Meets

(* Giving a packet takes the parser to the next piece.                       *)
LEMMA DeliverAtPiece ==
    ASSUME TypeOK, LineInv, NEW n, NEW w, AtPiece(n, w), Meets(n, w), Deliver
    PROVE  \E m, v : AtPiece(m, v)'
<1>1. /\ HasPacket(mParseBuffer) /\ UNCHANGED <<sent, stream, line>>
      /\ delivered' = Append(delivered, SubSeq(mParseBuffer, 1, PacketSize(mParseBuffer)))
      /\ mParseBuffer' = From(mParseBuffer, PacketSize(mParseBuffer) + 1)
  BY DEF Deliver
<1>2. w = <<>>
  BY <1>1, NoiseIsDropped
<1>3. n # Len(sent)
  <2> SUFFICES ASSUME n = Len(sent) PROVE FALSE
    OBVIOUS
  <2>1. /\ Behind(n) = <<>> /\ <<>> \in Seq(Byte) /\ Len(<<>>) = 0
        /\ mParseBuffer \o line = <<>> \o <<>>
    BY <1>2, LastPiece, EmptySeq DEF AtPiece
  <2>2. Len(mParseBuffer) + Len(line) = Len(<<>>) + Len(<<>>)
    BY <2>1, InBuffer
  <2>3. Len(line) \in Nat /\ Len(mParseBuffer) \in Nat /\ Len(mParseBuffer) >= 7
    BY <1>1, LenProperties DEF TypeOK, HasPacket
  <2> QED BY <2>1, <2>2, <2>3
<1>4. n \in Nat /\ n < Len(sent) /\ sent[n + 1].packet
  BY <1>2, <1>3, Zenon DEF Meets
<1> DEFINE e == sent[n + 1].bytes
           size == PacketSize(mParseBuffer)
<1>5. /\ size = Len(e) /\ Len(e) <= Len(mParseBuffer)
      /\ SubSeq(mParseBuffer, 1, size) = e
      /\ mParseBuffer \o line = e \o Behind(n + 1)
  <2>1. AtPiece(n, <<>>)
    BY <1>2
  <2> QED BY <1>1, <1>4, <2>1, PacketIsGiven
<1>6. e \in Seq(Byte) /\ Len(e) \in Nat
  BY <1>4, NextPiece, LenProperties
<1>7. mParseBuffer' \o line' = <<>> \o Behind(n + 1)
  <2>1. Behind(n + 1) \in Seq(Byte)
    <3>1. n + 1 \in Nat /\ n + 1 <= Len(sent)
      BY <1>4, LineType DEF LineInv
    <3> QED BY <3>1, BehindType
  <2>2. mParseBuffer \in Seq(Byte) /\ line \in Seq(Byte)
    BY DEF TypeOK
  <2>3. Len(e) + 1 \in Nat \ {0} /\ Len(e) + 1 <= Len(mParseBuffer) + 1 /\ Len(e) + 1 <= Len(e) + 1
    BY <1>5, <1>6, <2>2, LenProperties
  <2> HIDE DEF e
  <2>4. From(mParseBuffer, Len(e) + 1) \o line = From(mParseBuffer \o line, Len(e) + 1)
    BY <2>2, <2>3, FromConcat
  <2>5. From(e, Len(e) + 1) \o Behind(n + 1) = From(e \o Behind(n + 1), Len(e) + 1)
    BY <1>6, <2>1, <2>3, FromConcat
  <2>6. From(e, Len(e) + 1) = <<>>
    <3>1. Len(e) + 1 \in Int /\ Len(e) \in Int /\ Len(e) < Len(e) + 1
      BY <1>6
    <3> QED BY <3>1, SubSeqEmpty DEF From
  <2> QED BY <1>1, <1>5, <2>4, <2>5, <2>6
<1>8. delivered' = PacketsOf(SubSeq(sent, 1, n + 1))
  <2>1. delivered = PacketsOf(SubSeq(sent, 1, n)) /\ delivered \in Seq(Seq(Byte))
    BY DEF AtPiece, TypeOK
  <2>2. PacketsOf(SubSeq(sent, 1, n + 1)) = delivered \o <<e>>
    BY <1>4, <2>1, NextPacket DEF PacketAt
  <2> HIDE DEF e
  <2>3. delivered' = Append(delivered, e)
    BY <1>1, <1>5
  <2>4. Append(delivered, e) = delivered \o <<e>>
    BY <1>6, <2>1, AppendIsConcat
  <2> QED BY <2>2, <2>3, <2>4
<1>9. Clean => delivered' = SubSeq(Packets(sent), 1, n + 1)
  BY <1>1, <1>4, <1>5, NextPacket DEF AtPiece
<1>10. AtPiece(n + 1, <<>>)'
  <2>1. Behind(n + 1)' = Behind(n + 1) /\ Clean' = Clean
    BY <1>1 DEF Behind, FirstOnes, Clean
  <2>2. n + 1 \in 0..Len(sent)
    BY <1>4, LineType DEF LineInv
  <2>3. <<>> \in Seq(Byte) /\ \A i \in 1..Len(<<>>) : <<>>[i] # Header[1]
    BY EmptySeq
  <2> QED BY <1>1, <1>7, <1>8, <1>9, <2>1, <2>2, <2>3 DEF AtPiece
<1> QED BY <1>10

(* At the start the parser stands in front of the first piece.               *)
LEMMA InitPiece == Init => LineInv /\ PieceInv
<1> SUFFICES ASSUME Init PROVE LineInv /\ PieceInv
  OBVIOUS
<1>1. LineInv
  BY DEF Init, LineInv
<1>2. stream \in Seq(Byte)
  BY InitType DEF TypeOK
<1>3. mParseBuffer \o line = <<>> \o Behind(0)
  BY <1>1, FirstPiece DEF Init
<1>4. AtPiece(0, <<>>)
  <2>1. 0 \in 0..Len(sent)
    BY <1>1, LineType DEF LineInv
  <2>2. <<>> \in Seq(Byte) /\ \A i \in 1..Len(<<>>) : <<>>[i] # Header[1]
    BY EmptySeq
  <2>3. delivered = <<>>
    BY DEF Init
  <2> QED BY <1>1, <1>3, <2>1, <2>2, <2>3, FirstPiece DEF AtPiece
<1>5. ~HasPacket(mParseBuffer)
  <2>1. mParseBuffer = <<>> /\ Len(<<>>) = 0
    BY EmptySeq DEF Init
  <2> QED BY <2>1 DEF HasPacket
<1> QED BY <1>1, <1>4, <1>5 DEF PieceInv

(* A clean line has no noise.                                                *)
LEMMA CleanIsHarmless == Clean => HarmlessNoise
BY DEF Clean, HarmlessNoise

(* Every step keeps the parser at a piece.                                   *)
LEMMA NextPieceInv ==
    TypeOK /\ LineInv /\ PieceInv /\ [Next]_vars => LineInv' /\ PieceInv'
<1> SUFFICES ASSUME TypeOK, LineInv, PieceInv, [Next]_vars PROVE LineInv' /\ PieceInv'
  OBVIOUS
<1>1. LineInv' /\ UNCHANGED <<sent, stream>>
  BY LineStays
<1> SUFFICES PieceInv'
  BY <1>1
<1>2. HarmlessNoise' = HarmlessNoise /\ Clean' = Clean
  BY <1>1 DEF HarmlessNoise, Clean
<1>3. ASSUME UNCHANGED <<sent, stream, delivered>>, mParseBuffer' \o line' = mParseBuffer \o line
      PROVE  (HarmlessNoise => \E n, w : AtPiece(n, w))'
  <2> SUFFICES ASSUME HarmlessNoise PROVE \E n, w : AtPiece(n, w)'
    BY <1>2
  <2>1. PICK n, w : AtPiece(n, w)
    BY DEF PieceInv
  <2>2. Behind(n)' = Behind(n)
    BY <1>1 DEF Behind, FirstOnes
  <2>3. AtPiece(n, w)'
    BY <1>1, <1>2, <1>3, <2>1, <2>2 DEF AtPiece
  <2> QED BY <2>3
<1>4. ASSUME NEW n \in 1..MaxChunk, Read(n) PROVE PieceInv'
  <2>1. mParseBuffer' \o line' = mParseBuffer \o line
    BY <1>4, ReadJoins
  <2>2. UNCHANGED <<sent, stream, delivered>> /\ parsing'
    BY <1>4 DEF Read
  <2> QED BY <1>3, <2>1, <2>2 DEF PieceInv
<1>5. CASE DropHeader
  <2>1. ASSUME HarmlessNoise PROVE ~Clean /\ \E n, w : AtPiece(n, w)'
    <3>1. PICK m, v : AtPiece(m, v)
      BY <2>1 DEF PieceInv
    <3>2. PICK n, w : AtPiece(n, w) /\ Meets(n, w)
      BY <2>1, <3>1, MeetsOne
    <3> QED BY <1>5, <3>2, DropAtPiece
  <2> QED BY <1>2, <2>1, CleanIsHarmless DEF PieceInv
<1>6. CASE Wait
  <2>1. UNCHANGED <<sent, stream, line, mParseBuffer, delivered>> /\ ~HasPacket(mParseBuffer)
    BY <1>6 DEF Wait
  <2>2. ~HasPacket(mParseBuffer')
    BY <2>1
  <2> QED BY <1>3, <2>1, <2>2 DEF PieceInv
<1>7. CASE Deliver
  <2>1. ASSUME HarmlessNoise PROVE \E n, w : AtPiece(n, w)'
    <3>1. PICK m, v : AtPiece(m, v)
      BY <2>1 DEF PieceInv
    <3>2. PICK n, w : AtPiece(n, w) /\ Meets(n, w)
      BY <2>1, <3>1, MeetsOne
    <3> QED BY <1>7, <3>2, DeliverAtPiece
  <2>2. parsing'
    BY <1>7 DEF Deliver
  <2> QED BY <1>2, <2>1, <2>2 DEF PieceInv
<1>8. CASE UNCHANGED vars
  <2>1. UNCHANGED <<sent, stream, line, mParseBuffer, parsing, delivered>>
    BY <1>8 DEF vars
  <2>2. HasPacket(mParseBuffer)' = HasPacket(mParseBuffer)
    BY <2>1
  <2> QED BY <1>2, <1>3, <2>1, <2>2 DEF PieceInv
<1> QED BY <1>1, <1>4, <1>5, <1>6, <1>7, <1>8 DEF Next, ParsePacket, Silence

(* What is delivered starts the packets that were sent.                      *)
LEMMA PieceMeansOrder == LineInv /\ PieceInv => NoiseOnlyDelays
<1> SUFFICES ASSUME LineInv, PieceInv, HarmlessNoise PROVE IsPrefix(delivered, PacketsOf(sent))
  BY DEF NoiseOnlyDelays
<1>1. PICK n, w : AtPiece(n, w)
  BY DEF PieceInv
<1>2. /\ sent \in Seq(Pieces) /\ Len(sent) \in Nat /\ n \in 0..Len(sent)
      /\ delivered = PacketsOf(SubSeq(sent, 1, n))
  BY <1>1, LineType DEF AtPiece, LineInv
<1> DEFINE k == [i \in 1..Len(sent) |-> PacketAt(sent, i)]
<1>3. k \in Seq(Seq(Seq(Byte))) /\ Len(k) = Len(sent)
  BY PacketsType
<1>4. /\ PacketsOf(SubSeq(sent, 1, n)) = FlattenSeq(SubSeq(k, 1, n))
      /\ PacketsOf(SubSeq(sent, 1, Len(sent))) = FlattenSeq(SubSeq(k, 1, Len(sent)))
  <2>1. Len(sent) \in 0..Len(sent)
    BY <1>2
  <2> QED BY <1>2, <2>1, FirstPieces DEF LineInv
<1> HIDE DEF k
<1>5. SubSeq(sent, 1, Len(sent)) = sent /\ SubSeq(k, 1, Len(sent)) = k
  BY <1>2, <1>3, SubSeqFull
<1>6. IsPrefix(FlattenSeq(SubSeq(k, 1, n)), FlattenSeq(k))
  BY <1>2, <1>3, FlattenStart
<1> QED BY <1>2, <1>4, <1>5, <1>6

(* On a clean line the parser rests only with less than a packet in hand.    *)
LEMMA PieceMeansPrompt == TypeOK /\ LineInv /\ PieceInv => PromptWhenClean
<1> SUFFICES ASSUME TypeOK, LineInv, PieceInv, Clean, ~parsing
             PROVE  /\ delivered = SubSeq(Packets(sent), 1, Len(delivered))
                    /\ \A m \in 0..Len(sent) :
                          Len(BytesOf(SubSeq(sent, 1, m))) <= Len(stream) - Len(line)
                          => m <= Len(delivered)
  BY DEF PromptWhenClean
<1> DEFINE s == Packets(sent)
<1>1. PICK n, w : AtPiece(n, w)
  BY CleanIsHarmless DEF PieceInv
<1>2. /\ n \in 0..Len(sent) /\ AtPiece(n, <<>>)
      /\ delivered = SubSeq(s, 1, n)
  BY <1>1 DEF AtPiece
<1>3. /\ Len(sent) \in Nat /\ n \in Nat /\ n <= Len(sent) /\ DOMAIN sent = 1..Len(sent)
      /\ s \in Seq(Seq(Byte)) /\ Len(s) = Len(sent)
  BY <1>2, LineType, LenProperties DEF LineInv
<1> HIDE DEF s
<1>4. Len(delivered) = n
  <2> DEFINE W == Seq(Byte)
  <2>1. s \in Seq(W) /\ n \in Nat /\ n <= Len(s)
    BY <1>3
  <2> HIDE DEF W
  <2>2. Len(SubSeq(s, 1, n)) = n
    BY <2>1, FirstLen
  <2> QED BY <1>2, <2>2
<1>5. ASSUME NEW m \in 0..Len(sent),
             Len(BytesOf(SubSeq(sent, 1, m))) <= Len(stream) - Len(line),
             ~(m <= n)
      PROVE  FALSE
  <2> DEFINE a == FirstOnes(n + 1)
             z == FirstOnes(m)
             e == sent[n + 1].bytes
  <2>1. /\ m \in Nat /\ m <= Len(sent) /\ n + 1 \in 0..m /\ n < Len(sent)
        /\ n + 1 \in Nat /\ n + 1 <= Len(sent) /\ n + 1 \in DOMAIN sent
    BY <1>3, <1>5
  <2>2. sent[n + 1].packet
    BY <2>1 DEF Clean
  <2>3. /\ Len(mParseBuffer) >= Len(e) => HasPacket(mParseBuffer)
        /\ mParseBuffer \o line = e \o Behind(n + 1)
    BY <1>2, <2>1, <2>2, PacketIsGiven
  <2>4. /\ e \in Seq(Byte) /\ Behind(n + 1) \in Seq(Byte) /\ a \in Seq(Byte)
        /\ Len(Behind(n + 1)) = Len(stream) - Len(a)
    BY <1>3, <2>1, NextPiece, BehindType
  <2>5. Len(z) <= Len(stream) - Len(line)
    <3>1. BytesOf(SubSeq(sent, 1, m)) = z
      BY FirstPieces DEF BytesOf, FirstOnes, LineInv
    <3> QED BY <1>5, <3>1
  <2>6. Len(a) <= Len(z)
    <3> DEFINE t == SubSeq(s, 1, m)
    <3>1. m \in Nat /\ m <= Len(s)
      BY <1>3, <2>1
    <3>2. t \in Seq(Seq(Byte)) /\ Len(t) = m
      BY <1>3, <3>1, CutAndJoin, FirstLen
    <3>3. SubSeq(t, 1, n + 1) = SubSeq(s, 1, n + 1)
      BY <1>3, <2>1, <3>1, FirstOfFirst
    <3> HIDE DEF t
    <3>4. IsPrefix(FlattenSeq(SubSeq(t, 1, n + 1)), FlattenSeq(t))
      BY <2>1, <3>2, FlattenStart
    <3>5. z = FlattenSeq(t) /\ a = FlattenSeq(SubSeq(s, 1, n + 1))
      BY DEF FirstOnes, s, t
    <3> QED BY <3>3, <3>4, <3>5 DEF IsPrefix
  <2> HIDE DEF a, z, e
  <2>7. Len(mParseBuffer) + Len(line) = Len(e) + Len(Behind(n + 1))
    BY <2>3, <2>4, InBuffer
  <2>8. /\ Len(mParseBuffer) \in Nat /\ Len(line) \in Nat /\ Len(stream) \in Nat
        /\ Len(e) \in Nat /\ Len(a) \in Nat
    BY <2>4, LenProperties DEF TypeOK
  <2>9. Len(z) \in Nat
    BY <2>1, BehindType, LenProperties DEF z
  <2>10. Len(mParseBuffer) >= Len(e)
    BY <2>4, <2>5, <2>6, <2>7, <2>8, <2>9
  <2> QED BY <2>3, <2>10 DEF PieceInv
<1> QED BY <1>2, <1>4, <1>5 DEF s

(* On a clean line every packet is given to processPacket in the read that   *)
(* brings its last byte (Service.cxx:455-466), whatever its parameters hold. *)
THEOREM CleanIsPrompt == Spec => []PromptWhenClean
<1>1. Init => TypeOK /\ LineInv /\ PieceInv
  BY InitType, InitPiece
<1>2. (TypeOK /\ LineInv /\ PieceInv) /\ [Next]_vars => (TypeOK /\ LineInv /\ PieceInv)'
  BY NextType, NextPieceInv
<1> QED BY <1>1, <1>2, PieceMeansPrompt, PTL DEF Spec

(* Noise that holds no header byte takes no packet and makes none up         *)
(* (Service.cxx:409-436), whatever it is and however the line is cut.        *)
THEOREM NoiseTakesNoPacket == Spec => []NoiseOnlyDelays
<1>1. Init => TypeOK /\ LineInv /\ PieceInv
  BY InitType, InitPiece
<1>2. (TypeOK /\ LineInv /\ PieceInv) /\ [Next]_vars => (TypeOK /\ LineInv /\ PieceInv)'
  BY NextType, NextPieceInv
<1> QED BY <1>1, <1>2, PieceMeansOrder, PTL DEF Spec
=============================================================================
