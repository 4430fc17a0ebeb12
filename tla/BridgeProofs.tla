---------------------------- MODULE BridgeProofs ----------------------------
(***************************************************************************)
(* Theorems about Bridge: the types, and that the bytes of each direction  *)
(* arrive as they came, for buffers of any size.                           *)
(***************************************************************************)
EXTENDS Bridge, SuffixLemmas

(* The first elements of a sequence.                                         *)
LEMMA FrontIs ==
    ASSUME NEW S, NEW s \in Seq(S), NEW n \in Nat, n <= Len(s)
    PROVE  SubSeq(s, 1, n) = [i \in 1..n |-> s[i]]
<1> DEFINE t == SubSeq(s, 1, n)
<1>1. Len(s) \in Nat /\ \A i \in 1..Len(s) : s[i] \in S
  BY LenProperties, ElementOfSeq
<1>2. 1 \in Int /\ n \in Int /\ \A i \in 1..n : s[i] \in S
  BY <1>1
<1>3. /\ t \in Seq(S)
      /\ Len(t) = IF 1 <= n THEN n - 1 + 1 ELSE 0
      /\ \A i \in 1..(n - 1 + 1) : t[i] = s[1 + i - 1]
  BY <1>2, SubSeqProperties
<1> HIDE DEF t
<1>4. Len(t) = n /\ \A i \in 1..n : t[i] = s[i]
  BY <1>3
<1>5. t = [i \in 1..Len(t) |-> t[i]]
  BY <1>3, LenProperties
<1>6. t = [i \in 1..n |-> s[i]]
  BY <1>4, <1>5
<1> QED BY <1>6 DEF t

(* What loop has read of a port is the first part of it, and what it has not *)
(* read stays.                                                               *)
LEMMA ReadsFront ==
    ASSUME ReadBufferAssumption, TypeOK, NEW in \in Seq(Bytes), ReadBytes(in)
    PROVE  /\ readSize' \in 0..READ_BUFFER_SIZE /\ readSize' <= Len(in)
           /\ ReadBuffer' \in [1..READ_BUFFER_SIZE -> Bytes]
           /\ Held' \in Seq(Bytes)
           /\ SubSeq(in, readSize' + 1, Len(in)) \in Seq(Bytes)
           /\ Held' \o SubSeq(in, readSize' + 1, Len(in)) = in
<1>1. Len(in) \in Nat /\ \A i \in 1..Len(in) : in[i] \in Bytes
  BY LenProperties, ElementOfSeq
<1>2. readSize' \in 0..READ_BUFFER_SIZE /\ readSize' <= Len(in)
  BY <1>1 DEF ReadBufferAssumption, ReadBytes, ReadSize
<1>3. ReadBuffer' \in [1..READ_BUFFER_SIZE -> Bytes]
  <2>1. \A i \in 1..READ_BUFFER_SIZE : i <= readSize' => i \in 1..Len(in)
    BY <1>1, <1>2 DEF ReadBufferAssumption
  <2> QED BY <1>1, <2>1 DEF ReadBytes, TypeOK
<1>4. \A i \in 1..readSize' : ReadBuffer'[i] = in[i]
  BY <1>2 DEF ReadBufferAssumption, ReadBytes
<1>5. Held' = SubSeq(in, 1, readSize')
  <2>1. readSize' \in Nat /\ readSize' <= Len(in)
    BY <1>2
  <2>2. SubSeq(in, 1, readSize') = [i \in 1..readSize' |-> in[i]]
    BY <2>1, FrontIs
  <2> QED BY <1>4, <2>2 DEF Held
<1>6. readSize' \in Nat
  BY <1>2
<1>7. /\ SubSeq(in, 1, readSize') \in Seq(Bytes)
      /\ SubSeq(in, 1, readSize') \o From(in, readSize' + 1) = in
  BY <1>2, <1>6, CutAndJoin
<1>8. From(in, readSize' + 1) \in Seq(Bytes)
  BY <1>1, <1>2, <1>6, FromType
<1> QED BY <1>2, <1>3, <1>5, <1>7, <1>8 DEF From

-----------------------------------------------------------------------------
(* Every step keeps the types of the bridge.                                 *)
LEMMA NextBridgeType ==
    ReadBufferAssumption /\ TypeOK /\ [Next]_vars => TypeOK'
<1> SUFFICES ASSUME ReadBufferAssumption, TypeOK, [Next]_vars PROVE TypeOK'
  OBVIOUS
<1>0. /\ pcIn \in Seq(Bytes) /\ xlIn \in Seq(Bytes) /\ pcOut \in Seq(Bytes)
      /\ xlOut \in Seq(Bytes) /\ pcAll \in Seq(Bytes) /\ xlAll \in Seq(Bytes)
      /\ readSize \in Nat /\ readSize <= READ_BUFFER_SIZE
  BY DEF ReadBufferAssumption, TypeOK
<1>1. ASSUME NEW data \in Seq(Bytes), PcReceives(data) PROVE TypeOK'
  <2>1. pcIn' \in Seq(Bytes) /\ pcAll' \in Seq(Bytes)
    BY <1>0, <1>1, ConcatProperties DEF PcReceives
  <2> QED BY <1>1, <2>1 DEF PcReceives, TypeOK
<1>2. ASSUME NEW data \in Seq(Bytes), XlReceives(data) PROVE TypeOK'
  <2>1. xlIn' \in Seq(Bytes) /\ xlAll' \in Seq(Bytes)
    BY <1>0, <1>2, ConcatProperties DEF XlReceives
  <2> QED BY <1>2, <2>1 DEF XlReceives, TypeOK
<1>3. CASE ReadPc
  BY <1>0, <1>3, ReadsFront DEF ReadPc, TypeOK
<1>4. CASE ReadXl
  BY <1>0, <1>4, ReadsFront DEF ReadXl, TypeOK
<1>5. Held \in Seq(Bytes)
  <2>1. \A i \in 1..readSize : ReadBuffer[i] \in Bytes
    BY <1>0 DEF ReadBufferAssumption, TypeOK
  <2> QED BY <1>0, <2>1, IsASeq DEF Held
<1>6. CASE WriteXl
  <2>1. xlOut' \in Seq(Bytes)
    BY <1>0, <1>5, <1>6, ConcatProperties DEF WriteXl
  <2> QED BY <1>6, <2>1 DEF WriteXl, TypeOK
<1>7. CASE WritePc
  <2>1. pcOut' \in Seq(Bytes)
    BY <1>0, <1>5, <1>7, ConcatProperties DEF WritePc
  <2> QED BY <1>7, <2>1 DEF WritePc, TypeOK
<1>8. CASE SkipPc \/ SkipXl \/ UNCHANGED vars
  BY <1>8 DEF SkipPc, SkipXl, vars, TypeOK
<1> QED BY <1>1, <1>2, <1>3, <1>4, <1>6, <1>7, <1>8 DEF Next, Loop

(* Three parts of a line, joined in either way.                              *)
LEMMA Joined ==
    ASSUME NEW a \in Seq(Bytes), NEW b \in Seq(Bytes), NEW c \in Seq(Bytes)
    PROVE  /\ (a \o b) \o c = a \o (b \o c)
           /\ a \o <<>> = a /\ <<>> \o a = a
           /\ a \o b \in Seq(Bytes)
BY ConcatAssociative, ConcatEmptySeq, ConcatProperties

(* What the bridge holds is a sequence of bytes.                             *)
LEMMA HeldIsSeq == ReadBufferAssumption /\ TypeOK => Held \in Seq(Bytes)
<1> SUFFICES ASSUME ReadBufferAssumption, TypeOK PROVE Held \in Seq(Bytes)
  OBVIOUS
<1>1. readSize \in Nat /\ \A i \in 1..readSize : ReadBuffer[i] \in Bytes
  BY DEF ReadBufferAssumption, TypeOK
<1> QED BY <1>1, IsASeq DEF Held

(* No step loses, doubles, reorders or turns back a byte.                    *)
LEMMA NextForwards ==
    ReadBufferAssumption /\ TypeOK /\ Forwards /\ [Next]_vars => Forwards'
<1> SUFFICES ASSUME ReadBufferAssumption, TypeOK, Forwards, [Next]_vars PROVE Forwards'
  OBVIOUS
<1>0. /\ pcIn \in Seq(Bytes) /\ xlIn \in Seq(Bytes) /\ pcOut \in Seq(Bytes)
      /\ xlOut \in Seq(Bytes) /\ Held \in Seq(Bytes)
      /\ Carried("writeXl") \in Seq(Bytes) /\ Carried("writePc") \in Seq(Bytes)
  BY HeldIsSeq, EmptySeq DEF TypeOK, Carried
<1>1. ASSUME NEW data \in Seq(Bytes), PcReceives(data) PROVE Forwards'
  <2> DEFINE before == xlOut \o Carried("writeXl")
  <2>1. before \in Seq(Bytes)
    BY <1>0, Joined
  <2>2. (before \o pcIn) \o data = before \o (pcIn \o data)
    <3>1. pcIn \in Seq(Bytes)
      BY <1>0
    <3> HIDE DEF before
    <3> QED BY <2>1, <3>1
  <2>3. \A here : Carried(here)' = Carried(here)
    BY <1>1 DEF PcReceives, Carried, Held
  <2> QED BY <1>1, <2>2, <2>3 DEF PcReceives, Forwards
<1>2. ASSUME NEW data \in Seq(Bytes), XlReceives(data) PROVE Forwards'
  <2> DEFINE before == pcOut \o Carried("writePc")
  <2>1. before \in Seq(Bytes)
    BY <1>0, Joined
  <2>2. (before \o xlIn) \o data = before \o (xlIn \o data)
    <3>1. xlIn \in Seq(Bytes)
      BY <1>0
    <3> HIDE DEF before
    <3> QED BY <2>1, <3>1
  <2>3. \A here : Carried(here)' = Carried(here)
    BY <1>2 DEF XlReceives, Carried, Held
  <2> QED BY <1>2, <2>2, <2>3 DEF XlReceives, Forwards
<1>3. CASE ReadPc
  <2>1. /\ Held' \in Seq(Bytes) /\ pcIn' \in Seq(Bytes) /\ Held' \o pcIn' = pcIn
    BY <1>0, <1>3, ReadsFront DEF ReadPc
  <2>2. (xlOut \o Held') \o pcIn' = xlOut \o pcIn
    <3>1. xlOut \in Seq(Bytes)
      BY <1>0
    <3>2. (xlOut \o Held') \o pcIn' = xlOut \o (Held' \o pcIn')
      <4>1. Held' \in Seq(Bytes) /\ pcIn' \in Seq(Bytes)
        BY <2>1
      <4> QED BY <3>1, <4>1
    <3> QED BY <2>1, <3>2
  <2>3. xlOut \o <<>> = xlOut
    BY <1>0, Joined
  <2> QED BY <1>3, <2>2, <2>3 DEF ReadPc, Forwards, Carried
<1>4. CASE ReadXl
  <2>1. /\ Held' \in Seq(Bytes) /\ xlIn' \in Seq(Bytes) /\ Held' \o xlIn' = xlIn
    BY <1>0, <1>4, ReadsFront DEF ReadXl
  <2>2. (pcOut \o Held') \o xlIn' = pcOut \o xlIn
    <3>1. pcOut \in Seq(Bytes)
      BY <1>0
    <3>2. (pcOut \o Held') \o xlIn' = pcOut \o (Held' \o xlIn')
      <4>1. Held' \in Seq(Bytes) /\ xlIn' \in Seq(Bytes)
        BY <2>1
      <4> QED BY <3>1, <4>1
    <3> QED BY <2>1, <3>2
  <2>3. pcOut \o <<>> = pcOut
    BY <1>0, Joined
  <2> QED BY <1>4, <2>2, <2>3 DEF ReadXl, Forwards, Carried
<1>5. CASE WriteXl
  <2>1. (xlOut \o Held) \o <<>> = xlOut \o Held
    BY <1>0, Joined
  <2> QED BY <1>5, <2>1 DEF WriteXl, Forwards, Carried
<1>6. CASE WritePc
  <2>1. (pcOut \o Held) \o <<>> = pcOut \o Held
    BY <1>0, Joined
  <2> QED BY <1>6, <2>1 DEF WritePc, Forwards, Carried
<1>7. CASE SkipPc \/ SkipXl
  BY <1>7 DEF SkipPc, SkipXl, Forwards, Carried
<1>8. CASE UNCHANGED vars
  BY <1>8 DEF vars, Forwards, Carried, Held
<1> QED BY <1>1, <1>2, <1>3, <1>4, <1>5, <1>6, <1>7, <1>8 DEF Next, Loop

(* The bridge starts empty.                                                  *)
LEMMA InitBridge == ReadBufferAssumption /\ Init => TypeOK /\ Forwards
<1> SUFFICES ASSUME ReadBufferAssumption, Init PROVE TypeOK /\ Forwards
  OBVIOUS
<1>1. <<>> \in Seq(Bytes) /\ <<>> \o <<>> = <<>>
  BY EmptySeq, ConcatEmptySeq
<1>2. TypeOK
  BY <1>1 DEF ReadBufferAssumption, Init, TypeOK
<1>3. Forwards
  BY <1>1 DEF Init, Forwards, Carried
<1> QED BY <1>2, <1>3

(* The bridge keeps its types, and forwards what it receives of each side as *)
(* it came, through the one buffer, whatever its size.                       *)
THEOREM BridgeInv ==
    ASSUME ReadBufferAssumption PROVE Spec => [](TypeOK /\ Forwards)
<1>1. Init => TypeOK /\ Forwards
  BY InitBridge
<1>2. TypeOK /\ Forwards /\ [Next]_vars => (TypeOK /\ Forwards)'
  BY NextBridgeType, NextForwards
<1> QED BY <1>1, <1>2, PTL DEF Spec
=============================================================================
