---------------------------- MODULE SuffixLemmas ----------------------------
(***************************************************************************)
(* What is left of a sequence when elements are taken from its front and   *)
(* added at its end, and what sequences make that are joined.              *)
(***************************************************************************)
EXTENDS Suffix, SequencesExt, SequenceTheorems, WellFoundedInduction, TLAPS

(* What is left is a sequence of the same elements.                          *)
LEMMA FromType ==
    ASSUME NEW S, NEW s \in Seq(S), NEW k \in Nat \ {0}, k <= Len(s) + 1
    PROVE  /\ From(s, k) \in Seq(S)
           /\ Len(From(s, k)) = Len(s) - k + 1
           /\ \A i \in 1..(Len(s) - k + 1) : From(s, k)[i] = s[k + i - 1]
<1>1. Len(s) \in Nat /\ \A i \in k..Len(s) : s[i] \in S
  BY LenProperties, ElementOfSeq
<1>2. k \in Int /\ Len(s) \in Int
  BY <1>1
<1> QED BY <1>1, <1>2, SubSeqProperties DEF From

(* Taking the first element of what is left.                                 *)
LEMMA FromTail ==
    ASSUME NEW S, NEW s \in Seq(S), NEW k \in Nat \ {0}, k <= Len(s) + 1,
           From(s, k) # <<>>
    PROVE  /\ k <= Len(s)
           /\ Head(From(s, k)) = s[k]
           /\ Tail(From(s, k)) = From(s, k + 1)
<1>1. Len(s) \in Nat
  BY LenProperties
<1>2. k <= Len(s)
  <2>1. Len(From(s, k)) # 0
    BY FromType, EmptySeq
  <2> QED BY <1>1, <2>1, FromType
<1>3. k \in 1..Len(s) /\ Len(s) \in k..Len(s)
  BY <1>1, <1>2
<1>4. /\ Head(SubSeq(s, k, Len(s))) = s[k]
      /\ Tail(SubSeq(s, k, Len(s))) = SubSeq(s, k + 1, Len(s))
  BY <1>3, HeadTailOfSubSeq
<1> QED BY <1>2, <1>4 DEF From

(* Appending to a sequence appends to what is left of it.                    *)
LEMMA FromAppend ==
    ASSUME NEW S, NEW s \in Seq(S), NEW e \in S, NEW k \in Nat \ {0}, k <= Len(s) + 1
    PROVE  Append(From(s, k), e) = From(Append(s, e), k)
<1> DEFINE t == Append(s, e)
           l == Append(From(s, k), e)
           r == From(t, k)
<1>1. Len(s) \in Nat
  BY LenProperties
<1>2. /\ t \in Seq(S) /\ Len(t) = Len(s) + 1
      /\ \A i \in 1..Len(s) : t[i] = s[i]
      /\ t[Len(s) + 1] = e
  BY AppendProperties
<1>3. /\ From(s, k) \in Seq(S) /\ Len(From(s, k)) = Len(s) - k + 1
      /\ \A i \in 1..(Len(s) - k + 1) : From(s, k)[i] = s[k + i - 1]
  BY FromType
<1>4. /\ l \in Seq(S) /\ Len(l) = Len(s) - k + 2
      /\ \A i \in 1..(Len(s) - k + 1) : l[i] = From(s, k)[i]
      /\ l[Len(s) - k + 2] = e
  <2>0. From(s, k) \in Seq(S)
    BY <1>3
  <2>1. /\ l \in Seq(S) /\ Len(l) = Len(From(s, k)) + 1
        /\ \A i \in 1..Len(From(s, k)) : l[i] = From(s, k)[i]
        /\ l[Len(From(s, k)) + 1] = e
    BY <2>0, AppendProperties
  <2>2. Len(From(s, k)) + 1 = Len(s) - k + 2
    BY <1>1, <1>3
  <2> QED BY <1>3, <2>1, <2>2
<1> HIDE DEF t, l
<1>5. k <= Len(t) + 1
  BY <1>1, <1>2
<1>6. /\ r \in Seq(S) /\ Len(r) = Len(s) - k + 2
      /\ \A i \in 1..(Len(s) - k + 2) : r[i] = t[k + i - 1]
  <2>1. /\ r \in Seq(S) /\ Len(r) = Len(t) - k + 1
        /\ \A i \in 1..(Len(t) - k + 1) : r[i] = t[k + i - 1]
    BY <1>2, <1>5, FromType
  <2>2. Len(t) - k + 1 = Len(s) - k + 2
    BY <1>1, <1>2
  <2> QED BY <2>1, <2>2
<1> HIDE DEF r
<1>7. ASSUME NEW i \in 1..Len(l) PROVE l[i] = r[i]
  <2>1. CASE i = Len(s) - k + 2
    <3>1. k + i - 1 = Len(s) + 1
      BY <1>1, <2>1
    <3>2. r[i] = t[k + i - 1]
      BY <1>4, <1>6
    <3> QED BY <1>2, <1>4, <2>1, <3>1, <3>2
  <2>2. CASE i # Len(s) - k + 2
    <3>1. i \in 1..(Len(s) - k + 1) /\ k + i - 1 \in 1..Len(s)
      <4>1. i \in 1..(Len(s) - k + 2)
        BY <1>4
      <4> QED BY <1>1, <2>2, <4>1
    <3>2. l[i] = s[k + i - 1]
      BY <1>3, <1>4, <3>1
    <3>3. r[i] = t[k + i - 1]
      BY <1>4, <1>6
    <3> QED BY <1>2, <3>1, <3>2, <3>3
  <2> QED BY <2>1, <2>2
<1>8. l = r
  BY <1>4, <1>6, <1>7, SeqEqual
<1> QED BY <1>8 DEF l, r, t

(* What is left of what is left.                                             *)
LEMMA FromFrom ==
    ASSUME NEW S, NEW s \in Seq(S), NEW k \in Nat \ {0}, NEW j \in Nat \ {0},
           k + j <= Len(s) + 2
    PROVE  From(From(s, k), j) = From(s, k + j - 1)
<1> DEFINE t == From(s, k)
           l == From(t, j)
           r == From(s, k + j - 1)
<1>1. Len(s) \in Nat /\ k <= Len(s) + 1 /\ k + j - 1 \in Nat \ {0} /\ k + j - 1 <= Len(s) + 1
  BY LenProperties
<1>2. /\ t \in Seq(S) /\ Len(t) = Len(s) - k + 1
      /\ \A i \in 1..(Len(s) - k + 1) : t[i] = s[k + i - 1]
  BY <1>1, FromType
<1>3. /\ r \in Seq(S) /\ Len(r) = Len(s) - k - j + 2
      /\ \A i \in 1..(Len(s) - k - j + 2) : r[i] = s[k + j + i - 2]
  <2>1. /\ r \in Seq(S) /\ Len(r) = Len(s) - (k + j - 1) + 1
        /\ \A i \in 1..(Len(s) - (k + j - 1) + 1) : r[i] = s[(k + j - 1) + i - 1]
    BY <1>1, FromType
  <2>2. Len(s) - (k + j - 1) + 1 = Len(s) - k - j + 2
    BY <1>1
  <2>3. \A i \in Int : (k + j - 1) + i - 1 = k + j + i - 2
    OBVIOUS
  <2> QED BY <2>1, <2>2, <2>3
<1> HIDE DEF t, r
<1>4. /\ l \in Seq(S) /\ Len(l) = Len(t) - j + 1
      /\ \A i \in 1..(Len(t) - j + 1) : l[i] = t[j + i - 1]
  <2>1. t \in Seq(S) /\ j <= Len(t) + 1
    BY <1>1, <1>2
  <2> QED BY <2>1, FromType
<1> HIDE DEF l
<1>5. Len(l) = Len(r)
  BY <1>1, <1>2, <1>3, <1>4
<1>6. ASSUME NEW i \in 1..Len(l) PROVE l[i] = r[i]
  <2>1. l[i] = t[j + i - 1]
    BY <1>4
  <2>2. j + i - 1 \in 1..(Len(s) - k + 1) /\ i \in 1..(Len(s) - k - j + 2)
    BY <1>1, <1>2, <1>4
  <2>3. t[j + i - 1] = s[k + (j + i - 1) - 1]
    BY <1>2, <2>2
  <2>4. r[i] = s[k + j + i - 2]
    BY <1>3, <2>2
  <2>5. k + (j + i - 1) - 1 = k + j + i - 2
    BY <2>2
  <2> QED BY <2>1, <2>3, <2>4, <2>5
<1>7. l = r
  BY <1>3, <1>4, <1>5, <1>6, SeqEqual
<1> QED BY <1>7 DEF l, t, r

(* Taking from the front of one sequence leaves the one behind it alone.     *)
LEMMA FromConcat ==
    ASSUME NEW S, NEW s \in Seq(S), NEW t \in Seq(S), NEW k \in Nat \ {0},
           k <= Len(s) + 1
    PROVE  From(s, k) \o t = From(s \o t, k)
<1> DEFINE f == From(s, k)
           c == s \o t
           l == f \o t
           r == From(c, k)
<1>1. Len(s) \in Nat /\ Len(t) \in Nat
  BY LenProperties
<1>2. /\ f \in Seq(S) /\ Len(f) = Len(s) - k + 1
      /\ \A i \in 1..(Len(s) - k + 1) : f[i] = s[k + i - 1]
  BY FromType
<1>3. /\ c \in Seq(S) /\ Len(c) = Len(s) + Len(t)
      /\ \A i \in 1..Len(s) + Len(t) : c[i] = IF i <= Len(s) THEN s[i] ELSE t[i - Len(s)]
  BY ConcatProperties
<1> HIDE DEF f, c
<1>4. /\ l \in Seq(S) /\ Len(l) = Len(f) + Len(t)
      /\ \A i \in 1..Len(f) + Len(t) : l[i] = IF i <= Len(f) THEN f[i] ELSE t[i - Len(f)]
  BY <1>2, ConcatProperties
<1>5. /\ r \in Seq(S) /\ Len(r) = Len(c) - k + 1
      /\ \A i \in 1..(Len(c) - k + 1) : r[i] = c[k + i - 1]
  <2>1. k <= Len(c) + 1
    BY <1>1, <1>3
  <2> QED BY <1>3, <2>1, FromType
<1> HIDE DEF l, r
<1>6. Len(l) = Len(r)
  BY <1>1, <1>2, <1>3, <1>4, <1>5
<1>7. ASSUME NEW i \in 1..Len(l) PROVE l[i] = r[i]
  <2>1. /\ i \in Int /\ i >= 1 /\ i <= Len(s) - k + 1 + Len(t)
        /\ k + i - 1 \in 1..Len(s) + Len(t)
    BY <1>1, <1>2, <1>4
  <2>2. r[i] = c[k + i - 1]
    BY <1>5, <1>6
  <2>3. c[k + i - 1] = IF k + i - 1 <= Len(s) THEN s[k + i - 1] ELSE t[k + i - 1 - Len(s)]
    BY <1>3, <2>1
  <2>4. l[i] = IF i <= Len(f) THEN f[i] ELSE t[i - Len(f)]
    BY <1>4
  <2>5. CASE i <= Len(f)
    <3>1. k + i - 1 <= Len(s) /\ i \in 1..(Len(s) - k + 1)
      BY <1>1, <1>2, <2>1, <2>5
    <3> QED BY <1>2, <2>2, <2>3, <2>4, <2>5, <3>1
  <2>6. CASE ~(i <= Len(f))
    <3>1. ~(k + i - 1 <= Len(s)) /\ i - Len(f) = k + i - 1 - Len(s)
      BY <1>1, <1>2, <2>1, <2>6
    <3> QED BY <2>2, <2>3, <2>4, <2>6, <3>1
  <2> QED BY <2>5, <2>6
<1>8. l = r
  BY <1>4, <1>5, <1>6, <1>7, SeqEqual
<1> QED BY <1>8 DEF l, r, f, c

(* Cutting a sequence in two and putting it together again.                  *)
LEMMA CutAndJoin ==
    ASSUME NEW S, NEW s \in Seq(S), NEW n \in Nat, n <= Len(s)
    PROVE  /\ SubSeq(s, 1, n) \in Seq(S)
           /\ SubSeq(s, 1, n) \o From(s, n + 1) = s
<1>1. Len(s) \in Nat /\ \A i \in 1..n : s[i] \in S
  <2>1. Len(s) \in Nat
    BY LenProperties
  <2>2. ASSUME NEW i \in 1..n PROVE s[i] \in S
    <3>1. i \in 1..Len(s)
      BY <2>1
    <3> QED BY <3>1, ElementOfSeq
  <2> QED BY <2>1, <2>2
<1>2. SubSeq(s, 1, n) \in Seq(S)
  <2>1. 1 \in Int /\ n \in Int
    OBVIOUS
  <2> QED BY <1>1, <2>1, SubSeqProperties
<1>3. /\ 1 \in 1..Len(s) + 1
      /\ n \in 1-1..Len(s)
      /\ Len(s) \in n..Len(s)
  BY <1>1
<1>4. SubSeq(s, 1, n) \o SubSeq(s, n + 1, Len(s)) = SubSeq(s, 1, Len(s))
  BY <1>3, ConcatAdjacentSubSeq
<1>5. SubSeq(s, 1, Len(s)) = s
  BY SubSeqFull
<1> QED BY <1>2, <1>4, <1>5 DEF From
-----------------------------------------------------------------------------
(* A set of numbers has a smallest one.                                      *)
LEMMA Smallest ==
    ASSUME NEW T \in SUBSET Nat, T # {}
    PROVE  \E x \in T : \A y \in T : x <= y
<1> DEFINE R == OpToRel(<, Nat)
<1>1. IsWellFoundedOn(R, Nat)
  BY NatLessThanWellFounded
<1>2. \A x, y \in Nat : <<x, y>> \in R <=> x < y
  BY DEF OpToRel
<1> HIDE DEF R
<1>3. PICK x \in T : \A y \in T : ~(<<y, x>> \in R)
  BY <1>1, WFMin
<1>4. x \in Nat /\ \A y \in T : y \in Nat /\ ~(y < x)
  BY <1>2, <1>3
<1> QED BY <1>4

(* What FlattenSeq computes: g joins the first n elements of s.              *)
Joins(s, n, g) ==
    g = [i \in 1..n |-> IF i = 1 THEN s[i] ELSE g[i-1] \o s[i]]

(* If all smaller n have such a function, so has n.                        *)
LEMMA JoinsFrom ==
    ASSUME NEW s, NEW n \in Nat, \A m \in Nat : m < n => \E g : Joins(s, m, g)
    PROVE  \E g : Joins(s, n, g)
<1>1. CASE n = 0
  BY <1>1 DEF Joins
<1>2. CASE n > 0
  <2>1. PICK g : Joins(s, n - 1, g)
    BY <1>2
  <2> DEFINE last == IF n = 1 THEN s[n] ELSE g[n-1] \o s[n]
             h == [i \in 1..n |-> IF i = n THEN last ELSE g[i]]
  <2>2. \A i \in 1..n-1 : g[i] = IF i = 1 THEN s[i] ELSE g[i-1] \o s[i]
    BY <2>1 DEF Joins
  <2>3. \A i \in 1..n : h[i] = IF i = 1 THEN s[i] ELSE h[i-1] \o s[i]
    <3>1. SUFFICES ASSUME NEW i \in 1..n
                   PROVE h[i] = IF i = 1 THEN s[i] ELSE h[i-1] \o s[i]
      OBVIOUS
    <3>2. CASE i = n
      BY <3>2
    <3>3. CASE i < n
      <4>1. i \in 1..n-1 /\ h[i] = g[i]
        BY <3>3
      <4>2. i # 1 => h[i-1] = g[i-1]
        BY <3>3
      <4> HIDE DEF h
      <4> QED BY <4>1, <4>2, <2>2
    <3> QED BY <3>1, <3>2, <3>3
  <2>4. h = [i \in 1..n |-> h[i]]
    OBVIOUS
  <2> HIDE DEF h
  <2>5. h = [i \in 1..n |-> IF i = 1 THEN s[i] ELSE h[i-1] \o s[i]]
    BY <2>3, <2>4
  <2> QED BY <2>5 DEF Joins
<1> QED BY <1>1, <1>2

(* There is such a function, for otherwise there is a smallest n without.    *)
LEMMA JoinsExists ==
    ASSUME NEW s, NEW n \in Nat
    PROVE  \E g : Joins(s, n, g)
<1> DEFINE T == {m \in Nat : ~\E g : Joins(s, m, g)}
<1>1. SUFFICES ASSUME T # {} PROVE FALSE
  OBVIOUS
<1>2. PICK x \in T : \A y \in T : x <= y
  BY <1>1, Smallest
<1>3. \A m \in Nat : m < x => \E g : Joins(s, m, g)
  BY <1>2
<1>4. \E g : Joins(s, x, g)
  BY <1>3, JoinsFrom
<1> QED BY <1>4

(* Each of its values is a sequence of the same elements.                  *)
LEMMA JoinsType ==
    ASSUME NEW S, NEW s \in Seq(Seq(S)), NEW g, Joins(s, Len(s), g)
    PROVE  \A i \in 1..Len(s) : g[i] \in Seq(S)
<1> DEFINE T == {i \in 1..Len(s) : g[i] \notin Seq(S)}
<1>0. Len(s) \in Nat /\ \A i \in 1..Len(s) : s[i] \in Seq(S)
  BY LenProperties, ElementOfSeq
<1>1. SUFFICES ASSUME T # {} PROVE FALSE
  OBVIOUS
<1>2. T \in SUBSET Nat
  BY <1>0
<1> HIDE DEF T
<1>9. PICK x \in T : \A y \in T : x <= y
  BY <1>1, <1>2, Smallest
<1> USE DEF T
<1>3. g[x] = IF x = 1 THEN s[x] ELSE g[x-1] \o s[x]
  BY <1>9 DEF Joins
<1>4. CASE x = 1
  BY <1>0, <1>9, <1>3, <1>4
<1>5. CASE x # 1
  <2>1. x - 1 \in 1..Len(s) /\ g[x-1] \in Seq(S)
    BY <1>0, <1>9, <1>5
  <2>2. g[x-1] \o s[x] \in Seq(S)
    BY <2>1, <1>0, <1>9, ConcatProperties
  <2> QED BY <2>2, <1>9, <1>3, <1>5
<1> QED BY <1>4, <1>5

(* Sequences that are joined make one of the same elements.                  *)
LEMMA FlattenType ==
    ASSUME NEW S, NEW s \in Seq(Seq(S))
    PROVE  FlattenSeq(s) \in Seq(S)
<1>0. Len(s) \in Nat
  BY LenProperties
<1>1. CASE Len(s) = 0
  <2>1. s = <<>>
    BY <1>1, EmptySeq
  <2> QED BY <1>1, <2>1, EmptySeq DEF FlattenSeq
<1>2. CASE Len(s) # 0
  <2> DEFINE flatten == CHOOSE g : Joins(s, Len(s), g)
  <2>1. Joins(s, Len(s), flatten)
    BY <1>0, JoinsExists
  <2>2. flatten[Len(s)] \in Seq(S)
    <3> HIDE DEF flatten
    <3> QED BY <1>0, <1>2, <2>1, JoinsType
  <2>3. FlattenSeq(s) = flatten[Len(s)]
    BY <1>2 DEF FlattenSeq, Joins
  <2> QED BY <2>2, <2>3
<1> QED BY <1>1, <1>2

(* Sequences that begin alike are joined alike.                              *)
LEMMA JoinsAgree ==
    ASSUME NEW s, NEW t, NEW n \in Nat, NEW m \in Nat, n <= m,
           \A i \in 1..n : s[i] = t[i],
           NEW g, Joins(s, n, g), NEW h, Joins(t, m, h)
    PROVE  \A i \in 1..n : g[i] = h[i]
<1> DEFINE T == {i \in 1..n : g[i] # h[i]}
<1>1. SUFFICES ASSUME T # {} PROVE FALSE
  OBVIOUS
<1>2. T \in SUBSET Nat
  OBVIOUS
<1> HIDE DEF T
<1>3. PICK x \in T : \A y \in T : x <= y
  BY <1>1, <1>2, Smallest
<1> USE DEF T
<1>4. x \in 1..n /\ x \in 1..m /\ g[x] # h[x] /\ s[x] = t[x]
  BY <1>3
<1>5. /\ g[x] = IF x = 1 THEN s[x] ELSE g[x-1] \o s[x]
      /\ h[x] = IF x = 1 THEN t[x] ELSE h[x-1] \o t[x]
  BY <1>4 DEF Joins
<1>6. CASE x = 1
  BY <1>4, <1>5, <1>6
<1>7. CASE x # 1
  <2>1. x - 1 \in 1..n /\ ~(x <= x - 1)
    BY <1>4, <1>7
  <2>2. g[x-1] = h[x-1]
    BY <1>3, <2>1
  <2> QED BY <1>4, <1>5, <1>7, <2>2
<1> QED BY <1>6, <1>7

(* One more sequence is joined at the end.                                   *)
LEMMA FlattenAppend ==
    ASSUME NEW S, NEW s \in Seq(Seq(S)), NEW e \in Seq(S)
    PROVE  FlattenSeq(Append(s, e)) = FlattenSeq(s) \o e
<1> DEFINE t == Append(s, e)
           n == Len(s)
           g == CHOOSE f : Joins(s, n, f)
           h == CHOOSE f : Joins(t, Len(t), f)
<1>1. /\ n \in Nat /\ Len(t) = n + 1 /\ t[n + 1] = e
      /\ \A i \in 1..n : s[i] = t[i]
  BY LenProperties, AppendProperties
<1>2. Joins(s, n, g) /\ Joins(t, n + 1, h)
  <2>1. \E f : Joins(s, n, f)
    BY <1>1, JoinsExists
  <2>2. Len(t) \in Nat
    BY <1>1
  <2>3. \E f : Joins(t, Len(t), f)
    BY <2>2, JoinsExists
  <2>4. Joins(t, Len(t), h)
    BY <2>3
  <2> QED BY <1>1, <2>1, <2>4
<1>3. FlattenSeq(s) = IF n = 0 THEN s ELSE g[n]
  BY DEF FlattenSeq, Joins
<1>4. FlattenSeq(t) = h[n + 1]
  <2>1. Len(t) # 0
    BY <1>1
  <2>2. FlattenSeq(t) = h[Len(t)]
    BY <2>1 DEF FlattenSeq, Joins
  <2> QED BY <1>1, <2>2
<1> HIDE DEF t, g, h, n
<1>5. h[n + 1] = IF n = 0 THEN e ELSE h[n] \o e
  <2>1. PICK m \in Nat : m = n + 1
    BY <1>1
  <2>2. m \in 1..m /\ t[m] = e /\ m - 1 = n /\ (m = 1 <=> n = 0)
    BY <1>1, <2>1 DEF n
  <2>3. h = [i \in 1..m |-> IF i = 1 THEN t[i] ELSE h[i-1] \o t[i]]
    BY <1>2, <2>1 DEF Joins
  <2>4. h[m] = IF m = 1 THEN t[m] ELSE h[m - 1] \o t[m]
    BY <2>2, <2>3, Zenon
  <2>5. h[m] = IF n = 0 THEN e ELSE h[n] \o e
    BY <2>2, <2>4, Zenon
  <2> QED BY <2>1, <2>5
<1>6. \A i \in 1..n : g[i] = h[i]
  <2> DEFINE m == n + 1
  <2>1. n \in Nat /\ m \in Nat /\ n <= m
    BY <1>1
  <2>2. Joins(s, n, g) /\ Joins(t, m, h)
    BY <1>2
  <2>3. \A i \in 1..n : s[i] = t[i]
    BY <1>1
  <2> HIDE DEF m
  <2> QED BY <2>1, <2>2, <2>3, JoinsAgree
<1>7. CASE n = 0
  <2>1. s = <<>>
    BY <1>7, EmptySeq DEF n
  <2>2. <<>> \o e = e
    BY ConcatEmptySeq
  <2> QED BY <1>3, <1>4, <1>5, <1>7, <2>1, <2>2 DEF t
<1>8. CASE n # 0
  <2>1. n \in 1..n
    BY <1>1, <1>8
  <2> QED BY <1>3, <1>4, <1>5, <1>6, <1>8, <2>1 DEF t
<1> QED BY <1>7, <1>8

(* The first n elements are n.                                               *)
LEMMA FirstLen ==
    ASSUME NEW S, NEW s \in Seq(S), NEW n \in Nat, n <= Len(s)
    PROVE  Len(SubSeq(s, 1, n)) = n
<1>1. Len(s) \in Nat
  BY LenProperties
<1> QED BY <1>1

(* The first n elements are those of any longer start.                       *)
LEMMA FirstOfFirst ==
    ASSUME NEW S, NEW s \in Seq(S), NEW m \in Nat, m <= Len(s), NEW n \in 0..m
    PROVE  SubSeq(SubSeq(s, 1, m), 1, n) = SubSeq(s, 1, n)
<1>1. Len(s) \in Nat
  BY LenProperties
<1>2. SubSeq(s, 1, m) = [i \in 1..m |-> s[i]] /\ SubSeq(s, 1, n) = [i \in 1..n |-> s[i]]
  BY <1>1
<1> DEFINE t == [i \in 1..m |-> s[i]]
<1>3. SubSeq(t, 1, n) = [i \in 1..n |-> t[i]]
  BY <1>1
<1>4. \A i \in 1..n : t[i] = s[i]
  BY <1>1
<1> HIDE DEF t
<1> QED BY <1>2, <1>3, <1>4 DEF t

(* The first n + 1 elements are the first n and one more.                    *)
LEMMA NextOne ==
    ASSUME NEW S, NEW s \in Seq(S), NEW n \in Nat, n < Len(s)
    PROVE  SubSeq(s, 1, n + 1) = Append(SubSeq(s, 1, n), s[n + 1])
<1> DEFINE t == SubSeq(s, 1, n)
<1>1. Len(s) \in Nat /\ \A i \in 1..Len(s) : s[i] \in S
  BY LenProperties, ElementOfSeq
<1>2. t \in Seq(S)
  <2>1. 1 \in Int /\ n \in Int /\ \A i \in 1..n : s[i] \in S
    BY <1>1
  <2> QED BY <1>1, <2>1, SubSeqProperties
<1>3. 1 \in 1..Len(s) /\ n + 1 \in 1..Len(s) /\ n + 1 - 1 = n
  BY <1>1
<1>4. SubSeq(s, 1, n + 1) = SubSeq(s, 1, n + 1 - 1) \o <<s[n + 1]>>
  BY <1>3, SubSeqRecursiveSecond
<1> HIDE DEF t
<1>5. s[n + 1] \in S
  BY <1>1, <1>3
<1>6. Append(t, s[n + 1]) = t \o <<s[n + 1]>>
  BY <1>2, <1>5, AppendIsConcat
<1> QED BY <1>3, <1>4, <1>6 DEF t

(* The first n + 1 sequences.                                                *)
LEMMA FlattenNext ==
    ASSUME NEW S, NEW s \in Seq(Seq(S)), NEW n \in Nat, n < Len(s)
    PROVE  /\ FlattenSeq(SubSeq(s, 1, n)) \in Seq(S)
           /\ s[n + 1] \in Seq(S)
           /\ FlattenSeq(SubSeq(s, 1, n + 1)) = FlattenSeq(SubSeq(s, 1, n)) \o s[n + 1]
<1> DEFINE t == SubSeq(s, 1, n)
<1>1. /\ Len(s) \in Nat /\ n + 1 \in 1..Len(s)
      /\ \A i \in 1..Len(s) : s[i] \in Seq(S)
  BY LenProperties, ElementOfSeq
<1>2. t \in Seq(Seq(S)) /\ s[n + 1] \in Seq(S)
  <2>1. 1 \in Int /\ n \in Int /\ \A i \in 1..n : s[i] \in Seq(S)
    BY <1>1
  <2> QED BY <1>1, <2>1, SubSeqProperties
<1>3. SubSeq(s, 1, n + 1) = Append(t, s[n + 1])
  BY NextOne
<1> HIDE DEF t
<1>4. FlattenSeq(t) \in Seq(S)
  BY <1>2, FlattenType
<1>5. FlattenSeq(Append(t, s[n + 1])) = FlattenSeq(t) \o s[n + 1]
  BY <1>2, FlattenAppend
<1> QED BY <1>2, <1>3, <1>4, <1>5 DEF t

(* A sequence starts with what its start starts with.                        *)
LEMMA StartOfStart ==
    ASSUME NEW S, NEW a \in Seq(S), NEW b \in Seq(S), NEW t, t = a \o b,
           NEW s \in Seq(S)
    PROVE  IsPrefix(t, s) => IsPrefix(a, s)
<1>1. /\ Len(a) \in Nat /\ Len(b) \in Nat /\ Len(s) \in Nat
      /\ Len(t) = Len(a) + Len(b)
      /\ \A i \in 1..Len(a) : t[i] = a[i]
  BY ConcatProperties, LenProperties
<1>2. Len(a) <= Len(t) /\ \A i \in 1..Len(a) : i \in 1..Len(t)
  BY <1>1
<1> HIDE DEF IsPrefix
<1> QED BY <1>1, <1>2 DEF IsPrefix

(* All the sequences start with the first n of them.                         *)
LEMMA FlattenStart ==
    ASSUME NEW S, NEW s \in Seq(Seq(S)), NEW n \in 0..Len(s)
    PROVE  IsPrefix(FlattenSeq(SubSeq(s, 1, n)), FlattenSeq(s))
<1> DEFINE all == FlattenSeq(s)
           Part(k) == FlattenSeq(SubSeq(s, 1, k))
           T == {m \in 0..Len(s) : ~IsPrefix(Part(Len(s) - m), all)}
<1>0. Len(s) \in Nat
  BY LenProperties
<1>1. all \in Seq(S)
  BY FlattenType
<1> HIDE DEF all
<1>2. \A k \in Nat : k < Len(s) => (IsPrefix(Part(k + 1), all) => IsPrefix(Part(k), all))
  <2> SUFFICES ASSUME NEW k \in Nat, k < Len(s)
               PROVE  IsPrefix(Part(k + 1), all) => IsPrefix(Part(k), all)
    OBVIOUS
  <2>1. PICK a \in Seq(S), b \in Seq(S) : a = Part(k) /\ Part(k + 1) = a \o b
    BY FlattenNext
  <2> HIDE DEF Part
  <2> QED BY <1>1, <2>1, StartOfStart
<1>3. IsPrefix(Part(Len(s)), all)
  <2>1. Part(Len(s)) = all
    <3>1. SubSeq(s, 1, Len(s)) = s
      BY SubSeqFull
    <3> QED BY <3>1 DEF all
  <2> HIDE DEF Part
  <2> QED BY <1>0, <2>1, <1>1, LenProperties DEF IsPrefix
<1> HIDE DEF Part
<1>4. T = {}
  <2> SUFFICES ASSUME T # {} PROVE FALSE
    OBVIOUS
  <2>1. T \in SUBSET Nat
    BY <1>0
  <2>2. PICK x \in T : \A y \in T : x <= y
    <3> HIDE DEF T
    <3> QED BY <2>1, Smallest
  <2>3. x \in 0..Len(s) /\ ~IsPrefix(Part(Len(s) - x), all)
    OBVIOUS
  <2>4. x # 0
    BY <1>0, <1>3, <2>3
  <2>5. x - 1 \in 0..Len(s) /\ ~(x <= x - 1) /\ x - 1 \notin T
    <3>1. x - 1 \in 0..Len(s) /\ ~(x <= x - 1)
      BY <1>0, <2>3, <2>4
    <3> HIDE DEF T
    <3> QED BY <2>2, <3>1
  <2>6. Len(s) - x \in Nat /\ Len(s) - x < Len(s) /\ Len(s) - (x - 1) = Len(s) - x + 1
    BY <1>0, <2>3, <2>4
  <2>7. IsPrefix(Part(Len(s) - x + 1), all)
    BY <2>5, <2>6
  <2> HIDE DEF T
  <2> QED BY <1>2, <2>3, <2>6, <2>7
<1>5. Len(s) - n \in 0..Len(s) /\ Len(s) - (Len(s) - n) = n
  BY <1>0
<1>6. Len(s) - n \notin T
  BY <1>4
<1>7. IsPrefix(Part(Len(s) - (Len(s) - n)), all)
  BY <1>5, <1>6
<1> QED BY <1>5, <1>7 DEF Part, all

(* In s, b comes behind the start a, and then what comes behind the start t. *)
ComesNext(s, a, b, t) ==
    /\ Len(t) = Len(a) + Len(b) /\ Len(t) <= Len(s)
    /\ From(s, Len(a) + 1) = b \o From(s, Len(t) + 1)

(* What is behind a start is what is behind a longer one, and its end.       *)
LEMMA RestOfStart ==
    ASSUME NEW S, NEW a \in Seq(S), NEW b \in Seq(S), NEW t, t = a \o b,
           NEW s \in Seq(S), IsPrefix(t, s)
    PROVE  ComesNext(s, a, b, t)
<1>1. /\ Len(a) \in Nat /\ Len(b) \in Nat /\ Len(s) \in Nat
      /\ t \in Seq(S) /\ Len(t) = Len(a) + Len(b) /\ Len(t) <= Len(s)
      /\ SubSeq(s, 1, Len(t)) = SubSeq(t, 1, Len(t))
  BY ConcatProperties, LenProperties DEF IsPrefix
<1>2. IsPrefix(a, s)
  BY StartOfStart
<1>3. SubSeq(s, 1, Len(t)) = t /\ SubSeq(s, 1, Len(a)) = a
  <2>1. SubSeq(t, 1, Len(t)) = t /\ SubSeq(a, 1, Len(a)) = a
    BY <1>1, SubSeqFull
  <2> QED BY <1>1, <1>2, <2>1 DEF IsPrefix
<1>4. Len(t) \in Nat /\ Len(a) <= Len(s)
  BY <1>1
<1>5. s = t \o From(s, Len(t) + 1) /\ s = a \o From(s, Len(a) + 1)
  BY <1>1, <1>3, <1>4, CutAndJoin
<1> DEFINE x == From(s, Len(a) + 1)
           y == From(s, Len(t) + 1)
<1>6. x \in Seq(S)
  <2>1. Len(a) + 1 \in Nat \ {0} /\ Len(a) + 1 <= Len(s) + 1
    BY <1>1, <1>4
  <2> QED BY <2>1, FromType
<1>7. y \in Seq(S)
  <2>1. Len(t) + 1 \in Nat \ {0} /\ Len(t) + 1 <= Len(s) + 1
    BY <1>1, <1>4
  <2> QED BY <2>1, FromType
<1>8. s = (a \o b) \o y /\ s = a \o x
  BY <1>5
<1> HIDE DEF x, y
<1>9. (a \o b) \o y = a \o (b \o y)
  BY <1>7, ConcatAssociative
<1>10. b \o y \in Seq(S)
  BY <1>7, ConcatProperties
<1>11. a \o x = a \o (b \o y)
  BY <1>8, <1>9
<1>12. x = b \o y
  BY <1>6, <1>10, <1>11, ConcatSimplifications
<1> QED BY <1>1, <1>12 DEF x, y, ComesNext
-----------------------------------------------------------------------------
(* s is a sequence of n elements of S.                                       *)
SizedSeq(S, n, s) == n \in Nat /\ s \in Seq(S) /\ Len(s) = n

(* The n elements of t are in s after the first k.                           *)
Carries(s, k, t, n) == \A i \in 1..n : s[k + i] = t[i]

(* What a concatenation is made of.                                          *)
LEMMA JoinedAre ==
    ASSUME NEW S, NEW m, NEW n, NEW s, NEW t, SizedSeq(S, m, s), SizedSeq(S, n, t)
    PROVE  SizedSeq(S, m + n, s \o t) /\ Carries(s \o t, 0, s, m) /\ Carries(s \o t, m, t, n)
<1> DEFINE st == s \o t
<1>1. m \in Nat /\ n \in Nat /\ Len(s) = m /\ Len(t) = n
  BY DEF SizedSeq
<1>2. /\ st \in Seq(S) /\ Len(st) = Len(s) + Len(t)
      /\ \A i \in 1..Len(s) + Len(t) : st[i] = IF i <= Len(s) THEN s[i] ELSE t[i - Len(s)]
  BY ConcatProperties DEF SizedSeq
<1> HIDE DEF st
<1>3. \A i \in 1..m : st[0 + i] = s[i]
  BY <1>1, <1>2
<1>4. \A i \in 1..n : st[m + i] = t[i]
  BY <1>1, <1>2
<1> QED BY <1>1, <1>2, <1>3, <1>4 DEF st, SizedSeq, Carries

(* What is in a part is in the whole.                                        *)
LEMMA CarriesPart ==
    ASSUME NEW s, NEW t, NEW u, NEW k \in Nat, NEW n \in Nat, NEW j \in Nat, NEW m \in Nat,
           Carries(s, k, t, n), Carries(t, j, u, m), j + m <= n
    PROVE  Carries(s, k + j, u, m)
<1> SUFFICES ASSUME NEW i \in 1..m PROVE s[k + j + i] = u[i]
  BY DEF Carries
<1>1. j + i \in 1..n /\ k + (j + i) = k + j + i
  OBVIOUS
<1>2. s[k + (j + i)] = t[j + i] /\ t[j + i] = u[i]
  BY <1>1, Zenon DEF Carries
<1> QED BY <1>1, <1>2

(* A part of a sequence is cut out of it.                                    *)
LEMMA CarriesCut ==
    ASSUME NEW S, NEW s, NEW t, NEW k \in Nat, NEW n,
           SizedSeq(S, n, t), Carries(s, k, t, n)
    PROVE  SubSeq(s, k + 1, k + n) = t
<1>1. n \in Nat /\ t \in Seq(S) /\ Len(t) = n
  BY DEF SizedSeq
<1>a. PICK a \in Int, b \in Int : a = k + 1 /\ b = k + n
  BY <1>1
<1> DEFINE u == SubSeq(s, a, b)
<1>2. \A i \in 1..n : t[i] \in S
  BY <1>1, ElementOfSeq
<1>3. \A i \in a..b : s[i] \in S
  <2> TAKE i \in a..b
  <2>1. i - k \in 1..n /\ k + (i - k) = i
    BY <1>1, <1>a
  <2>2. s[k + (i - k)] = t[i - k] /\ t[i - k] \in S
    BY <1>2, <2>1, Zenon DEF Carries
  <2> QED BY <2>1, <2>2
<1>4. /\ u \in Seq(S)
      /\ Len(u) = IF a <= b THEN b - a + 1 ELSE 0
      /\ \A i \in 1..b - a + 1 : u[i] = s[a + i - 1]
  BY <1>3, SubSeqProperties
<1> HIDE DEF u
<1>5. Len(u) = n
  BY <1>1, <1>a, <1>4
<1>6. \A i \in 1..n : u[i] = t[i]
  <2> TAKE i \in 1..n
  <2>1. i \in 1..b - a + 1 /\ a + i - 1 = k + i
    BY <1>1, <1>a
  <2>2. u[i] = s[a + i - 1] /\ s[k + i] = t[i]
    BY <1>4, <2>1, Zenon DEF Carries
  <2> QED BY <2>1, <2>2
<1>7. u = t
  BY <1>1, <1>4, <1>5, <1>6, SeqEqual
<1> QED BY <1>7, <1>a DEF u

(* Four of them.                                                             *)
LEMMA FourJoined ==
    ASSUME NEW S, NEW k, NEW l, NEW m, NEW n, NEW a, NEW b, NEW c, NEW d,
           SizedSeq(S, k, a), SizedSeq(S, l, b), SizedSeq(S, m, c), SizedSeq(S, n, d)
    PROVE  LET s == a \o b \o c \o d IN
           /\ SizedSeq(S, k + l + m + n, s)
           /\ Carries(s, 0, a, k) /\ Carries(s, k, b, l) /\ Carries(s, k + l, c, m)
<1> DEFINE ab == a \o b
           abc == ab \o c
           s == abc \o d
<1>0. k \in Nat /\ l \in Nat /\ m \in Nat /\ n \in Nat
  BY DEF SizedSeq
<1>1. SizedSeq(S, k + l, ab) /\ Carries(ab, 0, a, k) /\ Carries(ab, k, b, l)
  BY JoinedAre
<1> HIDE DEF ab
<1>2. SizedSeq(S, k + l + m, abc) /\ Carries(abc, 0, ab, k + l) /\ Carries(abc, k + l, c, m)
  BY <1>1, JoinedAre
<1> HIDE DEF abc
<1>3. SizedSeq(S, k + l + m + n, s) /\ Carries(s, 0, abc, k + l + m)
  BY <1>2, JoinedAre
<1> HIDE DEF s
<1>4. PICK kl \in Nat, klm \in Nat : kl = k + l /\ klm = k + l + m
  BY <1>0
<1>5. Carries(s, 0, abc, klm) /\ Carries(abc, 0, ab, kl) /\ Carries(abc, kl, c, m)
  BY <1>2, <1>3, <1>4
<1>6. /\ 0 + kl <= klm /\ kl + m <= klm /\ 0 + k <= kl /\ k + l <= kl
      /\ 0 + 0 = 0 /\ 0 + kl = kl /\ 0 + k = k
  BY <1>0, <1>4
<1>7. Carries(s, 0 + 0, ab, kl) /\ Carries(s, 0 + kl, c, m)
  BY <1>0, <1>4, <1>5, <1>6, CarriesPart
<1>8. Carries(s, 0, ab, kl)
  BY <1>6, <1>7
<1>9. Carries(s, 0 + 0, a, k) /\ Carries(s, 0 + k, b, l)
  BY <1>0, <1>1, <1>4, <1>6, <1>8, CarriesPart
<1> QED BY <1>3, <1>4, <1>6, <1>7, <1>9 DEF s, abc, ab

-----------------------------------------------------------------------------
(* The first n sequences of s, joined.                                       *)
FirstOf(s, n) == FlattenSeq(SubSeq(s, 1, n))

(* Nothing joined is nothing.                                                *)
LEMMA FlattenEmpty == FlattenSeq(<<>>) = <<>>
<1>1. Len(<<>>) = 0
  BY EmptySeq
<1> QED BY <1>1 DEF FlattenSeq

(* The first sequences are a start of all of them.                           *)
LEMMA FirstIs ==
    ASSUME NEW S, NEW s \in Seq(Seq(S)), NEW n \in 0..Len(s)
    PROVE  /\ FirstOf(s, n) \in Seq(S)
           /\ IsPrefix(FirstOf(s, n), FlattenSeq(s))
           /\ Len(FirstOf(s, n)) <= Len(FlattenSeq(s))
<1> DEFINE all == FlattenSeq(s)
           t == SubSeq(s, 1, n)
<1>1. Len(s) \in Nat /\ n \in Nat /\ n <= Len(s)
  BY LenProperties
<1>2. all \in Seq(S) /\ Len(all) \in Nat
  BY FlattenType, LenProperties
<1>3. t \in Seq(Seq(S))
  BY <1>1, CutAndJoin
<1>4. FlattenSeq(t) \in Seq(S)
  <2> HIDE DEF t
  <2> QED BY <1>3, FlattenType
<1>5. IsPrefix(FlattenSeq(t), all)
  BY FlattenStart
<1> HIDE DEF t, all
<1>6. Len(FlattenSeq(t)) <= Len(all)
  BY <1>5 DEF IsPrefix
<1> QED BY <1>4, <1>5, <1>6 DEF FirstOf, t, all

(* None of them, and all.                                                    *)
LEMMA NoneAndAll ==
    ASSUME NEW S, NEW s \in Seq(Seq(S))
    PROVE  FirstOf(s, 0) = <<>> /\ FirstOf(s, Len(s)) = FlattenSeq(s)
<1>1. Len(s) \in Nat
  BY LenProperties
<1>2. SubSeq(s, 1, 0) = <<>>
  BY <1>1, SubSeqEmpty
<1>3. SubSeq(s, 1, Len(s)) = s
  BY SubSeqFull
<1> QED BY <1>2, <1>3, FlattenEmpty DEF FirstOf

(* b lies in s behind the first p elements.                                  *)
Lies(s, p, b) == p + Len(b) <= Len(s) /\ Carries(s, p, b, Len(b))

(* Behind a start that is followed by b lies b.                              *)
LEMMA LiesBehind ==
    ASSUME NEW S, NEW a \in Seq(S), NEW b \in Seq(S), NEW t, t = a \o b,
           NEW s \in Seq(S), IsPrefix(t, s)
    PROVE  Lies(s, Len(a), b)
<1>1. /\ Len(a) \in Nat /\ Len(b) \in Nat /\ Len(s) \in Nat
      /\ Len(t) = Len(a) + Len(b)
      /\ \A i \in 1..Len(b) : t[Len(a) + i] = b[i]
  <2>1. Len(a) \in Nat /\ Len(b) \in Nat /\ Len(s) \in Nat
    BY LenProperties
  <2>2. /\ Len(t) = Len(a) + Len(b)
        /\ \A i \in 1..Len(a)+Len(b) :
              t[i] = IF i <= Len(a) THEN a[i] ELSE b[i - Len(a)]
    BY ConcatProperties
  <2>3. ASSUME NEW i \in 1..Len(b) PROVE t[Len(a) + i] = b[i]
    <3>1. /\ Len(a) + i \in 1..Len(a)+Len(b) /\ ~(Len(a) + i <= Len(a))
          /\ Len(a) + i - Len(a) = i
      BY <2>1
    <3> QED BY <2>2, <3>1
  <2> QED BY <2>1, <2>2, <2>3
<1>2. Len(t) <= Len(s) /\ \A i \in 1..Len(t) : s[i] = t[i]
  BY DEF IsPrefix
<1>3. \A i \in 1..Len(b) : Len(a) + i \in 1..Len(t)
  BY <1>1
<1> QED BY <1>1, <1>2, <1>3 DEF Lies, Carries

(* The sequence after the first n lies behind them.                          *)
LEMMA NextOf ==
    ASSUME NEW S, NEW s \in Seq(Seq(S)), NEW n \in Nat, n < Len(s)
    PROVE  /\ FirstOf(s, n) \in Seq(S) /\ s[n + 1] \in Seq(S)
           /\ FirstOf(s, n + 1) = FirstOf(s, n) \o s[n + 1]
           /\ Lies(FlattenSeq(s), Len(FirstOf(s, n)), s[n + 1])
<1> DEFINE a == FirstOf(s, n)
           b == s[n + 1]
           t == FirstOf(s, n + 1)
           all == FlattenSeq(s)
<1>1. a \in Seq(S) /\ b \in Seq(S) /\ t = a \o b
  BY FlattenNext DEF FirstOf
<1>2. n + 1 \in 0..Len(s)
  BY LenProperties
<1>3. IsPrefix(t, all)
  BY <1>2, FirstIs
<1>4. all \in Seq(S)
  BY FlattenType
<1> HIDE DEF a, b, t, all
<1>5. Lies(all, Len(a), b)
  BY <1>1, <1>3, <1>4, LiesBehind
<1> QED BY <1>1, <1>5 DEF a, b, t, all

(* t is e in front of the sequences of s.                                    *)
Fronted(S, t, e, s) ==
    /\ t \in Seq(Seq(S)) /\ Len(t) = Len(s) + 1 /\ t[1] = e
    /\ \A i \in 1..Len(s) : t[i + 1] = s[i]
    /\ FlattenSeq(t) = e \o FlattenSeq(s)

(* One sequence in front of others.                                          *)
LEMMA FlattenCons ==
    ASSUME NEW S, NEW e \in Seq(S), NEW s \in Seq(Seq(S))
    PROVE  Fronted(S, <<e>> \o s, e, s)
<1> DEFINE t == <<e>> \o s
           Differ(n) == FirstOf(t, n + 1) # e \o FirstOf(s, n)
           T == {n \in 0..Len(s) : Differ(n)}
<1>1. Len(s) \in Nat /\ <<e>> \in Seq(Seq(S)) /\ Len(<<e>>) = 1 /\ <<e>>[1] = e
  BY LenProperties
<1>2. t \in Seq(Seq(S)) /\ Len(t) = Len(s) + 1
      /\ \A i \in 1..1+Len(s) : t[i] = IF i <= 1 THEN <<e>>[i] ELSE s[i - 1]
  BY <1>1, ConcatProperties
<1> HIDE DEF t
<1>3. t[1] = e /\ \A i \in 1..Len(s) : t[i + 1] = s[i]
  <2>1. 1 \in 1..1+Len(s) /\ t[1] = e
    BY <1>1, <1>2
  <2>2. ASSUME NEW i \in 1..Len(s) PROVE t[i + 1] = s[i]
    <3>1. i + 1 \in 1..1+Len(s) /\ ~(i + 1 <= 1) /\ i + 1 - 1 = i
      BY <1>1
    <3>2. PICK j \in 1..1+Len(s) : j = i + 1 /\ ~(j <= 1) /\ j - 1 = i
      BY <3>1
    <3>3. t[j] = s[j - 1]
      <4>1. \A k \in 1..1+Len(s) : t[k] = IF k <= 1 THEN <<e>>[k] ELSE s[k - 1]
        BY <1>2
      <4>2. t[j] = IF j <= 1 THEN <<e>>[j] ELSE s[j - 1]
        BY <4>1
      <4> QED BY <3>2, <4>2
    <3> QED BY <3>2, <3>3
  <2> QED BY <2>1, <2>2
<1>4. ~Differ(0)
  <2>1. FirstOf(s, 0) = <<>> /\ FirstOf(t, 0) = <<>>
    BY <1>2, NoneAndAll
  <2>2. FirstOf(t, 0 + 1) = FirstOf(t, 0) \o t[0 + 1]
    <3>1. 0 \in Nat /\ 0 < Len(t)
      BY <1>1, <1>2
    <3> QED BY <1>2, <3>1, NextOf
  <2>3. <<>> \o e = e /\ e \o <<>> = e
    BY ConcatEmptySeq
  <2>4. 0 + 1 = 1
    OBVIOUS
  <2> QED BY <1>3, <2>1, <2>2, <2>3, <2>4
<1>5. ASSUME NEW n \in Nat, n < Len(s), ~Differ(n) PROVE ~Differ(n + 1)
  <2>1. /\ FirstOf(s, n) \in Seq(S) /\ s[n + 1] \in Seq(S)
        /\ FirstOf(s, n + 1) = FirstOf(s, n) \o s[n + 1]
    BY <1>5, NextOf
  <2>2. FirstOf(t, n + 1 + 1) = FirstOf(t, n + 1) \o t[n + 1 + 1]
    <3>1. n + 1 \in Nat /\ n + 1 < Len(t)
      BY <1>1, <1>2, <1>5
    <3> QED BY <1>2, <3>1, NextOf
  <2>3. t[n + 1 + 1] = s[n + 1]
    <3>1. n + 1 \in 1..Len(s)
      BY <1>1, <1>5
    <3> QED BY <1>3, <3>1
  <2> DEFINE a == FirstOf(s, n)
             b == s[n + 1]
  <2>4. (e \o a) \o b = e \o (a \o b)
    <3>1. a \in Seq(S) /\ b \in Seq(S)
      BY <2>1
    <3> HIDE DEF a, b
    <3> QED BY <3>1, ConcatAssociative
  <2> QED BY <1>5, <2>1, <2>2, <2>3, <2>4
<1> HIDE DEF Differ
<1>6. T = {}
  <2> SUFFICES ASSUME T # {} PROVE FALSE
    OBVIOUS
  <2>1. T \in SUBSET Nat
    BY <1>1
  <2>2. PICK x \in T : \A y \in T : x <= y
    <3> HIDE DEF T
    <3> QED BY <2>1, Smallest
  <2>3. x \in 0..Len(s) /\ Differ(x)
    OBVIOUS
  <2>4. x # 0
    BY <1>4, <2>3
  <2>5. x - 1 \in Nat /\ x - 1 < Len(s) /\ x - 1 \in 0..Len(s) /\ ~(x <= x - 1)
        /\ x - 1 + 1 = x
    BY <1>1, <2>3, <2>4
  <2>6. ~Differ(x - 1)
    BY <2>2, <2>5
  <2> HIDE DEF T
  <2> QED BY <1>5, <2>3, <2>5, <2>6
<1>7. FirstOf(t, Len(s) + 1) = e \o FirstOf(s, Len(s))
  <2>1. Len(s) \in 0..Len(s)
    BY <1>1
  <2>2. ~Differ(Len(s))
    BY <1>6, <2>1
  <2> QED BY <2>2 DEF Differ
<1>8. FirstOf(t, Len(t)) = FlattenSeq(t) /\ FirstOf(s, Len(s)) = FlattenSeq(s)
  BY <1>2, NoneAndAll
<1> QED BY <1>2, <1>3, <1>7, <1>8 DEF t, Fronted
=============================================================================
