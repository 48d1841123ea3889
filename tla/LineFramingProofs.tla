--------------------------- MODULE LineFramingProofs ---------------------------
(***************************************************************************)
(* Proofs about LineFraming: how ever the stream of a client is cut, the   *)
(* server sees its lines, in order and each once, holds none back, and     *)
(* only drops the client for a line that is too long or passes that ended  *)
(* early.                                                                  *)
(***************************************************************************)
EXTENDS LineFraming, FiniteSetTheorems, SequenceTheorems, WellFoundedInduction, TLAPS

(* A set of numbers that is not empty has a least one.                     *)
LEMMA LeastElement ==
    ASSUME NEW T, T \subseteq Nat, T # {}
    PROVE  \E x \in T : \A y \in T : x <= y
<1>1. PICK R : IsWellFoundedOn(R, Nat) /\ \A x, y \in Nat : y < x => <<y, x>> \in R
  <2>1. \A x, y \in Nat : y < x => <<y, x>> \in OpToRel(<, Nat)
    BY DEF OpToRel
  <2>2. IsWellFoundedOn(OpToRel(<, Nat), Nat)
    BY NatLessThanWellFounded
  <2>3. QED
    BY <2>1, <2>2, Zenon
<1>2. PICK x \in T : \A y \in T : ~(<<y, x>> \in R)
  BY <1>1, WFMin, Zenon
<1>3. \A y \in T : ~(y < x)
  BY <1>1, <1>2
<1>4. QED
  BY <1>3

(* What is known of the two sizes.                                         *)
LEMMA SizeFacts == Size \in Nat /\ MaxLine \in Nat /\ MaxLine >= 1 /\ MaxLine < Size /\ MaxStream \in Nat
BY SizeAssumption DEF SizeAssumption

(* A bounded sequence of bytes is one of at most that length.              *)
LEMMA BytesUpToSize ==
    ASSUME NEW b, NEW n \in Nat
    PROVE  b \in BytesUpTo(n) <=> b \in Seq(Bytes) /\ Len(b) <= n
<1>1. b \in BytesUpTo(n) <=> \E m \in 0 .. n : b \in [1 .. m -> Bytes]
  BY DEF BytesUpTo, BoundedSeq, SeqOf
<1>2. ASSUME NEW m \in 0 .. n, b \in [1 .. m -> Bytes] PROVE b \in Seq(Bytes) /\ Len(b) <= n
  BY <1>2
<1>3. ASSUME b \in Seq(Bytes), Len(b) <= n PROVE \E m \in 0 .. n : b \in [1 .. m -> Bytes]
  <2>1. Len(b) \in 0 .. n /\ b \in [1 .. Len(b) -> Bytes]
    BY <1>3, LenProperties
  <2>2. QED
    BY <2>1
<1>4. QED
  BY <1>1, <1>2, <1>3

--------------------------------------------------------------------------------
(* The offsets Recv looks for.                                             *)

(* StartOffset is that of the first byte that ends no line.                *)
LEMMA StartOffsetFound ==
    ASSUME buffer \in Seq(Bytes)
    PROVE  /\ StartOffset \in 0 .. Len(buffer)
           /\ \A i \in 1 .. StartOffset : buffer[i] \in Ends
           /\ StartOffset < Len(buffer) => buffer[StartOffset + 1] \notin Ends
<1> DEFINE len == Len(buffer)
           T == {n \in 0 .. len : n < len => buffer[n + 1] \notin Ends}
           Start(n) == /\ \A i \in 1 .. n : buffer[i] \in Ends
                       /\ n < len => buffer[n + 1] \notin Ends
<1>1. len \in Nat
  BY LenProperties
<1>2. PICK n \in T : \A m \in T : n <= m
  <2>1. T \subseteq Nat /\ len \in T
    BY <1>1
  <2> HIDE DEF T
  <2>2. QED
    BY <2>1, LeastElement
<1>3. n \in 0 .. len /\ Start(n)
  <2>1. ASSUME NEW i \in 1 .. n PROVE buffer[i] \in Ends
    <3>1. i - 1 \in 0 .. len /\ i - 1 < len /\ ~(n <= i - 1) /\ (i - 1) + 1 = i
      BY <1>1, <1>2
    <3>2. i - 1 \notin T
      <4> HIDE DEF T
      <4> QED BY <1>2, <3>1
    <3>3. QED
      BY <3>1, <3>2
  <2>2. QED
    BY <1>2, <2>1
<1>4. StartOffset = CHOOSE k \in 0 .. len : Start(k)
  BY DEF StartOffset
<1>5. StartOffset \in 0 .. len /\ Start(StartOffset)
  <2> HIDE DEF Start
  <2> QED BY <1>3, <1>4
<1>6. QED
  BY <1>5

(* EndOffset is that of the first byte behind it that does.                *)
LEMMA EndOffsetFound ==
    ASSUME buffer \in Seq(Bytes), NEW n \in 0 .. Len(buffer)
    PROVE  /\ EndOffset(n) \in n .. Len(buffer)
           /\ \A i \in n + 1 .. EndOffset(n) : buffer[i] \notin Ends
           /\ EndOffset(n) < Len(buffer) => buffer[EndOffset(n) + 1] \in Ends
<1> DEFINE len == Len(buffer)
           T == {m \in n .. len : m < len => buffer[m + 1] \in Ends}
           End(m) == /\ \A i \in n + 1 .. m : buffer[i] \notin Ends
                     /\ m < len => buffer[m + 1] \in Ends
<1>1. len \in Nat
  BY LenProperties
<1>2. PICK m \in T : \A k \in T : m <= k
  <2>1. T \subseteq Nat /\ len \in T
    BY <1>1
  <2> HIDE DEF T
  <2>2. QED
    BY <2>1, LeastElement
<1>3. m \in n .. len /\ End(m)
  <2>1. ASSUME NEW i \in n + 1 .. m PROVE buffer[i] \notin Ends
    <3>1. i - 1 \in n .. len /\ i - 1 < len /\ ~(m <= i - 1) /\ (i - 1) + 1 = i
      BY <1>1, <1>2
    <3>2. i - 1 \notin T
      <4> HIDE DEF T
      <4> QED BY <1>2, <3>1
    <3>3. QED
      BY <3>1, <3>2
  <2>2. QED
    BY <1>2, <2>1
<1>4. EndOffset(n) = CHOOSE k \in n .. len : End(k)
  BY DEF EndOffset, OffsetOf
<1>5. EndOffset(n) \in n .. len /\ End(EndOffset(n))
  <2> HIDE DEF End
  <2> QED BY <1>3, <1>4
<1>6. QED
  BY <1>5

(* A buffer that starts with more than the longest line is TooLong.        *)
LEMMA TooLongInFront ==
    /\ buffer \in Seq(Bytes) /\ Len(buffer) > MaxLine
    /\ \A i \in 1 .. MaxLine + 1 : buffer[i] \notin Ends
    => TooLong
<1> SUFFICES ASSUME buffer \in Seq(Bytes), Len(buffer) > MaxLine,
                    \A i \in 1 .. MaxLine + 1 : buffer[i] \notin Ends
             PROVE  TooLong
  OBVIOUS
<1>1. Len(buffer) \in Nat /\ MaxLine \in Nat
  BY SizeFacts, LenProperties
<1>2. StartOffset = 0
  <2>1. StartOffset \in 0 .. Len(buffer) /\ \A i \in 1 .. StartOffset : buffer[i] \in Ends
    BY StartOffsetFound
  <2>2. StartOffset # 0 => 1 \in 1 .. StartOffset /\ 1 \in 1 .. MaxLine + 1
    BY <1>1, <2>1
  <2>3. QED
    BY <2>1, <2>2
<1>3. /\ EndOffset(0) \in 0 .. Len(buffer)
      /\ EndOffset(0) < Len(buffer) => buffer[EndOffset(0) + 1] \in Ends
  <2>1. 0 \in 0 .. Len(buffer)
    BY <1>1
  <2>2. QED
    BY <2>1, EndOffsetFound
<1>4. EndOffset(0) > MaxLine
  <2>1. EndOffset(0) <= MaxLine =>
           EndOffset(0) < Len(buffer) /\ EndOffset(0) + 1 \in 1 .. MaxLine + 1
    BY <1>1, <1>3
  <2>2. QED
    BY <1>1, <1>3, <2>1
<1>5. QED
  BY <1>2, <1>3, <1>4 DEF TooLong

--------------------------------------------------------------------------------
(* The stops of a stream, and the lines in front of them.                  *)

(* The stops of a stream can be counted.                                   *)
LEMMA StopsFinite ==
    ASSUME NEW s, NEW n \in Nat
    PROVE  IsFiniteSet(Stops(s, n)) /\ Cardinality(Stops(s, n)) \in Nat
<1>1. IsFiniteSet(2 .. n)
  BY FS_Interval
<1>2. Stops(s, n) \subseteq 2 .. n
  BY DEF Stops
<1>3. QED
  BY <1>1, <1>2, FS_Subset, FS_CardinalityType

(* There are no fewer stops in more of a stream.                           *)
LEMMA StopsGrow ==
    ASSUME NEW s, NEW m \in Nat, NEW n \in Nat, m <= n
    PROVE  /\ Stops(s, m) \subseteq Stops(s, n)
           /\ Cardinality(Stops(s, m)) <= Cardinality(Stops(s, n))
<1>1. Stops(s, m) \subseteq Stops(s, n)
  BY DEF Stops
<1>2. QED
  BY <1>1, StopsFinite, FS_Subset

(* The stop j is the last of those up to j.                                *)
LEMMA StopIsCounted ==
    ASSUME NEW s, NEW m \in Nat, NEW j \in Nat, m < j, j \in Stops(s, j),
           Stops(s, j) = Stops(s, m) \cup {j}
    PROVE  Cardinality(Stops(s, j)) = Cardinality(Stops(s, m)) + 1
<1>1. j \notin Stops(s, m)
  BY DEF Stops
<1>2. QED
  BY <1>1, StopsFinite, FS_AddElement

(* A later stop has a higher number.                                       *)
LEMMA StopsRanked ==
    ASSUME NEW s, NEW n \in Nat, NEW i \in Stops(s, n), NEW j \in Stops(s, n), i < j
    PROVE  Cardinality(Stops(s, i)) < Cardinality(Stops(s, j))
<1>1. i \in Nat /\ j \in Nat /\ j - 1 \in Nat /\ i <= j - 1 /\ j - 1 < j
  BY DEF Stops
<1>2. Stops(s, j) = Stops(s, j - 1) \cup {j} /\ j \in Stops(s, j)
  BY <1>1 DEF Stops
<1>3. Cardinality(Stops(s, j)) = Cardinality(Stops(s, j - 1)) + 1
  BY <1>1, <1>2, StopIsCounted
<1>4. Cardinality(Stops(s, i)) <= Cardinality(Stops(s, j - 1))
  BY <1>1, StopsGrow
<1>5. Cardinality(Stops(s, i)) \in Nat /\ Cardinality(Stops(s, j - 1)) \in Nat
  BY <1>1, StopsFinite
<1>6. QED
  BY <1>3, <1>4, <1>5

(* Every rank up to the number of stops is that of a stop.                 *)
LEMMA StopOfRank ==
    ASSUME NEW s, NEW n \in Nat, NEW r \in 1 .. Cardinality(Stops(s, n))
    PROVE  \E j \in Stops(s, n) : Cardinality(Stops(s, j)) = r
<1> DEFINE T == {k \in 0 .. n : Cardinality(Stops(s, k)) >= r}
<1>1. Cardinality(Stops(s, n)) \in Nat
  BY StopsFinite
<1>2. PICK j \in T : \A k \in T : j <= k
  <2>1. T \subseteq Nat /\ n \in T
    BY <1>1
  <2> HIDE DEF T
  <2>2. QED
    BY <2>1, LeastElement
<1>3. j \in Nat /\ j <= n /\ Cardinality(Stops(s, j)) >= r /\ Cardinality(Stops(s, j)) \in Nat
  BY <1>2, StopsFinite
<1>4. j # 0
  <2>1. Stops(s, 0) = {}
    BY DEF Stops
  <2>2. Cardinality(Stops(s, 0)) = 0
    BY <2>1, FS_EmptySet
  <2>3. QED
    BY <1>1, <1>3, <2>2
<1>5. j - 1 \in Nat /\ Cardinality(Stops(s, j - 1)) < r /\ Cardinality(Stops(s, j - 1)) \in Nat
  <2>1. j - 1 \in 0 .. n /\ ~(j <= j - 1)
    BY <1>3, <1>4
  <2>2. j - 1 \notin T
    <3> HIDE DEF T
    <3> QED BY <1>2, <2>1
  <2>3. Cardinality(Stops(s, j - 1)) \in Nat
    BY <2>1, StopsFinite
  <2>4. QED
    BY <1>1, <2>1, <2>2, <2>3
<1>6. j \in Stops(s, j)
  <2>1. j \notin Stops(s, j) => Stops(s, j) = Stops(s, j - 1)
    BY <1>3, <1>4 DEF Stops
  <2>2. QED
    BY <1>1, <1>3, <1>5, <2>1
<1>7. Cardinality(Stops(s, j)) = Cardinality(Stops(s, j - 1)) + 1
  <2>1. Stops(s, j) = Stops(s, j - 1) \cup {j} /\ j - 1 < j
    BY <1>3, <1>4, <1>6 DEF Stops
  <2>2. QED
    BY <1>3, <1>5, <1>6, <2>1, StopIsCounted
<1>8. j \in Stops(s, n)
  BY <1>3, <1>6, StopsGrow
<1>9. QED
  BY <1>1, <1>3, <1>5, <1>7, <1>8

(* The maximal stretch in front of a stop is unique.                       *)
LEMMA LineBeforeIs ==
    ASSUME NEW s, NEW j \in Nat, NEW i \in 1 .. j - 1,
           \A k \in i .. j - 1 : s[k] \notin Ends, i > 1 => s[i - 1] \in Ends
    PROVE  LineBefore(s, j) = SubSeq(s, i, j - 1)
<1> DEFINE First(h) == /\ \A k \in h .. j - 1 : s[k] \notin Ends
                       /\ h > 1 => s[h - 1] \in Ends
           f == CHOOSE h \in 1 .. j - 1 : First(h)
<1>1. First(i)
  OBVIOUS
<1>2. ASSUME NEW h \in 1 .. j - 1, First(h) PROVE h = i
  <2>1. CASE h < i
    <3>1. i > 1 /\ i - 1 \in h .. j - 1
      BY <2>1
    <3>2. QED
      BY <1>2, <3>1
  <2>2. CASE h > i
    <3>1. h > 1 /\ h - 1 \in i .. j - 1
      BY <2>2
    <3>2. QED
      BY <1>2, <3>1
  <2>3. QED
    BY <2>1, <2>2
<1>3. f \in 1 .. j - 1 /\ First(f)
  <2> HIDE DEF First
  <2> QED BY <1>1
<1>4. f = i
  BY <1>2, <1>3
<1>5. LineBefore(s, j) = SubSeq(s, f, j - 1)
  BY DEF LineBefore
<1>6. QED
  BY <1>4, <1>5

(* There is one in front of every stop.                                    *)
LEMMA StopHasLine ==
    ASSUME NEW s, NEW n \in Nat, NEW j \in Stops(s, n)
    PROVE  \E i \in 1 .. j - 1 : /\ \A k \in i .. j - 1 : s[k] \notin Ends
                                 /\ i > 1 => s[i - 1] \in Ends
<1>1. j \in Nat /\ j - 1 \in 1 .. j - 1 /\ s[j - 1] \notin Ends
  BY DEF Stops
<1> DEFINE T == {i \in 1 .. j - 1 : \A k \in i .. j - 1 : s[k] \notin Ends}
<1>2. PICK i \in T : \A h \in T : i <= h
  <2>1. T \subseteq Nat /\ j - 1 \in T
    BY <1>1
  <2> HIDE DEF T
  <2>2. QED
    BY <2>1, LeastElement
<1>3. i > 1 => s[i - 1] \in Ends
  <2> SUFFICES ASSUME i > 1, s[i - 1] \notin Ends PROVE FALSE
    OBVIOUS
  <2>1. i \in 1 .. j - 1 /\ i - 1 \in 1 .. j - 1 /\ ~(i <= i - 1)
    BY <1>1, <1>2
  <2>2. \A k \in i - 1 .. j - 1 : k = i - 1 \/ k \in i .. j - 1
    BY <2>1
  <2>3. i - 1 \in T
    BY <1>2, <2>1, <2>2
  <2> HIDE DEF T
  <2>4. QED
    BY <1>2, <2>1, <2>3
<1>4. QED
  BY <1>2, <1>3

(* Two streams have the same bytes up to n.                                *)
Agree(s, t, n) == \A i \in 1 .. n : s[i] = t[i]

(* What is appended to a stream does not change its stops.                 *)
LEMMA StopsAgree ==
    ASSUME NEW s, NEW t, NEW n \in Nat, Agree(s, t, n), NEW m \in 0 .. n
    PROVE  Stops(s, m) = Stops(t, m)
BY DEF Stops, Agree

(* Nor the lines in front of them.                                         *)
LEMMA LineBeforeAgrees ==
    ASSUME NEW s \in Seq(Bytes), NEW t \in Seq(Bytes), NEW n \in Nat,
           n <= Len(s), n <= Len(t), Agree(s, t, n), NEW j \in Stops(s, n)
    PROVE  LineBefore(s, j) = LineBefore(t, j)
<1>1. j \in Nat /\ j <= n
  BY DEF Stops
<1>2. PICK i \in 1 .. j - 1 : /\ \A k \in i .. j - 1 : s[k] \notin Ends
                              /\ i > 1 => s[i - 1] \in Ends
  BY StopHasLine
<1>3. LineBefore(s, j) = SubSeq(s, i, j - 1)
  BY <1>1, <1>2, LineBeforeIs
<1>4. LineBefore(t, j) = SubSeq(t, i, j - 1)
  <2>1. /\ \A k \in i .. j - 1 : t[k] \notin Ends
        /\ i > 1 => t[i - 1] \in Ends
    BY <1>1, <1>2 DEF Agree
  <2>2. QED
    BY <1>1, <2>1, LineBeforeIs
<1>5. SubSeq(s, i, j - 1) = SubSeq(t, i, j - 1)
  <2>1. Len(s) \in Nat /\ Len(t) \in Nat /\ i \in Int /\ j - 1 \in Int
    BY <1>1, LenProperties
  <2>2. \A k \in i .. j - 1 : s[k] \in Bytes /\ t[k] \in Bytes /\ s[k] = t[k]
    <3> TAKE k \in i .. j - 1
    <3>1. k \in 1 .. Len(s) /\ k \in 1 .. Len(t) /\ k \in 1 .. n
      BY <1>1, <2>1
    <3>2. s[k] \in Bytes /\ t[k] \in Bytes
      BY <3>1, ElementOfSeq
    <3>3. QED
      BY <3>1, <3>2 DEF Agree
  <2>3. /\ SubSeq(s, i, j - 1) \in Seq(Bytes) /\ Len(SubSeq(s, i, j - 1)) = (j - 1) - i + 1
        /\ \A k \in 1 .. (j - 1) - i + 1 : SubSeq(s, i, j - 1)[k] = s[i + k - 1]
    BY <1>1, <2>1, <2>2, SubSeqProperties
  <2>4. /\ SubSeq(t, i, j - 1) \in Seq(Bytes) /\ Len(SubSeq(t, i, j - 1)) = (j - 1) - i + 1
        /\ \A k \in 1 .. (j - 1) - i + 1 : SubSeq(t, i, j - 1)[k] = t[i + k - 1]
    BY <1>1, <2>1, <2>2, SubSeqProperties
  <2>5. \A k \in 1 .. (j - 1) - i + 1 : i + k - 1 \in i .. j - 1
    BY <1>1
  <2>6. QED
    BY <2>2, <2>3, <2>4, <2>5, SeqEqual
<1>6. QED
  BY <1>3, <1>4, <1>5

(* The lines ls are those of the stream s that stop within its first n     *)
(* bytes.                                                                  *)
LinesTo(ls, s, n) ==
    /\ Len(ls) = Cardinality(Stops(s, n))
    /\ \A j \in Stops(s, n) : ls[Cardinality(Stops(s, j))] = LineBefore(s, j)

Lines == Seq(Bytes \ Ends)

(* Lines of a stream are lines of its continuation.                        *)
LEMMA LinesToAgree ==
    ASSUME NEW s \in Seq(Bytes), NEW t \in Seq(Bytes), NEW n \in Nat,
           n <= Len(s), n <= Len(t), Agree(s, t, n), NEW ls, LinesTo(ls, s, n)
    PROVE  LinesTo(ls, t, n)
<1>1. Stops(t, n) = Stops(s, n)
  BY StopsAgree
<1>2. ASSUME NEW j \in Stops(s, n)
      PROVE  Stops(t, j) = Stops(s, j) /\ LineBefore(t, j) = LineBefore(s, j)
  <2>1. j \in 0 .. n
    BY DEF Stops
  <2>2. QED
    BY <2>1, StopsAgree, LineBeforeAgrees
<1>3. QED
  BY <1>1, <1>2 DEF LinesTo

(* The next line belongs to the next stop.                                 *)
LEMMA LinesToAppend ==
    ASSUME NEW s, NEW n \in Nat, NEW j \in Nat, n < j, j \in Stops(s, j),
           Stops(s, j) = Stops(s, n) \cup {j}, NEW ls \in Seq(Lines), LinesTo(ls, s, n),
           NEW line \in Lines, line = LineBefore(s, j)
    PROVE  LinesTo(Append(ls, line), s, j)
<1> DEFINE c == Cardinality(Stops(s, n))
<1>1. Cardinality(Stops(s, j)) = c + 1 /\ c \in Nat /\ Len(ls) = c
  BY StopIsCounted, StopsFinite DEF LinesTo
<1>2. /\ Len(Append(ls, line)) = c + 1 /\ Append(ls, line)[c + 1] = line
      /\ \A i \in 1 .. c : Append(ls, line)[i] = ls[i]
  BY <1>1, AppendProperties
<1>3. ASSUME NEW i \in Stops(s, n)
      PROVE  Append(ls, line)[Cardinality(Stops(s, i))] = LineBefore(s, i)
  <2>1. i \in Nat /\ i <= n /\ i \in Stops(s, i)
    BY DEF Stops
  <2>2. Cardinality(Stops(s, i)) <= c /\ Cardinality(Stops(s, i)) \in Nat
    BY <2>1, StopsGrow, StopsFinite
  <2>3. Cardinality(Stops(s, i)) # 0
    BY <2>1, StopsFinite, FS_EmptySet
  <2>4. Cardinality(Stops(s, i)) \in 1 .. c
    BY <1>1, <2>2, <2>3
  <2>5. QED
    BY <1>2, <2>4 DEF LinesTo
<1>4. QED
  BY <1>1, <1>2, <1>3 DEF LinesTo

(* The n-th stop of the whole stream is where its n-th line ends.          *)
LEMMA LinesToOfStream ==
    ASSUME NEW s \in Seq(Bytes), NEW n \in 0 .. Len(s), NEW ls, LinesTo(ls, s, n)
    PROVE  \A r \in 1 .. Len(ls) : /\ r \in 1 .. Cardinality(Stops(s, Len(s)))
                                   /\ ls[r] = LinesOf(s)[r]
<1> SUFFICES ASSUME NEW r \in 1 .. Len(ls)
             PROVE  r \in 1 .. Cardinality(Stops(s, Len(s))) /\ ls[r] = LinesOf(s)[r]
  OBVIOUS
<1> DEFINE stops == Stops(s, Len(s))
           Rank(j) == Cardinality(Stops(s, j))
           pick == CHOOSE j \in stops : Rank(j) = r
<1>1. Len(s) \in Nat /\ n \in Nat /\ n <= Len(s)
  BY LenProperties
<1>2. r \in 1 .. Cardinality(Stops(s, n))
  BY DEF LinesTo
<1>3. PICK j \in Stops(s, n) : Rank(j) = r
  BY <1>1, <1>2, StopOfRank
<1>4. j \in stops
  BY <1>1, StopsGrow
<1>5. r \in 1 .. Cardinality(stops)
  <2>1. /\ Cardinality(Stops(s, n)) <= Cardinality(stops)
        /\ Cardinality(Stops(s, n)) \in Nat /\ Cardinality(stops) \in Nat
    BY <1>1, StopsGrow, StopsFinite
  <2>2. QED
    BY <1>2, <2>1
<1>6. pick \in stops /\ Rank(pick) = r
  <2> HIDE DEF Rank, stops
  <2> QED BY <1>3, <1>4
<1>7. pick = j
  <2>1. pick \in Nat /\ j \in Nat
    BY <1>4, <1>6 DEF Stops
  <2>2. pick < j => Rank(pick) < Rank(j)
    BY <1>1, <1>4, <1>6, StopsRanked
  <2>3. j < pick => Rank(j) < Rank(pick)
    BY <1>1, <1>4, <1>6, StopsRanked
  <2>4. r \in Nat
    BY <1>5, StopsFinite, <1>1
  <2> HIDE DEF pick, Rank
  <2>5. QED
    BY <1>3, <1>6, <2>1, <2>2, <2>3, <2>4
<1>8. LinesOf(s)[r] = LineBefore(s, pick)
  BY <1>5 DEF LinesOf
<1>9. ls[r] = LineBefore(s, j)
  BY <1>3 DEF LinesTo
<1>10. QED
  BY <1>5, <1>7, <1>8, <1>9

(* Lines up to n are the first lines, and all if no stop is left.          *)
LEMMA LinesToIsPrefix ==
    ASSUME NEW s \in Seq(Bytes), NEW n \in 0 .. Len(s), NEW ls \in Seq(Lines), LinesTo(ls, s, n)
    PROVE  /\ IsPrefix(ls, LinesOf(s))
           /\ Stops(s, n) = Stops(s, Len(s)) => ls = LinesOf(s)
<1> DEFINE all == LinesOf(s)
           c == Cardinality(Stops(s, Len(s)))
           k == Len(ls)
<1>1. \A r \in 1 .. k : r \in 1 .. c /\ ls[r] = all[r]
  BY LinesToOfStream
<1>2. Len(s) \in Nat /\ c \in Nat /\ k \in Nat
  BY LenProperties, StopsFinite
<1>3. k = Cardinality(Stops(s, n)) /\ k <= c
  BY <1>2, StopsGrow DEF LinesTo
<1>4. all = [r \in 1 .. c |-> all[r]]
  BY DEF LinesOf
<1> HIDE DEF all, c, k
<1>5. Len(all) = c
  BY <1>2, <1>4
<1>6. SubSeq(ls, 1, k) = ls
  BY SubSeqFull DEF k
<1>7. SubSeq(all, 1, k) = ls
  <2>1. \A i \in 1 .. k : ls[i] \in Lines
    BY ElementOfSeq DEF k
  <2>2. \A i \in 1 .. k : all[i] \in Lines
    BY <1>1, <2>1
  <2>3. /\ SubSeq(all, 1, k) \in Seq(Lines)
        /\ Len(SubSeq(all, 1, k)) = IF 1 <= k THEN k - 1 + 1 ELSE 0
        /\ \A i \in 1 .. k - 1 + 1 : SubSeq(all, 1, k)[i] = all[1 + i - 1]
    BY <1>2, <2>2, SubSeqProperties
  <2>4. Len(SubSeq(all, 1, k)) = k /\ \A i \in 1 .. k : SubSeq(all, 1, k)[i] = ls[i]
    BY <1>1, <1>2, <2>3
  <2>5. QED
    BY <2>3, <2>4, SeqEqual DEF k
<1>8. IsPrefix(ls, all)
  BY <1>3, <1>5, <1>6, <1>7 DEF IsPrefix, k
<1>9. ASSUME Stops(s, n) = Stops(s, Len(s)) PROVE ls = all
  <2>1. k = c
    BY <1>3, <1>9 DEF c
  <2>2. ls = [r \in 1 .. k |-> ls[r]]
    BY LenProperties DEF k
  <2>3. QED
    BY <1>1, <1>4, <2>1, <2>2
<1>10. QED
  BY <1>8, <1>9 DEF all

--------------------------------------------------------------------------------
(* The inductive invariant.                                                *)

(* The bytes of the stream in front of the buffer; and those whose stops   *)
(* have been seen: a line that was taken out leaves the first byte of its  *)
(* end in the buffer.                                                      *)
Offset == Len(stream) - Len(buffer)
Seen == IF buffer # <<>> /\ buffer[1] \in Ends THEN Offset + 1 ELSE Offset

InStream == Offset >= 0 /\ \A i \in 1 .. Len(buffer) : buffer[i] = stream[Offset + i]

SeenToEnd == Seen > 0 => stream[Seen] \in Ends

Quiet == \A i \in 1 .. Len(buffer) : buffer[i] \notin Ends

QuietAfterPass == pc = "update" /\ state = "ONLINE" /\ ~skipped => Quiet \/ TooLong

FramingInv ==
    /\ TypeOK /\ InStream /\ SeenToEnd
    /\ LinesTo(lines, stream, Seen)
    /\ QuietAfterPass /\ OverflowIsTooLong

(* The types of the three sequences.                                       *)
LEMMA TypedBuffer ==
    TypeOK => /\ buffer \in Seq(Bytes) /\ Len(buffer) \in Nat /\ Len(buffer) <= Size
              /\ stream \in Seq(Bytes) /\ Len(stream) \in Nat
              /\ lines \in Seq(Lines)
<1> SUFFICES ASSUME TypeOK
             PROVE  /\ buffer \in Seq(Bytes) /\ Len(buffer) \in Nat /\ Len(buffer) <= Size
                    /\ stream \in Seq(Bytes) /\ Len(stream) \in Nat
                    /\ lines \in Seq(Lines)
  OBVIOUS
<1>1. buffer \in BytesUpTo(Size) /\ stream \in Seq(Bytes) /\ lines \in Seq(Lines)
  BY DEF TypeOK, Lines
<1>2. buffer \in Seq(Bytes) /\ Len(buffer) <= Size
  BY <1>1, SizeFacts, BytesUpToSize
<1>3. QED
  BY <1>1, <1>2, LenProperties

(* What is left of the buffer behind its first n bytes.                    *)
LEMMA BufferBehind ==
    ASSUME buffer \in Seq(Bytes), Len(buffer) <= Size, NEW n \in 0 .. Len(buffer)
    PROVE  LET left == SubSeq(buffer, n + 1, Len(buffer))
           IN  /\ left \in Seq(Bytes) /\ Len(left) = Len(buffer) - n
               /\ left \in BytesUpTo(Size)
               /\ \A i \in 1 .. Len(buffer) - n : left[i] = buffer[n + i]
<1> DEFINE left == SubSeq(buffer, n + 1, Len(buffer))
           len == Len(buffer)
<1>1. len \in Nat /\ n + 1 \in Int /\ len \in Int
  BY LenProperties
<1>2. \A i \in n + 1 .. len : buffer[i] \in Bytes
  BY <1>1, ElementOfSeq
<1>3. /\ left \in Seq(Bytes)
      /\ Len(left) = IF n + 1 <= len THEN len - (n + 1) + 1 ELSE 0
      /\ \A i \in 1 .. len - (n + 1) + 1 : left[i] = buffer[(n + 1) + i - 1]
  BY <1>1, <1>2, SubSeqProperties
<1>4. Len(left) = len - n
  BY <1>1, <1>3
<1>5. \A i \in 1 .. len - n : left[i] = buffer[n + i]
  BY <1>1, <1>3
<1>6. left \in BytesUpTo(Size)
  <2>1. Size \in Nat /\ Len(left) <= Size
    BY <1>1, <1>4, SizeFacts
  <2> HIDE DEF left
  <2>2. QED
    BY <1>3, <2>1, BytesUpToSize
<1>7. QED
  BY <1>3, <1>4, <1>5, <1>6

(* What Recv finds in the buffer, told of the stream.                      *)
Found(start, end) ==
    LET o == Offset
        len == Len(buffer)
    IN  /\ o \in Nat /\ len \in Nat /\ o + len = Len(stream)
        /\ start \in 0 .. len /\ end \in start .. len
        /\ start < len => start < end
        /\ \A i \in o + 1 .. o + start : stream[i] \in Ends
        /\ \A i \in o + start + 1 .. o + end : stream[i] \notin Ends
        /\ end < len => stream[o + end + 1] \in Ends
        /\ Seen = IF start > 0 THEN o + 1 ELSE o
        /\ Seen \in Nat /\ (Seen > 0 => stream[Seen] \in Ends)

(* The two offsets of Recv, told of the stream.                            *)
LEMMA RecvFinds ==
    ASSUME TypeOK, InStream, SeenToEnd
    PROVE  Found(StartOffset, EndOffset(StartOffset))
<1> DEFINE start == StartOffset
           end == EndOffset(start)
           o == Offset
           len == Len(buffer)
<1>1. /\ buffer \in Seq(Bytes) /\ len \in Nat /\ stream \in Seq(Bytes) /\ Len(stream) \in Nat
  BY TypedBuffer
<1>2. /\ o \in Nat /\ o + len = Len(stream)
      /\ \A i \in 1 .. len : buffer[i] = stream[o + i]
  BY <1>1 DEF InStream, Offset
<1>3. /\ start \in 0 .. len /\ \A i \in 1 .. start : buffer[i] \in Ends
      /\ start < len => buffer[start + 1] \notin Ends
  BY <1>1, StartOffsetFound
<1>4. /\ end \in start .. len /\ \A i \in start + 1 .. end : buffer[i] \notin Ends
      /\ end < len => buffer[end + 1] \in Ends
  BY <1>1, <1>3, EndOffsetFound
<1>5. Seen = IF start > 0 THEN o + 1 ELSE o
  <2>1. buffer = <<>> => len = 0
    BY EmptySeq
  <2>2. buffer # <<>> => len # 0
    BY <1>1, EmptySeq
  <2>3. CASE start > 0
    <3>1. len # 0 /\ 1 \in 1 .. start
      BY <1>1, <1>3, <2>3
    <3>2. buffer # <<>> /\ buffer[1] \in Ends
      BY <1>3, <2>1, <3>1
    <3>3. QED
      BY <2>3, <3>2 DEF Seen
  <2>4. CASE start = 0
    <3>1. buffer # <<>> => buffer[1] \notin Ends
      BY <1>1, <1>3, <2>2, <2>4
    <3>2. QED
      BY <2>4, <3>1 DEF Seen
  <2>5. QED
    BY <1>3, <2>3, <2>4
<1> HIDE DEF start, end, o, len
<1>6. start < len => start < end
  BY <1>1, <1>3, <1>4
<1>7. \A i \in o + 1 .. o + start : stream[i] \in Ends
  <2> TAKE i \in o + 1 .. o + start
  <2>1. i - o \in 1 .. start /\ i - o \in 1 .. len /\ o + (i - o) = i
    BY <1>1, <1>2, <1>3
  <2>2. QED
    BY <1>2, <1>3, <2>1
<1>8. \A i \in o + start + 1 .. o + end : stream[i] \notin Ends
  <2> TAKE i \in o + start + 1 .. o + end
  <2>1. i - o \in start + 1 .. end /\ i - o \in 1 .. len /\ o + (i - o) = i
    BY <1>1, <1>2, <1>3, <1>4
  <2>2. QED
    BY <1>2, <1>4, <2>1
<1>9. end < len => stream[o + end + 1] \in Ends
  <2> SUFFICES ASSUME end < len PROVE stream[o + end + 1] \in Ends
    OBVIOUS
  <2>1. end + 1 \in 1 .. len /\ o + (end + 1) = o + end + 1
    BY <1>1, <1>2, <1>3, <1>4
  <2>2. QED
    BY <1>2, <1>4, <2>1
<1>10. Seen \in Nat /\ (Seen > 0 => stream[Seen] \in Ends)
  BY <1>2, <1>5 DEF SeenToEnd
<1>11. QED
  BY <1>1, <1>2, <1>3, <1>4, <1>5, <1>6, <1>7, <1>8, <1>9, <1>10 DEF Found, start, end, o, len

(* The ends in front of a line, and its own bytes, add no stop.            *)
LEMMA NoStopBeforeEnd ==
    ASSUME NEW start, NEW end, Found(start, end)
    PROVE  /\ Stops(stream, Offset + start) = Stops(stream, Seen)
           /\ Stops(stream, Offset + end) = Stops(stream, Seen)
           /\ Offset + start > 0 => stream[Offset + start] \in Ends
<1> DEFINE o == Offset
           len == Len(buffer)
<1>1. /\ o \in Nat /\ len \in Nat /\ o + len = Len(stream)
      /\ start \in 0 .. len /\ end \in start .. len
      /\ \A i \in o + 1 .. o + start : stream[i] \in Ends
      /\ \A i \in o + start + 1 .. o + end : stream[i] \notin Ends
      /\ Seen = IF start > 0 THEN o + 1 ELSE o
      /\ (Seen > 0 => stream[Seen] \in Ends)
  BY DEF Found
<1> HIDE DEF o, len
<1>2. ASSUME NEW j \in Stops(stream, o + end) PROVE j \in 2 .. Seen
  <2>1. j \in 2 .. o + end /\ stream[j] \in Ends /\ stream[j - 1] \notin Ends
    BY DEF Stops
  <2>2. ~(j \in o + start + 1 .. o + end)
    BY <1>1, <2>1
  <2>3. j \in 2 .. o + start
    BY <1>1, <2>1, <2>2
  <2>4. ~(j - 1 \in o + 1 .. o + start)
    BY <1>1, <2>1
  <2>5. j <= o + 1
    BY <1>1, <2>3, <2>4
  <2>6. QED
    BY <1>1, <2>3, <2>5
<1>3. Seen <= o + start /\ o + start <= o + end /\ Seen \in Nat
  BY <1>1
<1>4. Stops(stream, o + start) \subseteq Stops(stream, o + end)
  BY <1>1, <1>3 DEF Stops
<1>5. Stops(stream, Seen) \subseteq Stops(stream, o + start)
  BY <1>1, <1>3 DEF Stops
<1>6. Stops(stream, o + end) \subseteq Stops(stream, Seen)
  <2> SUFFICES ASSUME NEW j \in Stops(stream, o + end) PROVE j \in Stops(stream, Seen)
    OBVIOUS
  <2>1. j \in 2 .. Seen /\ stream[j] \in Ends /\ stream[j - 1] \notin Ends
    BY <1>2 DEF Stops
  <2>2. QED
    BY <2>1 DEF Stops
<1>7. o + start > 0 => stream[o + start] \in Ends
  <2>1. start > 0 => o + start \in o + 1 .. o + start
    BY <1>1
  <2>2. start = 0 => o + start = Seen
    BY <1>1
  <2>3. QED
    BY <1>1, <2>1, <2>2
<1>8. QED
  BY <1>4, <1>5, <1>6, <1>7 DEF o

--------------------------------------------------------------------------------
(* The invariant holds at first and is kept by every step.                 *)

(* A new connection has no byte and no line.                               *)
LEMMA EmptyBuffer ==
    ASSUME buffer = <<>>, stream = <<>>, lines = <<>>
    PROVE  InStream /\ SeenToEnd /\ LinesTo(lines, stream, Seen) /\ Quiet
<1>1. Len(buffer) = 0 /\ Len(stream) = 0 /\ Len(lines) = 0
  BY EmptySeq
<1>2. Offset = 0 /\ Seen = 0
  BY <1>1 DEF Offset, Seen
<1>3. Stops(stream, 0) = {}
  BY DEF Stops
<1>4. Cardinality(Stops(stream, 0)) = 0
  BY <1>3, FS_EmptySet
<1>5. LinesTo(lines, stream, Seen)
  BY <1>1, <1>2, <1>3, <1>4 DEF LinesTo
<1>6. InStream /\ SeenToEnd /\ Quiet
  BY <1>1, <1>2 DEF InStream, SeenToEnd, Quiet
<1>7. QED
  BY <1>5, <1>6

(* The lemma about the state of the next step.                             *)
LEMMA EmptyBufferHolds ==
    buffer = <<>> /\ stream = <<>> /\ lines = <<>> =>
        InStream /\ SeenToEnd /\ LinesTo(lines, stream, Seen) /\ Quiet
BY EmptyBuffer

(* The empty sequence of bytes, and of lines.                              *)
LEMMA NothingIn ==
    <<>> \in BytesUpTo(Size) /\ <<>> \in Seq(Bytes) /\ <<>> \in Seq(Seq(Bytes \ Ends))
<1>1. <<>> \in Seq(Bytes) /\ <<>> \in Seq(Seq(Bytes \ Ends)) /\ Len(<<>>) = 0
  BY EmptySeq
<1>2. <<>> \in Seq(Bytes) /\ Len(<<>>) <= Size
  BY <1>1, SizeFacts
<1>3. <<>> \in BytesUpTo(Size)
  BY <1>2, SizeFacts, BytesUpToSize, Zenon
<1>4. QED
  BY <1>1, <1>3

(* A line ending may be one byte.                                          *)
LEMMA OneEnd == ASSUME NEW e \in Ends PROVE <<e>> \in Seq(Ends) /\ Len(<<e>>) = 1
OBVIOUS

(* The invariant holds for a new connection.                               *)
LEMMA InitHolds == Init => FramingInv
<1> SUFFICES ASSUME Init PROVE FramingInv
  OBVIOUS
<1> USE DEF Init
<1>1. <<"LF">> \in Seq(Ends) /\ Len(<<"LF">>) = 1
  BY OneEnd DEF Ends
<1>2. TypeOK
  <2>1. Len(<<"LF">>) \in 1 .. 2
    BY <1>1
  <2>2. ending \in Seq(Ends) /\ Len(ending) \in 1 .. 2
    BY <1>1, <2>1, Zenon
  <2>3. buffer \in BytesUpTo(Size) /\ stream \in Seq(Bytes) /\ lines \in Seq(Seq(Bytes \ Ends))
    BY NothingIn, Zenon
  <2>4. QED
    BY <2>2, <2>3, Zenon DEF TypeOK
<1>3. InStream /\ SeenToEnd /\ LinesTo(lines, stream, Seen) /\ Quiet
  BY EmptyBuffer
<1>4. QED
  BY <1>2, <1>3 DEF FramingInv, QuietAfterPass, OverflowIsTooLong

(* It holds for the next client in the slot.                               *)
LEMMA ResetKeeps ==
    ASSUME FramingInv, Reset
    PROVE  FramingInv'
<1> USE DEF Reset
<1>1. <<"LF">> \in Seq(Ends) /\ Len(<<"LF">>) = 1
  BY OneEnd DEF Ends
<1>2. TypeOK'
  <2>1. Len(<<"LF">>) \in 1 .. 2
    BY <1>1
  <2>2. (ending \in Seq(Ends) /\ Len(ending) \in 1 .. 2)'
    BY <1>1, <2>1, Zenon
  <2>3. (buffer \in BytesUpTo(Size) /\ stream \in Seq(Bytes) /\ lines \in Seq(Seq(Bytes \ Ends)))'
    BY NothingIn, Zenon
  <2>4. QED
    BY <2>2, <2>3, Zenon DEF TypeOK
<1>3. (InStream /\ SeenToEnd /\ LinesTo(lines, stream, Seen) /\ Quiet)'
  <2>1. (buffer = <<>> /\ stream = <<>> /\ lines = <<>>)'
    OBVIOUS
  <2>2. QED
    BY <2>1, EmptyBufferHolds, PTL
<1>4. QED
  BY <1>2, <1>3 DEF FramingInv, QuietAfterPass, OverflowIsTooLong

(* A step that leaves the bytes alone keeps all but what is said of passes.*)
LEMMA BytesUnchanged ==
    ASSUME InStream, SeenToEnd, LinesTo(lines, stream, Seen), UNCHANGED <<buffer, stream, lines>>
    PROVE  /\ (InStream /\ SeenToEnd /\ LinesTo(lines, stream, Seen))'
           /\ Quiet' = Quiet /\ TooLong' = TooLong
<1>1. Offset' = Offset
  BY DEF Offset
<1>2. Seen' = Seen
  BY <1>1 DEF Seen
<1>3. InStream' /\ SeenToEnd' /\ Quiet' = Quiet
  BY <1>1, <1>2 DEF InStream, SeenToEnd, Quiet
<1>4. LinesTo(lines, stream, Seen)'
  BY <1>2
<1>5. TooLong' = TooLong
  BY DEF TooLong, StartOffset, EndOffset, OffsetOf
<1>6. QED
  BY <1>3, <1>4, <1>5

(* A full buffer after a whole pass starts with a line too long.           *)
LEMMA OutOfBufferKeeps ==
    ASSUME FramingInv, OutOfBuffer
    PROVE  FramingInv'
<1> USE DEF OutOfBuffer
<1>1. TypeOK'
  BY DEF FramingInv, TypeOK
<1>2. /\ (InStream /\ SeenToEnd /\ LinesTo(lines, stream, Seen))'
      /\ TooLong' = TooLong
  BY BytesUnchanged DEF FramingInv
<1>3. OverflowIsTooLong'
  <2>1. CASE skipped
    BY <2>1 DEF OverflowIsTooLong
  <2>2. CASE ~skipped
    <3>1. buffer \in Seq(Bytes) /\ Len(buffer) > MaxLine /\ MaxLine + 1 <= Len(buffer)
      BY SizeFacts, TypedBuffer DEF FramingInv
    <3>2. Quiet => \A i \in 1 .. MaxLine + 1 : buffer[i] \notin Ends
      <4>1. \A i \in 1 .. MaxLine + 1 : i \in 1 .. Len(buffer)
        BY <3>1, SizeFacts, TypedBuffer DEF FramingInv
      <4>2. QED
        BY <4>1 DEF Quiet
    <3>3. Quiet \/ TooLong
      BY <2>2 DEF FramingInv, QuietAfterPass
    <3>4. TooLong
      BY <3>1, <3>2, <3>3, TooLongInFront
    <3>5. QED
      BY <1>2, <3>4 DEF OverflowIsTooLong
  <2>3. QED
    BY <2>1, <2>2 DEF FramingInv, TypeOK
<1>4. QED
  BY <1>1, <1>2, <1>3 DEF FramingInv, QuietAfterPass

(* A pass without input changes nothing the invariant is about.            *)
LEMMA WouldBlockKeeps ==
    ASSUME FramingInv, WouldBlock
    PROVE  FramingInv'
<1> USE DEF WouldBlock
<1>1. TypeOK'
  BY DEF FramingInv, TypeOK
<1>2. /\ (InStream /\ SeenToEnd /\ LinesTo(lines, stream, Seen))'
      /\ TooLong' = TooLong
  BY BytesUnchanged DEF FramingInv
<1>3. QED
  BY <1>1, <1>2 DEF FramingInv, QuietAfterPass, OverflowIsTooLong

(* Nor does a failure of the socket.                                       *)
LEMMA ConnectionFailsKeeps ==
    ASSUME FramingInv, ConnectionFails
    PROVE  FramingInv'
<1> USE DEF ConnectionFails
<1>1. TypeOK'
  BY DEF FramingInv, TypeOK
<1>2. /\ (InStream /\ SeenToEnd /\ LinesTo(lines, stream, Seen))'
      /\ TooLong' = TooLong
  BY BytesUnchanged DEF FramingInv
<1>3. QED
  BY <1>1, <1>2 DEF FramingInv, QuietAfterPass, OverflowIsTooLong

(* A pass that ends early promises nothing.                                *)
LEMMA PassEndsEarlyKeeps ==
    ASSUME FramingInv, PassEndsEarly
    PROVE  FramingInv'
<1> USE DEF PassEndsEarly
<1>1. TypeOK'
  BY DEF FramingInv, TypeOK
<1>2. /\ (InStream /\ SeenToEnd /\ LinesTo(lines, stream, Seen))'
      /\ TooLong' = TooLong
  BY BytesUnchanged DEF FramingInv
<1>3. QED
  BY <1>1, <1>2 DEF FramingInv, QuietAfterPass, OverflowIsTooLong

(* The ending that is detected is one or two bytes.                        *)
LEMMA DetectEndingTyped ==
    ASSUME TypeOK, DetectEnding
    PROVE  detected' \in BOOLEAN /\ ending' \in Seq(Ends) /\ Len(ending') \in 1 .. 2
<1>1. CASE UNCHANGED <<detected, ending>>
  BY <1>1 DEF TypeOK
<1>2. CASE /\ buffer # <<>> /\ buffer[1] \in Ends /\ detected' = TRUE
           /\ ending' = IF Len(buffer) > 1 /\ buffer[2] \in Ends \ {buffer[1]}
                        THEN SubSeq(buffer, 1, 2) ELSE <<buffer[1]>>
  <2>1. CASE Len(buffer) > 1 /\ buffer[2] \in Ends \ {buffer[1]}
    <3>1. 1 \in Int /\ 2 \in Int /\ \A i \in 1 .. 2 : buffer[i] \in Ends
      BY <1>2, <2>1
    <3>2. /\ SubSeq(buffer, 1, 2) \in Seq(Ends)
          /\ Len(SubSeq(buffer, 1, 2)) = IF 1 <= 2 THEN 2 - 1 + 1 ELSE 0
      BY <3>1, SubSeqProperties
    <3>3. QED
      BY <1>2, <2>1, <3>2
  <2>2. CASE ~(Len(buffer) > 1 /\ buffer[2] \in Ends \ {buffer[1]})
    <3>1. <<buffer[1]>> \in Seq(Ends) /\ Len(<<buffer[1]>>) = 1
      BY <1>2, OneEnd
    <3>2. Len(<<buffer[1]>>) \in 1 .. 2
      BY <3>1
    <3>3. ending' = <<buffer[1]>>
      BY <1>2, <2>2, Zenon
    <3>4. QED
      BY <1>2, <3>1, <3>2, <3>3, Zenon
  <2>3. QED
    BY <2>1, <2>2
<1>3. QED
  BY <1>1, <1>2 DEF DetectEnding

(* Ends moved over add no stop; what is left is quiet or too long.         *)
LEMMA NoLineKeeps ==
    ASSUME FramingInv, NoLine
    PROVE  FramingInv'
<1> DEFINE start == StartOffset
           end == EndOffset(start)
           len == Len(buffer)
           o == Offset
<1>1. Found(start, end)
  BY RecvFinds DEF FramingInv
<1>2. /\ Stops(stream, o + start) = Stops(stream, Seen)
      /\ o + start > 0 => stream[o + start] \in Ends
  BY <1>1, NoStopBeforeEnd
<1>3. /\ pc' = "update" /\ skipped' = FALSE /\ state = "ONLINE"
      /\ buffer' = SubSeq(buffer, start + 1, len) /\ DetectEnding
      /\ state' = state /\ stream' = stream /\ lines' = lines
      /\ end = len \/ end - start > MaxLine
  <2>1. end - start \in Int
    BY <1>1 DEF Found
  <2>2. QED
    BY <2>1, SizeFacts DEF NoLine, MovedToFront, Fits
<1>4. /\ start \in 0 .. len /\ end \in start .. len /\ len \in Nat /\ o \in Nat
      /\ o + len = Len(stream)
      /\ start < len => start < end
      /\ \A i \in o + start + 1 .. o + end : stream[i] \notin Ends
  BY <1>1 DEF Found
<1>5. InStream /\ buffer \in Seq(Bytes) /\ len <= Size /\ stream \in Seq(Bytes)
  BY TypedBuffer DEF FramingInv
<1> HIDE DEF start, end, len, o
<1>6. /\ buffer' \in Seq(Bytes) /\ Len(buffer') = len - start /\ buffer' \in BytesUpTo(Size)
      /\ \A i \in 1 .. len - start : buffer'[i] = buffer[start + i]
  BY <1>3, <1>4, <1>5, BufferBehind DEF len
<1>7. TypeOK'
  <2>1. detected' \in BOOLEAN /\ ending' \in Seq(Ends) /\ Len(ending') \in 1 .. 2
    BY <1>3, DetectEndingTyped DEF FramingInv
  <2>2. QED
    BY <1>3, <1>6, <2>1 DEF FramingInv, TypeOK
<1>8. Offset' = o + start
  <2>1. Offset' = Len(stream) - Len(buffer')
    BY <1>3 DEF Offset
  <2>2. Len(stream) - (len - start) = o + start
    BY <1>4
  <2>3. QED
    BY <1>6, <2>1, <2>2
<1>9. \A i \in 1 .. len - start : buffer'[i] = stream[o + start + i]
  <2> TAKE i \in 1 .. len - start
  <2>1. start + i \in 1 .. len /\ o + (start + i) = o + start + i
    BY <1>4
  <2>2. buffer[start + i] = stream[o + (start + i)]
    BY <1>5, <2>1 DEF InStream, len, o
  <2>3. QED
    BY <1>6, <2>1, <2>2
<1>10. \A i \in 1 .. end - start : buffer'[i] \notin Ends
  <2> TAKE i \in 1 .. end - start
  <2>1. i \in 1 .. len - start /\ o + start + i \in o + start + 1 .. o + end
    BY <1>4
  <2>2. QED
    BY <1>4, <1>9, <2>1
<1>11. InStream'
  <2>1. Offset' >= 0
    BY <1>4, <1>8
  <2>2. \A i \in 1 .. Len(buffer') : buffer'[i] = stream'[Offset' + i]
    BY <1>3, <1>6, <1>8, <1>9
  <2>3. QED
    BY <2>1, <2>2 DEF InStream
<1>12. Seen' = o + start
  <2>1. buffer' # <<>> => buffer'[1] \notin Ends
    <3>1. buffer' # <<>> => len - start # 0
      BY <1>6, EmptySeq
    <3>2. len - start # 0 => 1 \in 1 .. end - start
      BY <1>4
    <3>3. QED
      BY <1>10, <3>1, <3>2
  <2>2. QED
    BY <1>8, <2>1 DEF Seen
<1>13. SeenToEnd'
  BY <1>2, <1>3, <1>12 DEF SeenToEnd
<1>14. LinesTo(lines, stream, Seen)'
  <2>1. LinesTo(lines, stream, o + start)
    BY <1>2 DEF FramingInv, LinesTo
  <2>2. QED
    BY <1>3, <1>12, <2>1
<1>15. (Quiet \/ TooLong)'
  <2>1. CASE end = len
    BY <1>6, <1>10, <2>1 DEF Quiet
  <2>2. CASE end - start > MaxLine
    <3>1. len - start > MaxLine /\ MaxLine + 1 <= end - start /\ MaxLine \in Nat
      BY <1>4, <2>2, SizeFacts
    <3>2. \A i \in 1 .. MaxLine + 1 : i \in 1 .. end - start
      BY <1>4, <3>1
    <3>3. (/\ buffer \in Seq(Bytes) /\ Len(buffer) > MaxLine
           /\ \A i \in 1 .. MaxLine + 1 : buffer[i] \notin Ends)'
      BY <1>6, <1>10, <3>1, <3>2
    <3>4. QED
      BY <3>3, TooLongInFront, PTL
  <2>3. QED
    BY <1>3, <2>1, <2>2
<1>16. OverflowIsTooLong'
  BY <1>3 DEF OverflowIsTooLong
<1>17. QED
  BY <1>7, <1>11, <1>13, <1>14, <1>15, <1>16 DEF FramingInv, QuietAfterPass

(* The line taken out is the one in front of the next stop.                *)
LEMMA ExtractLineKeeps ==
    ASSUME FramingInv, ExtractLine
    PROVE  FramingInv'
<1> DEFINE start == StartOffset
           end == EndOffset(start)
           len == Len(buffer)
           o == Offset
           line == SubSeq(buffer, start + 1, end)
           j == o + end + 1
<1>1. Found(start, end)
  BY RecvFinds DEF FramingInv
<1>2. /\ Stops(stream, o + end) = Stops(stream, Seen)
      /\ o + start > 0 => stream[o + start] \in Ends
  BY <1>1, NoStopBeforeEnd
<1>3. /\ state = "ONLINE" /\ pc = "recv" /\ end < len
      /\ lines' = Append(lines, line)
      /\ buffer' = SubSeq(buffer, end + 1, len) /\ DetectEnding
      /\ pc' = pc /\ state' = state /\ stream' = stream /\ skipped' = skipped
  BY DEF ExtractLine, Behind
<1>4. /\ start \in 0 .. len /\ end \in start .. len /\ len \in Nat /\ o \in Nat
      /\ o + len = Len(stream)
      /\ start < len => start < end
      /\ \A i \in o + start + 1 .. o + end : stream[i] \notin Ends
      /\ end < len => stream[j] \in Ends
      /\ Seen = IF start > 0 THEN o + 1 ELSE o
      /\ Seen \in Nat
  BY <1>1 DEF Found
<1>5. /\ InStream /\ buffer \in Seq(Bytes) /\ len <= Size /\ stream \in Seq(Bytes)
      /\ lines \in Seq(Lines) /\ LinesTo(lines, stream, Seen)
  BY TypedBuffer DEF FramingInv
<1> HIDE DEF start, end, len, o
<1>6. /\ buffer' \in Seq(Bytes) /\ Len(buffer') = len - end /\ buffer' \in BytesUpTo(Size)
      /\ \A i \in 1 .. len - end : buffer'[i] = buffer[end + i]
  <2>1. end \in 0 .. len
    BY <1>4
  <2>2. QED
    BY <1>3, <1>5, <2>1, BufferBehind DEF len
<1>7. start < end /\ stream[j] \in Ends /\ Seen < j /\ j \in Nat /\ j >= 2 /\ j <= Len(stream)
  BY <1>3, <1>4
<1>8. Offset' = o + end
  <2>1. Offset' = Len(stream) - Len(buffer')
    BY <1>3 DEF Offset
  <2>2. Len(stream) - (len - end) = o + end
    BY <1>4
  <2>3. QED
    BY <1>6, <2>1, <2>2
<1>9. \A i \in 1 .. len - end : buffer'[i] = stream[o + end + i]
  <2> TAKE i \in 1 .. len - end
  <2>1. end + i \in 1 .. len /\ o + (end + i) = o + end + i
    BY <1>4
  <2>2. buffer[end + i] = stream[o + (end + i)]
    BY <1>5, <2>1 DEF InStream, len, o
  <2>3. QED
    BY <1>6, <2>1, <2>2
<1>10. InStream'
  <2>1. Offset' >= 0
    BY <1>4, <1>8
  <2>2. \A i \in 1 .. Len(buffer') : buffer'[i] = stream'[Offset' + i]
    BY <1>3, <1>6, <1>8, <1>9
  <2>3. QED
    BY <2>1, <2>2 DEF InStream
<1>11. Seen' = j
  <2>1. 1 \in 1 .. len - end /\ o + end + 1 = j
    BY <1>3, <1>4
  <2>2. buffer'[1] \in Ends
    BY <1>7, <1>9, <2>1
  <2>3. buffer' # <<>>
    BY <1>6, <2>1, EmptySeq
  <2>4. QED
    BY <1>4, <1>8, <2>2, <2>3 DEF Seen
<1>12. SeenToEnd'
  BY <1>3, <1>7, <1>11 DEF SeenToEnd
<1>13. j \in Stops(stream, j) /\ Stops(stream, j) = Stops(stream, Seen) \cup {j}
  <2>1. j - 1 \in o + start + 1 .. o + end /\ j - 1 = o + end /\ j \in 2 .. j
    BY <1>4, <1>7
  <2>2. stream[j - 1] \notin Ends
    BY <1>4, <2>1
  <2>3. j \in Stops(stream, j)
    BY <1>7, <2>1, <2>2 DEF Stops
  <2>4. Stops(stream, j) = Stops(stream, j - 1) \cup {j}
    BY <1>7, <2>3 DEF Stops
  <2>5. QED
    BY <1>2, <2>1, <2>3, <2>4
<1>14. line \in Lines /\ line = LineBefore(stream, j)
  <2> DEFINE i == o + start + 1
             m == end - start
  <2>1. i \in 1 .. j - 1 /\ i \in Int /\ j - 1 \in Int /\ j - 1 = o + end /\ i - 1 = o + start
        /\ m \in Nat /\ m >= 1 /\ end - (start + 1) + 1 = m /\ (j - 1) - i + 1 = m
        /\ i <= j - 1 /\ start + 1 <= end /\ start + 1 \in Int /\ end \in Int
    BY <1>4, <1>7
  <2>2. (\A k \in i .. j - 1 : stream[k] \notin Ends) /\ (i > 1 => stream[i - 1] \in Ends)
    <3>1. i .. j - 1 = o + start + 1 .. o + end
      BY <2>1
    <3>2. i > 1 => o + start > 0
      BY <1>4
    <3>3. QED
      BY <1>2, <1>4, <2>1, <3>1, <3>2
  <2>3. LineBefore(stream, j) = SubSeq(stream, i, j - 1)
    BY <1>7, <2>1, <2>2, LineBeforeIs
  <2>4. \A k \in i .. j - 1 : stream[k] \in Bytes \ Ends
    <3> TAKE k \in i .. j - 1
    <3>1. k \in 1 .. Len(stream)
      BY <1>4, <1>7, <2>1
    <3>2. QED
      BY <1>5, <2>2, <3>1, ElementOfSeq
  <2>5. \A k \in start + 1 .. end : o + k \in i .. j - 1 /\ buffer[k] = stream[o + k]
    <3> TAKE k \in start + 1 .. end
    <3>1. k \in 1 .. len /\ o + k \in i .. j - 1
      BY <1>4, <1>7
    <3>2. QED
      BY <1>5, <3>1 DEF InStream, len, o
  <2>6. \A k \in start + 1 .. end : buffer[k] \in Bytes \ Ends
    BY <2>4, <2>5
  <2>7. \A k \in 1 .. m : start + k \in start + 1 .. end /\ o + (start + k) = i + k - 1
                          /\ (start + 1) + k - 1 = start + k
    BY <1>4, <2>1
  <2> HIDE DEF i, j, m
  <2>8. /\ line \in Seq(Bytes \ Ends) /\ Len(line) = m
        /\ \A k \in 1 .. m : line[k] = buffer[(start + 1) + k - 1]
    BY <2>1, <2>6, SubSeqProperties
  <2>9. /\ SubSeq(stream, i, j - 1) \in Seq(Bytes \ Ends) /\ Len(SubSeq(stream, i, j - 1)) = m
        /\ \A k \in 1 .. m : SubSeq(stream, i, j - 1)[k] = stream[i + k - 1]
    BY <2>1, <2>4, SubSeqProperties
  <2>10. \A k \in 1 .. m : line[k] = SubSeq(stream, i, j - 1)[k]
    BY <2>5, <2>7, <2>8, <2>9
  <2>11. line = SubSeq(stream, i, j - 1)
    <3> HIDE DEF line
    <3> QED BY <2>8, <2>9, <2>10, SeqEqual
  <2>12. QED
    BY <2>3, <2>8, <2>11 DEF Lines
<1> HIDE DEF j, line
<1>15. LinesTo(lines, stream, Seen)'
  <2>1. LinesTo(Append(lines, line), stream, j)
    BY <1>4, <1>5, <1>7, <1>13, <1>14, LinesToAppend
  <2>2. QED
    BY <1>3, <1>11, <2>1
<1>16. TypeOK'
  <2>1. detected' \in BOOLEAN /\ ending' \in Seq(Ends) /\ Len(ending') \in 1 .. 2
    BY <1>3, DetectEndingTyped DEF FramingInv
  <2>2. lines' \in Seq(Lines)
    BY <1>3, <1>5, <1>14, AppendProperties
  <2>3. QED
    BY <1>3, <1>6, <2>1, <2>2 DEF FramingInv, TypeOK, Lines
<1>17. OverflowIsTooLong' /\ QuietAfterPass'
  BY <1>3 DEF OverflowIsTooLong, QuietAfterPass
<1>18. QED
  BY <1>10, <1>12, <1>15, <1>16, <1>17 DEF FramingInv

(* New bytes continue the stream, and leave the stops seen as they are.    *)
LEMMA NetTcpRecvKeeps ==
    ASSUME FramingInv, NEW bytes \in BytesUpTo(Size), NetTcpRecv(bytes)
    PROVE  FramingInv'
<1> DEFINE len == Len(buffer)
           o == Offset
           n == Len(bytes)
           s == Len(stream)
<1>1. /\ InStream /\ buffer \in Seq(Bytes) /\ len \in Nat /\ len <= Size
      /\ stream \in Seq(Bytes) /\ s \in Nat /\ SeenToEnd /\ LinesTo(lines, stream, Seen)
  BY TypedBuffer DEF FramingInv
<1>2. bytes \in Seq(Bytes) /\ n \in Nat /\ n # 0
  <2>1. bytes \in Seq(Bytes)
    BY SizeFacts, BytesUpToSize
  <2>2. bytes # <<>>
    BY DEF NetTcpRecv
  <2>3. QED
    BY <2>1, <2>2, EmptySeq
<1>3. /\ pc = "update" /\ pc' = "recv" /\ state = "ONLINE" /\ state' = state
      /\ buffer' = buffer \o bytes /\ stream' = stream \o bytes
      /\ detected' = detected /\ ending' = ending /\ lines' = lines /\ skipped' = skipped
      /\ len + n <= Size
  <2>1. n <= Size - len
    BY DEF NetTcpRecv, Room
  <2>2. len + n <= Size
    BY <1>1, <1>2, <2>1, SizeFacts
  <2>3. QED
    BY <2>2 DEF NetTcpRecv
<1>4. /\ buffer' \in Seq(Bytes) /\ Len(buffer') = len + n
      /\ \A i \in 1 .. len + n : buffer'[i] = IF i <= len THEN buffer[i] ELSE bytes[i - len]
  BY <1>1, <1>2, <1>3, ConcatProperties
<1>5. /\ stream' \in Seq(Bytes) /\ Len(stream') = s + n
      /\ \A i \in 1 .. s + n : stream'[i] = IF i <= s THEN stream[i] ELSE bytes[i - s]
  BY <1>1, <1>2, <1>3, ConcatProperties
<1>6. o \in Nat /\ o + len = s /\ \A i \in 1 .. len : buffer[i] = stream[o + i]
  BY <1>1 DEF InStream, Offset
<1>7. buffer' \in BytesUpTo(Size)
  <2>1. Len(buffer') <= Size
    BY <1>3, <1>4
  <2>2. QED
    BY <1>4, <2>1, SizeFacts, BytesUpToSize
<1>8. TypeOK'
  BY <1>3, <1>5, <1>7 DEF FramingInv, TypeOK
<1>9. Offset' = o
  <2>1. Offset' = Len(stream') - Len(buffer')
    BY DEF Offset
  <2>2. (s + n) - (len + n) = o
    <3> HIDE DEF len, o, n, s
    <3> QED BY <1>1, <1>2, <1>6
  <2>3. QED
    BY <1>4, <1>5, <2>1, <2>2
<1>10. Seen \in Nat /\ Seen <= s /\ (len # 0 => Seen' = Seen)
       /\ (len = 0 => Seen = o /\ (Seen' = o \/ Seen' = o + 1))
       /\ Seen' \in Nat /\ Seen' <= s + n
  <2>1. buffer = <<>> <=> len = 0
    BY <1>1, EmptySeq
  <2>2. buffer' # <<>>
    BY <1>1, <1>2, <1>4, EmptySeq
  <2>3. len # 0 => buffer'[1] = buffer[1]
    BY <1>1, <1>2, <1>4
  <2>4. Seen = IF buffer # <<>> /\ buffer[1] \in Ends THEN o + 1 ELSE o
    BY DEF Seen
  <2>5. Seen' = IF buffer'[1] \in Ends THEN o + 1 ELSE o
    BY <1>9, <2>2 DEF Seen
  <2> HIDE DEF len, o, n, s
  <2>6. QED
    BY <1>1, <1>2, <1>6, <2>1, <2>3, <2>4, <2>5
<1>11. Agree(stream, stream', s)
  BY <1>1, <1>2, <1>5 DEF Agree
<1>12. LinesTo(lines, stream', Seen)
  <2>1. Agree(stream, stream', Seen) /\ Seen <= Len(stream) /\ Seen <= Len(stream')
    <3>1. Seen <= s /\ Seen <= s + n
      BY <1>1, <1>2, <1>10
    <3>2. 1 .. Seen \subseteq 1 .. s
      BY <1>1, <1>10, <3>1
    <3>3. QED
      BY <1>5, <1>11, <3>1, <3>2 DEF Agree
  <2>2. QED
    BY <1>1, <1>5, <1>10, <2>1, LinesToAgree
<1>13. Seen > 0 => stream'[Seen] \in Ends
  BY <1>1, <1>10, <1>11 DEF Agree, SeenToEnd
<1>14. CASE Seen' = Seen
  <2>1. SeenToEnd'
    BY <1>13, <1>14 DEF SeenToEnd
  <2>2. LinesTo(lines, stream, Seen)'
    BY <1>3, <1>12, <1>14
  <2>3. InStream'
    <3>1. ASSUME NEW i \in 1 .. len + n PROVE buffer'[i] = stream'[o + i]
      <4>1. CASE i <= len
        <5>1. i \in 1 .. len /\ o + i \in 1 .. s + n /\ o + i <= s
          BY <1>1, <1>2, <1>6, <4>1
        <5>2. QED
          BY <1>4, <1>5, <1>6, <4>1, <5>1
      <4>2. CASE i > len
        <5>1. o + i \in 1 .. s + n /\ ~(o + i <= s) /\ ~(i <= len) /\ (o + i) - s = i - len
          BY <1>1, <1>2, <1>6, <4>2
        <5>2. QED
          BY <1>4, <1>5, <5>1
      <4>3. QED
        BY <1>1, <4>1, <4>2
    <3>2. QED
      BY <1>4, <1>6, <1>9, <3>1 DEF InStream
  <2>4. QED
    BY <1>3, <1>8, <2>1, <2>2, <2>3 DEF FramingInv, QuietAfterPass, OverflowIsTooLong
<1>15. CASE len = 0 /\ Seen = o /\ Seen' = o + 1
  <2>1. buffer'[1] \in Ends
    <3>1. Seen' # Offset'
      BY <1>6, <1>9, <1>15
    <3>2. QED
      BY <3>1 DEF Seen
  <2>2. InStream'
    <3>1. ASSUME NEW i \in 1 .. len + n PROVE buffer'[i] = stream'[o + i]
      <4>1. o + i \in 1 .. s + n /\ ~(o + i <= s) /\ ~(i <= len) /\ (o + i) - s = i - len
        BY <1>1, <1>2, <1>6, <1>15
      <4>2. QED
        BY <1>4, <1>5, <4>1
    <3>2. QED
      BY <1>4, <1>6, <1>9, <3>1 DEF InStream
  <2>3. stream'[o + 1] \in Ends
    <3>1. 1 \in 1 .. Len(buffer')
      BY <1>1, <1>2, <1>4
    <3>2. QED
      BY <1>9, <2>1, <2>2, <3>1 DEF InStream
  <2>4. SeenToEnd'
    BY <1>15, <2>3 DEF SeenToEnd
  <2>5. Stops(stream', o + 1) = Stops(stream', o)
    <3>1. o > 0 => stream'[o] \in Ends
      BY <1>13, <1>15
    <3>2. \A i \in 2 .. o + 1 : i \in 2 .. o \/ (i = o + 1 /\ o > 0 /\ i - 1 = o)
      BY <1>6
    <3>3. 2 .. o \subseteq 2 .. o + 1
      BY <1>6
    <3>4. QED
      BY <3>1, <3>2, <3>3 DEF Stops
  <2>6. LinesTo(lines, stream', o + 1)
    BY <1>12, <1>15, <2>5 DEF LinesTo
  <2>7. LinesTo(lines, stream, Seen)'
    BY <1>3, <1>15, <2>6
  <2>8. QED
    BY <1>3, <1>8, <2>2, <2>4, <2>7 DEF FramingInv, QuietAfterPass, OverflowIsTooLong
<1>16. QED
  BY <1>10, <1>14, <1>15

(* The invariant only depends on the variables.                            *)
LEMMA StutterKeeps == ASSUME FramingInv, UNCHANGED vars PROVE FramingInv'
<1> USE DEF vars
<1>1. TypeOK'
  BY DEF FramingInv, TypeOK
<1>2. /\ (InStream /\ SeenToEnd /\ LinesTo(lines, stream, Seen))'
      /\ Quiet' = Quiet /\ TooLong' = TooLong
  BY BytesUnchanged DEF FramingInv
<1>3. QED
  BY <1>1, <1>2 DEF FramingInv, QuietAfterPass, OverflowIsTooLong

(* Every step keeps the invariant.                                         *)
LEMMA NextKeeps == ASSUME FramingInv, [Next]_vars PROVE FramingInv'
BY OutOfBufferKeeps, WouldBlockKeeps, ConnectionFailsKeeps, NetTcpRecvKeeps, ExtractLineKeeps,
   NoLineKeeps, PassEndsEarlyKeeps, ResetKeeps, StutterKeeps DEF Next, Update, Recv

(* How ever the stream is cut: the buffer is the rest of the stream, and   *)
(* the lines returned are those that stop in front of it.                  *)
THEOREM FramingInvariant == Spec => []FramingInv
BY InitHolds, NextKeeps, PTL DEF Spec

(* m_aBuffer is never written behind its end, and a line holds no CR or LF.*)
THEOREM FramingTypeCorrect == Spec => []TypeOK
<1>1. FramingInv => TypeOK
  BY DEF FramingInv
<1>2. QED
  BY <1>1, FramingInvariant, PTL

(* With no end in the buffer, all stops have been seen.                    *)
LEMMA SeenInStream ==
    ASSUME FramingInv
    PROVE  /\ stream \in Seq(Bytes) /\ lines \in Seq(Lines) /\ Seen \in 0 .. Len(stream)
           /\ Quiet => Stops(stream, Seen) = Stops(stream, Len(stream))
<1> DEFINE o == Offset
           len == Len(buffer)
<1>1. /\ buffer \in Seq(Bytes) /\ len \in Nat /\ stream \in Seq(Bytes) /\ Len(stream) \in Nat
      /\ lines \in Seq(Lines) /\ InStream
  BY TypedBuffer DEF FramingInv
<1>2. o \in Nat /\ o + len = Len(stream) /\ \A i \in 1 .. len : buffer[i] = stream[o + i]
  BY <1>1 DEF InStream, Offset
<1>3. buffer # <<>> => len # 0
  BY <1>1, EmptySeq
<1>4. Seen \in 0 .. Len(stream)
  BY <1>1, <1>2, <1>3 DEF Seen
<1>5. ASSUME Quiet PROVE Stops(stream, Seen) = Stops(stream, Len(stream))
  <2>1. Seen = o
    <3>1. buffer # <<>> => buffer[1] \notin Ends
      BY <1>1, <1>3, <1>5 DEF Quiet
    <3>2. QED
      BY <3>1 DEF Seen
  <2>2. ASSUME NEW i \in o + 1 .. Len(stream) PROVE stream[i] \notin Ends
    <3>1. i - o \in 1 .. len /\ o + (i - o) = i
      BY <1>1, <1>2
    <3>2. QED
      BY <1>2, <1>5, <3>1 DEF Quiet
  <2>3. \A i \in 2 .. Len(stream) : i \in 2 .. o \/ i \in o + 1 .. Len(stream)
    BY <1>1, <1>2
  <2>4. 2 .. o \subseteq 2 .. Len(stream)
    BY <1>1, <1>2
  <2>5. QED
    BY <2>1, <2>2, <2>3, <2>4 DEF Stops
<1>6. QED
  BY <1>1, <1>4, <1>5

(* The server sees the lines of the stream, in order and each once.        *)
THEOREM FramingLinesOfStream == Spec => []LinesOfStream
<1>1. FramingInv => LinesOfStream
  <2> SUFFICES ASSUME FramingInv PROVE LinesOfStream
    OBVIOUS
  <2>1. LinesTo(lines, stream, Seen)
    BY DEF FramingInv
  <2>2. QED
    BY <2>1, SeenInStream, LinesToIsPrefix DEF LinesOfStream
<1>2. QED
  BY <1>1, FramingInvariant, PTL

(* A pass that was not ended early leaves no complete line behind, unless  *)
(* one that is too long is in front of it.                                 *)
THEOREM FramingNoLineHeldBack == Spec => []NoLineHeldBack
<1>1. FramingInv => NoLineHeldBack
  <2> SUFFICES ASSUME FramingInv, pc = "update", state = "ONLINE", ~skipped
               PROVE  lines = LinesOf(stream) \/ TooLong
    BY DEF NoLineHeldBack
  <2>1. LinesTo(lines, stream, Seen) /\ (Quiet \/ TooLong)
    BY DEF FramingInv, QuietAfterPass
  <2>2. Quiet => lines = LinesOf(stream)
    BY <2>1, SeenInStream, LinesToIsPrefix
  <2>3. QED
    BY <2>1, <2>2
<1>2. QED
  BY <1>1, FramingInvariant, PTL

(* A client is only dropped as "too weak" for a line that is too long, or  *)
(* after passes over its lines that ended early.                           *)
THEOREM FramingOverflowIsTooLong == Spec => []OverflowIsTooLong
<1>1. FramingInv => OverflowIsTooLong
  BY DEF FramingInv
<1>2. QED
  BY <1>1, FramingInvariant, PTL
================================================================================
