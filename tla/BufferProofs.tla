---------------------------- MODULE BufferProofs ----------------------------
(***************************************************************************)
(* Proofs about Buffer, under any calls (BufferQueue) and under those of   *)
(* the codecs (Codec), for any bytes, frames and sizes; and the facts      *)
(* about numbers and sequences that they and PartsProofs need.             *)
(***************************************************************************)
EXTENDS BufferQueue, Codec, SequenceTheorems, WellFoundedInduction, TLAPS

-----------------------------------------------------------------------------
(***************************************************************************)
(* A set of naturals has a least element, and one that is bounded a        *)
(* largest.                                                                *)
(***************************************************************************)
LEMMA LeastNumber ==
  ASSUME NEW T, T \subseteq Nat, T # {}
  PROVE  \E x \in T : \A y \in T : x <= y
<1> DEFINE R == {p \in Nat \X Nat : p[1] < p[2]}
<1>1. IsWellFoundedOn(R, Nat)
  BY NatLessThanWellFounded DEF OpToRel
<1>2. \E x \in T : \A y \in T : ~(<<y, x>> \in R)
  <2> HIDE DEF R
  <2> QED BY <1>1, WFMin
<1>3. \A x, y \in Nat : ~(<<y, x>> \in R) => x <= y
  OBVIOUS
<1> QED BY <1>2, <1>3

LEMMA LargestNumber ==
  ASSUME NEW n \in Nat, NEW T, T \subseteq 0 .. n, T # {}
  PROVE  \E x \in T : \A y \in T : x >= y
<1> DEFINE U == {n - y : y \in T}
<1>1. \A y \in T : y \in Nat /\ n - y \in Nat
  OBVIOUS
<1>2. PICK x \in U : \A y \in U : x <= y
  <2>1. U \subseteq Nat /\ U # {}
    BY <1>1
  <2> HIDE DEF U
  <2> QED BY <2>1, LeastNumber
<1>3. PICK z \in T : x = n - z
  OBVIOUS
<1>4. \A y \in T : x <= n - y
  BY <1>2
<1> HIDE DEF U
<1>5. \A y \in T : z >= y
  BY <1>1, <1>3, <1>4
<1> QED BY <1>5

-----------------------------------------------------------------------------
(***************************************************************************)
(* FlattenSeq is defined by recursion: that there is such a function, and  *)
(* that it is the same on the common part of two sequences, follows from   *)
(* the least number where it would not be.                                 *)
(***************************************************************************)
Partial(g, s, n) == g = [k \in 1 .. n |-> IF k = 1 THEN s[k] ELSE g[k - 1] \o s[k]]

LEMMA PartialAt ==
  ASSUME NEW g, NEW s, NEW n \in Nat, Partial(g, s, n)
  PROVE  \A k \in 1 .. n : g[k] = IF k = 1 THEN s[k] ELSE g[k - 1] \o s[k]
BY DEF Partial

LEMMA PartialExists == ASSUME NEW s PROVE \A n \in Nat : \E g : Partial(g, s, n)
<1> DEFINE Bad == {n \in Nat : ~\E g : Partial(g, s, n)}
<1>1. SUFFICES Bad = {}
  OBVIOUS
<1>2. SUFFICES ASSUME Bad # {} PROVE FALSE
  OBVIOUS
<1>3. PICK m \in Bad : \A n \in Bad : m <= n
  <2>1. Bad \subseteq Nat
    OBVIOUS
  <2> HIDE DEF Bad
  <2> QED BY <1>2, <2>1, LeastNumber
<1>4. m # 0
  <2> DEFINE e == [k \in 1 .. 0 |-> <<>>]
  <2>1. Partial(e, s, 0)
    BY DEF Partial
  <2> QED BY <2>1
<1>5. m - 1 \in Nat /\ m \in Nat /\ m - 1 < m
  BY <1>4
<1>6. PICK g : Partial(g, s, m - 1)
  <2>1. m - 1 \notin Bad
    BY <1>3, <1>5
  <2> QED BY <1>5, <2>1
<1> DEFINE h == [k \in 1 .. m |-> IF k < m THEN g[k] ELSE IF k = 1 THEN s[k] ELSE g[k - 1] \o s[k]]
<1>7. Partial(h, s, m)
  <2>1. ASSUME NEW k \in 1 .. m PROVE h[k] = IF k = 1 THEN s[k] ELSE h[k - 1] \o s[k]
    <3>1. CASE k = m
      <4>1. k # 1 => k - 1 \in 1 .. m /\ k - 1 < m
        BY <1>5, <3>1
      <4>2. k # 1 => h[k - 1] = g[k - 1]
        BY <4>1
      <4>3. h[k] = IF k = 1 THEN s[k] ELSE g[k - 1] \o s[k]
        BY <1>5, <3>1
      <4> QED BY <4>2, <4>3
    <3>2. CASE k < m
      <4>1. k \in 1 .. m - 1 /\ (k # 1 => k - 1 \in 1 .. m /\ k - 1 < m)
        BY <1>5, <3>2
      <4>2. g[k] = IF k = 1 THEN s[k] ELSE g[k - 1] \o s[k]
        BY <1>5, <1>6, <4>1, PartialAt
      <4>3. h[k] = g[k] /\ (k # 1 => h[k - 1] = g[k - 1])
        BY <3>2, <4>1
      <4> QED BY <4>2, <4>3
    <3> QED BY <1>5, <3>1, <3>2
  <2>2. h = [k \in 1 .. m |-> h[k]]
    OBVIOUS
  <2> HIDE DEF h
  <2>3. [k \in 1 .. m |-> h[k]] = [k \in 1 .. m |-> IF k = 1 THEN s[k] ELSE h[k - 1] \o s[k]]
    BY <2>1
  <2> QED BY <2>2, <2>3 DEF Partial
<1> HIDE DEF h
<1> QED BY <1>7

LEMMA PartialAgree ==
  ASSUME NEW s, NEW t, NEW g, NEW h, NEW n \in Nat, NEW m \in Nat, n <= m,
         Partial(g, s, n), Partial(h, t, m), \A k \in 1 .. n : s[k] = t[k]
  PROVE  \A k \in 1 .. n : g[k] = h[k]
<1> DEFINE Bad == {k \in 1 .. n : g[k] # h[k]}
<1>1. SUFFICES ASSUME Bad # {} PROVE FALSE
  OBVIOUS
<1>2. PICK b \in Bad : \A k \in Bad : b <= k
  <2>1. Bad \subseteq Nat
    OBVIOUS
  <2> HIDE DEF Bad
  <2> QED BY <1>1, <2>1, LeastNumber
<1>3. b \in 1 .. n /\ b \in 1 .. m /\ g[b] # h[b] /\ s[b] = t[b]
  OBVIOUS
<1>4. /\ g[b] = IF b = 1 THEN s[b] ELSE g[b - 1] \o s[b]
      /\ h[b] = IF b = 1 THEN t[b] ELSE h[b - 1] \o t[b]
  BY <1>3, PartialAt
<1>5. b # 1 => g[b - 1] = h[b - 1]
  <2>1. b # 1 => b - 1 \in 1 .. n /\ ~(b <= b - 1)
    BY <1>3
  <2> QED BY <1>2, <2>1
<1> QED BY <1>3, <1>4, <1>5

LEMMA FlattenIs ==
  ASSUME NEW s, Len(s) \in Nat, Len(s) # 0
  PROVE  \E g : Partial(g, s, Len(s)) /\ FlattenSeq(s) = g[Len(s)]
<1>1. FlattenSeq(s) = (CHOOSE g : Partial(g, s, Len(s)))[Len(s)]
  BY DEF FlattenSeq, Partial
<1>2. \E g : Partial(g, s, Len(s))
  BY PartialExists
<1> QED BY <1>1, <1>2

LEMMA FlattenAppend ==
  ASSUME NEW S, NEW s \in Seq(Seq(S)), NEW x \in Seq(S)
  PROVE  FlattenSeq(Append(s, x)) = FlattenSeq(s) \o x
<1> DEFINE t == Append(s, x)
           n == Len(s)
<1>1. /\ n \in Nat /\ Len(t) = n + 1 /\ t[n + 1] = x /\ \A k \in 1 .. n : t[k] = s[k]
  BY AppendProperties, LenProperties
<1> HIDE DEF t
<1>2. PICK h : Partial(h, t, n + 1) /\ FlattenSeq(t) = h[n + 1]
  BY <1>1, FlattenIs
<1>3. h[n + 1] = IF n + 1 = 1 THEN x ELSE h[n + 1 - 1] \o x
  <2>1. n + 1 \in Nat /\ n + 1 \in 1 .. n + 1
    BY <1>1
  <2> QED BY <1>1, <1>2, <2>1, PartialAt
<1>4. CASE n = 0
  <2>1. s = <<>> /\ FlattenSeq(s) = <<>>
    BY <1>4, EmptySeq DEF FlattenSeq
  <2>2. <<>> \o x = x
    BY ConcatEmptySeq
  <2> QED BY <1>2, <1>3, <1>4, <2>1, <2>2 DEF t
<1>5. CASE n # 0
  <2>1. PICK g : Partial(g, s, n) /\ FlattenSeq(s) = g[n]
    BY <1>1, <1>5, FlattenIs
  <2>2. \A k \in 1 .. n : g[k] = h[k]
    <3>1. n + 1 \in Nat /\ n <= n + 1
      BY <1>1
    <3> HIDE DEF n
    <3> QED BY <1>1, <1>2, <2>1, <3>1, PartialAgree
  <2>3. g[n] = h[n] /\ n + 1 # 1 /\ n + 1 - 1 = n
    BY <1>1, <1>5, <2>2
  <2> QED BY <1>2, <1>3, <2>1, <2>3 DEF t
<1> QED BY <1>4, <1>5

-----------------------------------------------------------------------------
(***************************************************************************)
(* BufferQueue.  What each method of Buffer does to a buffer in order      *)
(* (BufOK) and to the bytes that can be read from it, byte by byte; then   *)
(* the indices are always in order, and the two sequences stay the same.   *)
(***************************************************************************)
BufOK(b) ==
  /\ b \in [bytes : Seq(Byte), readerIndex : Nat, writerIndex : Nat]
  /\ b.readerIndex <= b.writerIndex
  /\ b.writerIndex <= Len(b.bytes)
  /\ kCheapPrepend <= Len(b.bytes)

LEMMA Cut ==
  ASSUME NEW S, NEW s \in Seq(S), NEW m \in Nat, NEW n \in Nat, m <= n, n <= Len(s)
  PROVE  /\ SubSeq(s, m + 1, n) \in Seq(S)
         /\ Len(SubSeq(s, m + 1, n)) = n - m
         /\ \A k \in 1 .. n - m : SubSeq(s, m + 1, n)[k] = s[m + k]
<1>1. \A k \in m + 1 .. n : s[k] \in S
  BY ElementOfSeq
<1>2. /\ SubSeq(s, m + 1, n) \in Seq(S)
      /\ Len(SubSeq(s, m + 1, n)) = IF m + 1 <= n THEN n - (m + 1) + 1 ELSE 0
      /\ \A k \in 1 .. n - (m + 1) + 1 : SubSeq(s, m + 1, n)[k] = s[m + 1 + k - 1]
  BY <1>1, SubSeqProperties
<1>3. n - (m + 1) + 1 = n - m /\ \A k \in 1 .. n - m : m + 1 + k - 1 = m + k
  OBVIOUS
<1> QED BY <1>2, <1>3

LEMMA CutFront ==
  ASSUME NEW S, NEW s \in Seq(S), NEW n \in Nat, n <= Len(s)
  PROVE  /\ SubSeq(s, 1, n) \in Seq(S) /\ Len(SubSeq(s, 1, n)) = n
         /\ \A k \in 1 .. n : SubSeq(s, 1, n)[k] = s[k]
<1>1. 0 + 1 = 1 /\ n - 0 = n /\ (\A k \in 1 .. n : 0 + k = k) /\ 0 <= n
  OBVIOUS
<1> QED BY <1>1, Cut

LEMMA CopiedInto ==
  ASSUME NEW bytes \in Seq(Byte), NEW data \in Seq(Byte), NEW at \in Nat,
         at + Len(data) <= Len(bytes)
  PROVE  LET c == Copied(bytes, at, data)
         IN  /\ c \in Seq(Byte) /\ Len(c) = Len(bytes)
             /\ \A k \in 1 .. Len(bytes) :
                  c[k] = IF at < k /\ k <= at + Len(data) THEN data[k - at] ELSE bytes[k]
<1> DEFINE n == Len(bytes)
           d == Len(data)
           front == SubSeq(bytes, 1, at)
           back == SubSeq(bytes, at + d + 1, n)
           head == front \o data
           whole == head \o back
           c == Copied(bytes, at, data)
<1>1. n \in Nat /\ d \in Nat /\ at + d \in Nat /\ at + d <= n /\ at <= n
  BY LenProperties
<1>2. front \in Seq(Byte) /\ Len(front) = at /\ \A k \in 1 .. at : front[k] = bytes[k]
  BY <1>1, CutFront
<1>3. /\ back \in Seq(Byte) /\ Len(back) = n - (at + d)
      /\ \A k \in 1 .. n - (at + d) : back[k] = bytes[at + d + k]
  BY <1>1, Cut
<1>4. c = SubSeq(whole, 1, n)
  BY DEF Copied
<1> HIDE DEF n, d, front, back, c
<1>5. /\ head \in Seq(Byte) /\ Len(head) = at + d
      /\ \A k \in 1 .. at + d : head[k] = IF k <= at THEN bytes[k] ELSE data[k - at]
  <2>1. /\ head \in Seq(Byte) /\ Len(head) = at + d
        /\ \A k \in 1 .. at + d : head[k] = IF k <= at THEN front[k] ELSE data[k - at]
    BY <1>1, <1>2, ConcatProperties DEF d
  <2> QED BY <1>1, <1>2, <2>1
<1> HIDE DEF head
<1>6. /\ whole \in Seq(Byte) /\ Len(whole) = n
      /\ \A k \in 1 .. n : whole[k] = IF k <= at + d THEN head[k] ELSE back[k - (at + d)]
  <2>1. at + d + (n - (at + d)) = n
    BY <1>1
  <2>2. /\ whole \in Seq(Byte) /\ Len(whole) = Len(head) + Len(back)
        /\ \A k \in 1 .. Len(head) + Len(back) :
             whole[k] = IF k <= Len(head) THEN head[k] ELSE back[k - Len(head)]
    <3>1. head \in Seq(Byte) /\ back \in Seq(Byte)
      BY <1>3, <1>5
    <3> QED BY <3>1, ConcatProperties
  <2> QED BY <1>3, <1>5, <2>1, <2>2
<1> HIDE DEF whole
<1>7. c = whole
  BY <1>4, <1>6, SubSeqFull
<1>8. ASSUME NEW k \in 1 .. n
      PROVE  c[k] = IF at < k /\ k <= at + d THEN data[k - at] ELSE bytes[k]
  <2> k \in Nat /\ k >= 1 /\ k <= n
    BY <1>1
  <2>1. CASE k <= at + d
    <3>1. k \in 1 .. at + d /\ whole[k] = head[k]
      BY <1>1, <1>6, <2>1
    <3> QED BY <1>1, <1>5, <1>7, <2>1, <3>1
  <2>2. CASE k > at + d
    <3>1. k - (at + d) \in 1 .. n - (at + d) /\ at + d + (k - (at + d)) = k
      BY <1>1, <2>2
    <3>2. whole[k] = back[k - (at + d)] /\ back[k - (at + d)] = bytes[k]
      BY <1>1, <1>3, <1>6, <2>2, <3>1
    <3> QED BY <1>1, <1>7, <2>2, <3>2
  <2> QED BY <1>1, <2>1, <2>2
<1> QED BY <1>6, <1>7, <1>8 DEF n, d, c

LEMMA PieceOf ==
  ASSUME NEW b, BufOK(b)
  PROVE  /\ b.bytes \in Seq(Byte) /\ b.readerIndex \in Nat /\ b.writerIndex \in Nat
         /\ Len(b.bytes) \in Nat /\ kCheapPrepend \in Nat
         /\ readableBytes(b) \in Nat /\ writableBytes(b) \in Nat /\ prependableBytes(b) \in Nat
         /\ b.readerIndex <= b.writerIndex /\ b.writerIndex <= Len(b.bytes)
         /\ kCheapPrepend <= Len(b.bytes)
         /\ readableBytes(b) = b.writerIndex - b.readerIndex
         /\ writableBytes(b) = Len(b.bytes) - b.writerIndex
         /\ toStringPiece(b) \in Seq(Byte)
         /\ Len(toStringPiece(b)) = readableBytes(b)
         /\ \A k \in 1 .. readableBytes(b) : toStringPiece(b)[k] = b.bytes[b.readerIndex + k]
<1>1. /\ b.bytes \in Seq(Byte) /\ b.readerIndex \in Nat /\ b.writerIndex \in Nat
      /\ Len(b.bytes) \in Nat /\ kCheapPrepend \in Nat
      /\ b.readerIndex <= b.writerIndex /\ b.writerIndex <= Len(b.bytes)
      /\ kCheapPrepend <= Len(b.bytes)
  BY LenProperties, BufferAssumption DEF BufOK, BufferAssumption
<1>2. /\ toStringPiece(b) \in Seq(Byte)
      /\ Len(toStringPiece(b)) = readableBytes(b)
      /\ \A k \in 1 .. readableBytes(b) : toStringPiece(b)[k] = b.bytes[b.readerIndex + k]
  <2> DEFINE bytes == b.bytes
             from == b.readerIndex
             to == b.writerIndex
  <2>1. bytes \in Seq(Byte) /\ from \in Nat /\ to \in Nat /\ from <= to /\ to <= Len(bytes)
    BY <1>1
  <2> HIDE DEF bytes, from, to
  <2>2. /\ SubSeq(bytes, from + 1, to) \in Seq(Byte)
        /\ Len(SubSeq(bytes, from + 1, to)) = to - from
        /\ \A k \in 1 .. to - from : SubSeq(bytes, from + 1, to)[k] = bytes[from + k]
    BY <2>1, Cut
  <2> QED BY <2>2 DEF toStringPiece, readableBytes, bytes, from, to
<1> QED BY <1>1, <1>2 DEF readableBytes, writableBytes, prependableBytes, size

\* Two buffers in which the same bytes lie between the indices.
LEMMA SamePiece ==
  ASSUME NEW b, NEW c, BufOK(b), BufOK(c), readableBytes(b) = readableBytes(c),
         \A k \in 1 .. readableBytes(b) : c.bytes[c.readerIndex + k] = b.bytes[b.readerIndex + k]
  PROVE  toStringPiece(c) = toStringPiece(b)
BY PieceOf, SeqEqual

LEMMA ZeroBytes == \A n \in Nat : Zeros(n) \in Seq(Byte) /\ Len(Zeros(n)) = n
BY DEF Zeros, Byte

LEMMA NewIsEmpty ==
  /\ BufOK(NewBuffer) /\ toStringPiece(NewBuffer) = <<>>
  /\ NewBuffer.readerIndex = kCheapPrepend
<1>1. kCheapPrepend \in Nat /\ kInitialSize \in Nat /\ kCheapPrepend + kInitialSize \in Nat
  BY BufferAssumption DEF BufferAssumption
<1>2. BufOK(NewBuffer)
  BY <1>1, ZeroBytes DEF BufOK, NewBuffer
<1>3. NewBuffer.readerIndex = kCheapPrepend /\ NewBuffer.writerIndex = kCheapPrepend
  BY DEF NewBuffer
<1>4. toStringPiece(NewBuffer) = <<>>
  BY <1>1, <1>3, SubSeqEmpty DEF toStringPiece
<1> QED BY <1>2, <1>3, <1>4

LEMMA GrownBuffer ==
  ASSUME NEW b, BufOK(b), NEW n \in Nat, n >= Len(b.bytes)
  PROVE  LET c == Resized(b, n)
         IN  /\ BufOK(c) /\ size(c) = n /\ toStringPiece(c) = toStringPiece(b)
             /\ c.readerIndex = b.readerIndex /\ c.writerIndex = b.writerIndex
<1> DEFINE c == Resized(b, n)
           more == Zeros(n - size(b))
<1>1. n - size(b) \in Nat /\ Len(b.bytes) + (n - size(b)) = n /\ Len(b.bytes) \in Nat
      /\ b.readerIndex \in Nat /\ b.writerIndex \in Nat /\ b.bytes \in Seq(Byte)
  <2>1. /\ b.readerIndex \in Nat /\ b.writerIndex \in Nat /\ b.bytes \in Seq(Byte)
        /\ Len(b.bytes) \in Nat
    BY PieceOf
  <2> QED BY <2>1 DEF size
<1>2. more \in Seq(Byte) /\ Len(more) = n - size(b)
  BY <1>1, ZeroBytes
<1> HIDE DEF more
<1>3. /\ c = [b EXCEPT !.bytes = b.bytes \o more]
      /\ b = [bytes |-> b.bytes, readerIndex |-> b.readerIndex, writerIndex |-> b.writerIndex]
  BY DEF Resized, BufOK, more
<1>4. c.bytes = b.bytes \o more /\ c.readerIndex = b.readerIndex /\ c.writerIndex = b.writerIndex
      /\ c = [bytes |-> c.bytes, readerIndex |-> c.readerIndex, writerIndex |-> c.writerIndex]
  <2> DEFINE longer == b.bytes \o more
  <2> HIDE DEF longer, c
  <2>1. c = [b EXCEPT !.bytes = longer]
    BY <1>3 DEF longer
  <2>2. c.bytes = longer /\ c.readerIndex = b.readerIndex /\ c.writerIndex = b.writerIndex
        /\ c = [bytes |-> c.bytes, readerIndex |-> c.readerIndex, writerIndex |-> c.writerIndex]
    BY <1>3, <2>1
  <2> QED BY <2>2 DEF longer
<1> HIDE DEF c
<1>5. /\ c.bytes \in Seq(Byte) /\ Len(c.bytes) = n
      /\ \A k \in 1 .. n : k <= Len(b.bytes) => c.bytes[k] = b.bytes[k]
  <2> DEFINE old == b.bytes
             new == c.bytes
  <2>1. old \in Seq(Byte) /\ new = old \o more
    BY <1>1, <1>4
  <2> HIDE DEF old, new
  <2>2. /\ new \in Seq(Byte) /\ Len(new) = Len(old) + Len(more)
        /\ \A k \in 1 .. Len(old) + Len(more) :
             new[k] = IF k <= Len(old) THEN old[k] ELSE more[k - Len(old)]
    BY <1>2, <2>1, ConcatProperties
  <2> QED BY <1>1, <1>2, <2>2 DEF old, new
<1>6. BufOK(c)
  <2>1. /\ c.readerIndex \in Nat /\ c.writerIndex \in Nat /\ c.readerIndex <= c.writerIndex
        /\ c.writerIndex <= Len(c.bytes) /\ kCheapPrepend <= Len(c.bytes)
    BY <1>1, <1>4, <1>5, BufferAssumption DEF BufOK, BufferAssumption
  <2>2. c \in [bytes : Seq(Byte), readerIndex : Nat, writerIndex : Nat]
    BY <1>4, <1>5, <2>1
  <2> QED BY <2>1, <2>2 DEF BufOK
<1>7. toStringPiece(c) = toStringPiece(b)
  <2>1. readableBytes(b) = readableBytes(c)
    BY <1>4 DEF readableBytes
  <2>2. ASSUME NEW k \in 1 .. readableBytes(b)
        PROVE  c.bytes[c.readerIndex + k] = b.bytes[b.readerIndex + k]
    <3>1. b.readerIndex + k \in 1 .. n /\ b.readerIndex + k <= Len(b.bytes)
      BY <1>1 DEF BufOK, readableBytes
    <3> QED BY <1>4, <1>5, <3>1
  <2> QED BY <1>6, <2>1, <2>2, SamePiece
<1> QED BY <1>4, <1>5, <1>6, <1>7 DEF c, size

\* makeSpace makes the room, keeps the bytes, and moves them only forwards.
LEMMA MadeSpace ==
  ASSUME NEW b, BufOK(b), NEW len \in Nat, writableBytes(b) < len
  PROVE  LET made == makeSpace(b, len)
         IN  /\ BufOK(made) /\ toStringPiece(made) = toStringPiece(b)
             /\ writableBytes(made) >= len
             /\ size(made) = size(b) => kCheapPrepend < b.readerIndex
             /\ made.readerIndex \in {b.readerIndex, kCheapPrepend}
<1> DEFINE made == makeSpace(b, len)
<1>1. /\ b.bytes \in Seq(Byte) /\ b.readerIndex \in Nat /\ b.writerIndex \in Nat
      /\ Len(b.bytes) \in Nat /\ kCheapPrepend \in Nat
      /\ b.readerIndex <= b.writerIndex /\ b.writerIndex <= Len(b.bytes)
      /\ readableBytes(b) = b.writerIndex - b.readerIndex /\ size(b) = Len(b.bytes)
      /\ writableBytes(b) = Len(b.bytes) - b.writerIndex /\ prependableBytes(b) = b.readerIndex
      /\ readableBytes(b) \in Nat
  BY PieceOf DEF BufOK, readableBytes, writableBytes, prependableBytes, size
<1>2. CASE writableBytes(b) + prependableBytes(b) < len + kCheapPrepend
  <2>1. made = Resized(b, b.writerIndex + len)
    BY <1>2 DEF makeSpace
  <2>2. b.writerIndex + len \in Nat /\ b.writerIndex + len > Len(b.bytes)
    BY <1>1
  <2>3. /\ BufOK(made) /\ size(made) = b.writerIndex + len /\ toStringPiece(made) = toStringPiece(b)
        /\ made.writerIndex = b.writerIndex /\ made.readerIndex = b.readerIndex
    BY <2>1, <2>2, GrownBuffer
  <2> HIDE DEF made
  <2>4. writableBytes(made) = len /\ size(made) # size(b)
    BY <1>1, <2>2, <2>3 DEF writableBytes
  <2> QED BY <1>1, <2>3, <2>4 DEF made
<1>3. CASE ~(writableBytes(b) + prependableBytes(b) < len + kCheapPrepend)
  <2> DEFINE s == toStringPiece(b)
             bytes == Copied(b.bytes, kCheapPrepend, s)
             n == readableBytes(b)
  <2>1. kCheapPrepend < b.readerIndex /\ kCheapPrepend + n <= Len(b.bytes)
    <3>1. /\ b.readerIndex \in Nat /\ b.writerIndex \in Nat /\ Len(b.bytes) \in Nat
          /\ kCheapPrepend \in Nat /\ b.writerIndex <= Len(b.bytes)
          /\ n = b.writerIndex - b.readerIndex
      BY <1>1
    <3>2. /\ len > Len(b.bytes) - b.writerIndex
          /\ ~((Len(b.bytes) - b.writerIndex) + b.readerIndex < len + kCheapPrepend)
      BY <1>1, <1>3
    <3>3. \A r, w, l, k, m \in Nat :
            w <= l /\ m > l - w /\ ~((l - w) + r < m + k) => k < r /\ k + (w - r) <= l
      OBVIOUS
    <3> HIDE DEF n
    <3> QED BY <3>1, <3>2, <3>3
  <2>2. s \in Seq(Byte) /\ Len(s) = n /\ \A k \in 1 .. n : s[k] = b.bytes[b.readerIndex + k]
    BY PieceOf
  <2>3. /\ made.bytes = bytes /\ made.readerIndex = kCheapPrepend
        /\ made.writerIndex = kCheapPrepend + n
        /\ made = [bytes |-> bytes, readerIndex |-> kCheapPrepend,
                   writerIndex |-> kCheapPrepend + n]
    BY <1>3 DEF makeSpace, BufOK
  <2> HIDE DEF s, made, n
  <2>4. /\ bytes \in Seq(Byte) /\ Len(bytes) = Len(b.bytes)
        /\ \A k \in 1 .. Len(b.bytes) :
             bytes[k] = IF kCheapPrepend < k /\ k <= kCheapPrepend + n
                        THEN s[k - kCheapPrepend] ELSE b.bytes[k]
    <3> DEFINE old == b.bytes
    <3>1. old \in Seq(Byte) /\ kCheapPrepend + Len(s) <= Len(old) /\ kCheapPrepend \in Nat
      BY <1>1, <2>1, <2>2
    <3> HIDE DEF old
    <3>2. LET c == Copied(old, kCheapPrepend, s)
          IN  /\ c \in Seq(Byte) /\ Len(c) = Len(old)
              /\ \A k \in 1 .. Len(old) :
                   c[k] = IF kCheapPrepend < k /\ k <= kCheapPrepend + Len(s)
                          THEN s[k - kCheapPrepend] ELSE old[k]
      BY <2>2, <3>1, CopiedInto
    <3> QED BY <2>2, <3>2 DEF old
  <2> HIDE DEF bytes
  <2>5. n \in Nat
    BY <1>1 DEF n
  <2>6. BufOK(made)
    BY <1>1, <2>1, <2>3, <2>4, <2>5 DEF BufOK
  <2>7. toStringPiece(made) = toStringPiece(b)
    <3>1. readableBytes(made) = n
      BY <1>1, <2>3, <2>5 DEF readableBytes
    <3>2. ASSUME NEW k \in 1 .. n
          PROVE  made.bytes[made.readerIndex + k] = b.bytes[b.readerIndex + k]
      <4>1. kCheapPrepend + k \in 1 .. Len(b.bytes) /\ kCheapPrepend < kCheapPrepend + k
            /\ kCheapPrepend + k <= kCheapPrepend + n /\ (kCheapPrepend + k) - kCheapPrepend = k
        BY <1>1, <2>1, <2>5
      <4> QED BY <2>2, <2>3, <2>4, <4>1
    <3> QED BY <2>6, <3>1, <3>2, SamePiece DEF n
  <2>8. writableBytes(made) >= len
    <3>1. Len(made.bytes) = Len(b.bytes) /\ made.writerIndex = kCheapPrepend + n
      BY <2>3, <2>4
    <3>2. Len(b.bytes) - (kCheapPrepend + n) >= len
      <4>1. ASSUME NEW L \in Nat, NEW i \in Nat, NEW w \in Nat,
                   i <= w, ~ ((L - w) + i < len + kCheapPrepend)
            PROVE  L - (kCheapPrepend + (w - i)) >= len
        BY <4>1, BufferAssumption
      <4> QED BY <1>1, <1>3, <4>1 DEF n
    <3> QED BY <3>1, <3>2 DEF writableBytes, size
  <2> QED BY <2>1, <2>3, <2>6, <2>7, <2>8 DEF made
<1> QED BY <1>2, <1>3

LEMMA EnsuredSpace ==
  ASSUME NEW b, BufOK(b), NEW len \in Nat
  PROVE  LET e == ensureWritableBytes(b, len)
         IN  /\ BufOK(e) /\ toStringPiece(e) = toStringPiece(b)
             /\ writableBytes(e) >= len
             /\ e.readerIndex \in {b.readerIndex, kCheapPrepend}
<1>1. CASE writableBytes(b) < len
  BY <1>1, MadeSpace DEF ensureWritableBytes
<1>2. CASE ~(writableBytes(b) < len)
  BY <1>2, PieceOf DEF ensureWritableBytes
<1> QED BY <1>1, <1>2

LEMMA AppendedData ==
  ASSUME NEW b, BufOK(b), NEW data \in Seq(Byte)
  PROVE  LET c == append(b, data)
         IN  /\ BufOK(c) /\ toStringPiece(c) = toStringPiece(b) \o data
             /\ c.readerIndex \in {b.readerIndex, kCheapPrepend}
<1> DEFINE d == Len(data)
           e == ensureWritableBytes(b, d)
           bytes == Copied(e.bytes, e.writerIndex, data)
           c == append(b, data)
           s == toStringPiece(e)
           n == readableBytes(e)
<1>1. d \in Nat
  BY LenProperties
<1>2. /\ BufOK(e) /\ s = toStringPiece(b) /\ writableBytes(e) >= d
      /\ e.readerIndex \in {b.readerIndex, kCheapPrepend}
  <2> HIDE DEF d
  <2> QED BY <1>1, EnsuredSpace
<1>3. c = hasWritten([e EXCEPT !.bytes = bytes], d)
  BY DEF append
<1> HIDE DEF d, e
<1>4. /\ e.bytes \in Seq(Byte) /\ Len(e.bytes) \in Nat /\ e.readerIndex \in Nat
      /\ e.writerIndex \in Nat /\ e.readerIndex <= e.writerIndex /\ n \in Nat
      /\ n = e.writerIndex - e.readerIndex /\ e.writerIndex + d <= Len(e.bytes)
      /\ kCheapPrepend \in Nat /\ kCheapPrepend <= Len(e.bytes)
      /\ s \in Seq(Byte) /\ Len(s) = n
      /\ \A k \in 1 .. n : s[k] = e.bytes[e.readerIndex + k]
  <2> HIDE DEF s, n
  <2>1. /\ e.bytes \in Seq(Byte) /\ Len(e.bytes) \in Nat /\ e.readerIndex \in Nat
        /\ e.writerIndex \in Nat /\ e.readerIndex <= e.writerIndex
        /\ writableBytes(e) = Len(e.bytes) - e.writerIndex
        /\ kCheapPrepend \in Nat /\ kCheapPrepend <= Len(e.bytes)
    BY <1>2, PieceOf
  <2>2. e.writerIndex + d <= Len(e.bytes)
    BY <1>1, <1>2, <2>1
  <2>3. n = e.writerIndex - e.readerIndex /\ n \in Nat /\ s \in Seq(Byte) /\ Len(s) = n
        /\ \A k \in 1 .. n : s[k] = e.bytes[e.readerIndex + k]
    BY <1>2, PieceOf DEF s, n
  <2> QED BY <2>1, <2>2, <2>3
<1>5. /\ bytes \in Seq(Byte) /\ Len(bytes) = Len(e.bytes)
      /\ \A k \in 1 .. Len(e.bytes) :
           bytes[k] = IF e.writerIndex < k /\ k <= e.writerIndex + d
                      THEN data[k - e.writerIndex] ELSE e.bytes[k]
  <2> DEFINE old == e.bytes
             at == e.writerIndex
  <2>1. old \in Seq(Byte) /\ at \in Nat /\ at + Len(data) <= Len(old)
    BY <1>4 DEF d
  <2> HIDE DEF old, at
  <2>2. LET x == Copied(old, at, data)
        IN  /\ x \in Seq(Byte) /\ Len(x) = Len(old)
            /\ \A k \in 1 .. Len(old) :
                 x[k] = IF at < k /\ k <= at + Len(data) THEN data[k - at] ELSE old[k]
    BY <2>1, CopiedInto
  <2> QED BY <2>2 DEF old, at, d
<1> HIDE DEF bytes
<1>6. /\ c.bytes = bytes /\ c.readerIndex = e.readerIndex /\ c.writerIndex = e.writerIndex + d
      /\ c = [bytes |-> bytes, readerIndex |-> e.readerIndex, writerIndex |-> e.writerIndex + d]
  BY <1>2, <1>3 DEF hasWritten, BufOK
<1> HIDE DEF c, s, n
<1>7. BufOK(c)
  <2>1. /\ e.writerIndex + d \in Nat /\ e.readerIndex <= e.writerIndex + d
        /\ e.writerIndex + d <= Len(bytes) /\ kCheapPrepend <= Len(bytes)
    BY <1>1, <1>4, <1>5
  <2> QED BY <1>4, <1>5, <1>6, <2>1 DEF BufOK
<1>8. toStringPiece(c) = s \o data
  <2> DEFINE p == toStringPiece(c)
             q == s \o data
  <2>1. readableBytes(c) = n + d
    BY <1>1, <1>4, <1>6 DEF readableBytes
  <2>2. p \in Seq(Byte) /\ Len(p) = n + d /\ \A k \in 1 .. n + d : p[k] = c.bytes[c.readerIndex + k]
    BY <1>7, <2>1, PieceOf
  <2>3. q \in Seq(Byte) /\ Len(q) = n + d
        /\ \A k \in 1 .. n + d : q[k] = IF k <= n THEN s[k] ELSE data[k - n]
    <3>1. /\ q \in Seq(Byte) /\ Len(q) = Len(s) + Len(data)
          /\ \A k \in 1 .. Len(s) + Len(data) : q[k] = IF k <= Len(s) THEN s[k] ELSE data[k - Len(s)]
      BY <1>4, ConcatProperties
    <3> QED BY <1>4, <3>1 DEF d
  <2> HIDE DEF p, q
  <2> DEFINE from == e.readerIndex
             to == e.writerIndex
             all == Len(e.bytes)
  <2>4. /\ d \in Nat /\ n \in Nat /\ from \in Nat /\ to \in Nat /\ all \in Nat
        /\ n = to - from /\ to + d <= all
    BY <1>1, <1>4
  <2> HIDE DEF from, to, all
  <2>5. ASSUME NEW k \in 1 .. n + d
        PROVE  /\ k \in Nat /\ from + k \in 1 .. all
               /\ k <= n => k \in 1 .. n /\ ~(to < from + k)
               /\ ~(k <= n) => /\ to < from + k /\ from + k <= to + d
                              /\ (from + k) - to = k - n
    BY <2>4
  <2> USE DEF from, to, all
  <2>6. ASSUME NEW k \in 1 .. n + d PROVE p[k] = q[k]
    <3>1. p[k] = bytes[from + k]
      BY <1>6, <2>2
    <3>2. CASE k <= n
      <4>1. from + k \in 1 .. all /\ k \in 1 .. n /\ ~(to < from + k)
        BY <2>5, <3>2
      <4>2. bytes[from + k] = e.bytes[from + k]
        BY <1>5, <4>1
      <4>3. s[k] = e.bytes[from + k]
        BY <1>4, <4>1
      <4> QED BY <2>3, <3>1, <3>2, <4>2, <4>3
    <3>3. CASE ~(k <= n)
      <4>1. /\ from + k \in 1 .. all /\ to < from + k /\ from + k <= to + d
            /\ (from + k) - to = k - n
        BY <2>5, <3>3
      <4>2. bytes[from + k] = data[(from + k) - to]
        BY <1>5, <4>1
      <4>3. q[k] = data[k - n]
        BY <2>3, <3>3
      <4> QED BY <3>1, <4>1, <4>2, <4>3
    <3> QED BY <3>2, <3>3
  <2>7. p = q
    BY <2>2, <2>3, <2>6, SeqEqual
  <2> QED BY <2>7 DEF p, q
<1> QED BY <1>2, <1>6, <1>7, <1>8 DEF c

LEMMA PrependedData ==
  ASSUME NEW b, BufOK(b), NEW data \in Seq(Byte), Len(data) <= prependableBytes(b)
  PROVE  LET c == prepend(b, data)
         IN  BufOK(c) /\ toStringPiece(c) = data \o toStringPiece(b)
<1> DEFINE d == Len(data)
           at == b.readerIndex - d
           bytes == Copied(b.bytes, at, data)
           c == prepend(b, data)
           s == toStringPiece(b)
           n == readableBytes(b)
<1>1. d \in Nat /\ data \in Seq(Byte)
  BY LenProperties
<1>2. /\ b.bytes \in Seq(Byte) /\ Len(b.bytes) \in Nat /\ b.readerIndex \in Nat
      /\ b.writerIndex \in Nat /\ b.readerIndex <= b.writerIndex /\ n \in Nat
      /\ n = b.writerIndex - b.readerIndex /\ b.writerIndex <= Len(b.bytes)
      /\ kCheapPrepend \in Nat /\ kCheapPrepend <= Len(b.bytes)
      /\ s \in Seq(Byte) /\ Len(s) = n
      /\ \A k \in 1 .. n : s[k] = b.bytes[b.readerIndex + k]
  BY PieceOf DEF BufOK, readableBytes
<1>3. at \in Nat /\ at + d = b.readerIndex /\ d <= b.readerIndex
  BY <1>1, <1>2 DEF prependableBytes
<1>4. /\ c.bytes = bytes /\ c.readerIndex = at /\ c.writerIndex = b.writerIndex
      /\ c = [bytes |-> bytes, readerIndex |-> at, writerIndex |-> b.writerIndex]
  <2> HIDE DEF bytes
  <2>1. c = [b EXCEPT !.readerIndex = b.readerIndex - Len(data), !.bytes = bytes]
    BY DEF prepend, bytes
  <2> HIDE DEF c
  <2> QED BY <2>1 DEF BufOK
<1>5. /\ bytes \in Seq(Byte) /\ Len(bytes) = Len(b.bytes)
      /\ \A k \in 1 .. Len(b.bytes) :
           bytes[k] = IF at < k /\ k <= at + d THEN data[k - at] ELSE b.bytes[k]
  <2> DEFINE old == b.bytes
  <2>1. old \in Seq(Byte) /\ at + Len(data) <= Len(old)
    BY <1>2, <1>3
  <2> HIDE DEF old, at
  <2>2. LET x == Copied(old, at, data)
        IN  /\ x \in Seq(Byte) /\ Len(x) = Len(old)
            /\ \A k \in 1 .. Len(old) :
                 x[k] = IF at < k /\ k <= at + Len(data) THEN data[k - at] ELSE old[k]
    BY <1>3, <2>1, CopiedInto
  <2> QED BY <2>2 DEF old
<1> HIDE DEF bytes, c, d, at, s, n
<1>6. BufOK(c)
  <2>1. at <= b.writerIndex
    BY <1>1, <1>2, <1>3
  <2> QED BY <1>2, <1>3, <1>4, <1>5, <2>1 DEF BufOK
<1>7. toStringPiece(c) = data \o s
  <2> DEFINE p == toStringPiece(c)
             q == data \o s
  <2>1. readableBytes(c) = d + n
    BY <1>1, <1>2, <1>3, <1>4 DEF readableBytes
  <2>2. p \in Seq(Byte) /\ Len(p) = d + n /\ \A k \in 1 .. d + n : p[k] = c.bytes[c.readerIndex + k]
    BY <1>6, <2>1, PieceOf
  <2>3. q \in Seq(Byte) /\ Len(q) = d + n
        /\ \A k \in 1 .. d + n : q[k] = IF k <= d THEN data[k] ELSE s[k - d]
    <3>1. /\ q \in Seq(Byte) /\ Len(q) = Len(data) + Len(s)
          /\ \A k \in 1 .. Len(data) + Len(s) :
               q[k] = IF k <= Len(data) THEN data[k] ELSE s[k - Len(data)]
      <4>1. data \in Seq(Byte) /\ s \in Seq(Byte)
        BY <1>1, <1>2
      <4> QED BY <4>1, ConcatProperties
    <3> QED BY <1>2, <3>1 DEF d
  <2> HIDE DEF p, q
  <2>4. ASSUME NEW k \in 1 .. d + n PROVE p[k] = q[k]
    <3>1. k \in Nat /\ k >= 1 /\ k <= d + n /\ p[k] = bytes[at + k]
          /\ at + k \in 1 .. Len(b.bytes) /\ at < at + k
      <4>1. k \in Nat /\ k >= 1 /\ k <= d + n
        BY <1>1, <1>2
      <4>2. at + k >= 1 /\ at + k <= Len(b.bytes) /\ at < at + k
        <5>1. /\ at \in Nat /\ d \in Nat /\ n \in Nat /\ b.readerIndex = at + d
              /\ b.writerIndex = b.readerIndex + n /\ b.writerIndex <= Len(b.bytes)
              /\ Len(b.bytes) \in Nat
          BY <1>1, <1>2, <1>3
        <5> QED BY <4>1, <5>1
      <4>3. p[k] = bytes[at + k]
        BY <1>4, <2>2
      <4> QED BY <1>2, <1>3, <4>1, <4>2, <4>3
    <3>2. CASE k <= d
      <4>1. at + k <= at + d /\ (at + k) - at = k
        BY <1>1, <1>3, <3>1, <3>2
      <4>2. bytes[at + k] = data[k]
        BY <1>5, <3>1, <4>1
      <4> QED BY <2>3, <3>1, <3>2, <4>2
    <3>3. CASE k > d
      <4>1. ~(at + k <= at + d) /\ ~(k <= d) /\ k - d \in 1 .. n /\ b.readerIndex + (k - d) = at + k
        <5>1. d \in Nat /\ n \in Nat /\ at \in Nat /\ k \in Nat /\ b.readerIndex = at + d
              /\ k <= d + n /\ k > d
          BY <1>1, <1>2, <1>3, <3>1, <3>3
        <5> QED BY <5>1
      <4>2. bytes[at + k] = b.bytes[at + k] /\ s[k - d] = b.bytes[at + k]
        BY <1>2, <1>5, <3>1, <4>1
      <4> QED BY <2>3, <3>1, <4>1, <4>2
    <3> QED BY <1>1, <3>1, <3>2, <3>3
  <2>5. p = q
    BY <2>2, <2>3, <2>4, SeqEqual
  <2> QED BY <2>5 DEF p, q
<1> QED BY <1>6, <1>7 DEF c, s

LEMMA RetrievedBytes ==
  ASSUME NEW b, BufOK(b), NEW n \in Nat, n <= readableBytes(b)
  PROVE  LET c == retrieve(b, n)
             s == toStringPiece(b)
         IN  BufOK(c) /\ toStringPiece(c) = SubSeq(s, n + 1, Len(s))
<1> DEFINE c == retrieve(b, n)
           s == toStringPiece(b)
           r == readableBytes(b)
           q == SubSeq(s, n + 1, Len(s))
<1>1. /\ b.bytes \in Seq(Byte) /\ Len(b.bytes) \in Nat /\ b.readerIndex \in Nat
      /\ b.writerIndex \in Nat /\ b.readerIndex <= b.writerIndex /\ r \in Nat
      /\ r = b.writerIndex - b.readerIndex /\ b.writerIndex <= Len(b.bytes)
      /\ kCheapPrepend \in Nat /\ kCheapPrepend <= Len(b.bytes)
      /\ s \in Seq(Byte) /\ Len(s) = r
      /\ \A k \in 1 .. r : s[k] = b.bytes[b.readerIndex + k]
  BY PieceOf DEF BufOK, readableBytes
<1>2. q \in Seq(Byte) /\ Len(q) = r - n /\ \A k \in 1 .. r - n : q[k] = s[n + k]
  <2> HIDE DEF s, r
  <2>1. s \in Seq(Byte) /\ n \in Nat /\ n <= Len(s) /\ Len(s) \in Nat /\ Len(s) = r
    BY <1>1 DEF r
  <2>2. /\ q \in Seq(Byte) /\ Len(q) = Len(s) - n
        /\ \A k \in 1 .. Len(s) - n : q[k] = s[n + k]
    BY <2>1, Cut
  <2> QED BY <2>1, <2>2
<1>3. CASE n < r
  <2>1. /\ c.bytes = b.bytes /\ c.readerIndex = b.readerIndex + n /\ c.writerIndex = b.writerIndex
        /\ c = [bytes |-> b.bytes, readerIndex |-> b.readerIndex + n, writerIndex |-> b.writerIndex]
    BY <1>3 DEF retrieve, BufOK
  <2> HIDE DEF c, r, s, q
  <2>2. BufOK(c)
    <3>1. b.readerIndex + n \in Nat /\ b.readerIndex + n <= b.writerIndex
      BY <1>1, <1>3
    <3> QED BY <1>1, <2>1, <3>1 DEF BufOK
  <2>3. readableBytes(c) = r - n
    BY <1>1, <2>1 DEF readableBytes
  <2> DEFINE p == toStringPiece(c)
  <2>4. p \in Seq(Byte) /\ Len(p) = r - n
        /\ \A k \in 1 .. r - n : p[k] = b.bytes[b.readerIndex + n + k]
    BY <2>1, <2>2, <2>3, PieceOf
  <2> HIDE DEF p
  <2>5. \A k \in 1 .. r - n : n + k \in 1 .. r /\ b.readerIndex + (n + k) = b.readerIndex + n + k
    BY <1>1, <1>3
  <2>6. \A k \in 1 .. r - n : p[k] = q[k]
    BY <1>1, <1>2, <2>4, <2>5
  <2>7. p = q
    BY <1>2, <2>4, <2>6, SeqEqual
  <2> QED BY <2>2, <2>7 DEF p, q, c, s
<1>4. CASE ~(n < r)
  <2>1. /\ c.readerIndex = kCheapPrepend /\ c.writerIndex = kCheapPrepend
        /\ c = [bytes |-> b.bytes, readerIndex |-> kCheapPrepend, writerIndex |-> kCheapPrepend]
    BY <1>4 DEF retrieve, retrieveAll, BufOK
  <2>2. n = r /\ kCheapPrepend < kCheapPrepend + 1 /\ Len(s) < n + 1
    BY <1>1, <1>4
  <2>3. BufOK(c)
    BY <1>1, <2>1 DEF BufOK
  <2>4. toStringPiece(c) = <<>>
    BY <1>1, <2>1, <2>2, SubSeqEmpty DEF toStringPiece
  <2>5. q = <<>>
    BY <1>1, <2>2, SubSeqEmpty
  <2> QED BY <2>3, <2>4, <2>5
<1> QED BY <1>3, <1>4

LEMMA UnwrittenBytes ==
  ASSUME NEW b, BufOK(b), NEW n \in Nat, n <= readableBytes(b)
  PROVE  LET c == unwrite(b, n)
             s == toStringPiece(b)
         IN  BufOK(c) /\ toStringPiece(c) = SubSeq(s, 1, Len(s) - n)
<1> DEFINE c == unwrite(b, n)
           s == toStringPiece(b)
           r == readableBytes(b)
           q == SubSeq(s, 1, Len(s) - n)
           p == toStringPiece(c)
<1>1. /\ b.bytes \in Seq(Byte) /\ Len(b.bytes) \in Nat /\ b.readerIndex \in Nat
      /\ b.writerIndex \in Nat /\ b.readerIndex <= b.writerIndex /\ r \in Nat
      /\ r = b.writerIndex - b.readerIndex /\ b.writerIndex <= Len(b.bytes)
      /\ kCheapPrepend \in Nat /\ kCheapPrepend <= Len(b.bytes)
      /\ s \in Seq(Byte) /\ Len(s) = r
      /\ \A k \in 1 .. r : s[k] = b.bytes[b.readerIndex + k]
  BY PieceOf DEF BufOK, readableBytes
<1>2. /\ c.bytes = b.bytes /\ c.readerIndex = b.readerIndex /\ c.writerIndex = b.writerIndex - n
      /\ c = [bytes |-> b.bytes, readerIndex |-> b.readerIndex, writerIndex |-> b.writerIndex - n]
  BY DEF unwrite, BufOK
<1>3. q \in Seq(Byte) /\ Len(q) = r - n /\ \A k \in 1 .. r - n : q[k] = s[k]
  <2>1. r - n \in Nat /\ r - n <= Len(s)
    BY <1>1
  <2> HIDE DEF r, s
  <2> QED BY <1>1, <2>1, CutFront
<1> HIDE DEF c, r, s, q
<1>4. BufOK(c)
  <2>1. b.writerIndex - n \in Nat /\ b.readerIndex <= b.writerIndex - n
        /\ b.writerIndex - n <= Len(b.bytes)
    BY <1>1 DEF r
  <2> QED BY <1>1, <1>2, <2>1 DEF BufOK
<1>5. readableBytes(c) = r - n
  BY <1>1, <1>2 DEF readableBytes
<1>6. p \in Seq(Byte) /\ Len(p) = r - n /\ \A k \in 1 .. r - n : p[k] = b.bytes[b.readerIndex + k]
  BY <1>2, <1>4, <1>5, PieceOf
<1> HIDE DEF p
<1>7. \A k \in 1 .. r - n : k \in 1 .. r
  BY <1>1
<1>8. \A k \in 1 .. r - n : p[k] = q[k]
  BY <1>1, <1>3, <1>6, <1>7
<1>9. p = q
  BY <1>3, <1>6, <1>8, SeqEqual
<1> QED BY <1>4, <1>9 DEF p, q, c, s

LEMMA ShrunkBuffer ==
  ASSUME NEW b, BufOK(b), NEW reserve \in Nat
  PROVE  LET c == shrink(b, reserve)
         IN  BufOK(c) /\ toStringPiece(c) = toStringPiece(b)
<1> DEFINE e == ensureWritableBytes(NewBuffer, readableBytes(b) + reserve)
           s == toStringPiece(b)
<1>1. s \in Seq(Byte) /\ readableBytes(b) + reserve \in Nat
  BY PieceOf
<1>2. BufOK(e) /\ toStringPiece(e) = <<>>
  <2> HIDE DEF s
  <2> QED BY <1>1, NewIsEmpty, EnsuredSpace
<1> HIDE DEF e, s
<1>3. /\ BufOK(append(e, s)) /\ toStringPiece(append(e, s)) = <<>> \o s
  BY <1>1, <1>2, AppendedData
<1>4. <<>> \o s = s
  BY <1>1, ConcatEmptySeq
<1> QED BY <1>3, <1>4 DEF shrink, e, s

LEMMA SwappedIsReverse ==
  ASSUME NEW S, NEW x \in Seq(S)
  PROVE  Swapped(x) = Reverse(x) /\ Swapped(x) \in Seq(S) /\ Len(Swapped(x)) = Len(x)
<1>1. Len(x) \in Nat /\ \A k \in 1 .. Len(x) : x[k] \in S
  BY ElementOfSeq, LenProperties
<1>2. \A k \in 1 .. Len(x) : Len(x) + 1 - k \in 1 .. Len(x) /\ Len(x) + 1 - k = (Len(x) - k) + 1
  BY <1>1
<1>3. Swapped(x) = Reverse(x)
  BY <1>2 DEF Swapped, Reverse
<1> QED BY <1>1, <1>2, <1>3 DEF Swapped

LEMMA LengthBytes ==
  \A n \in Nat : HostBytes(n) \in Seq(Byte) /\ Len(HostBytes(n)) = sizeofLength
<1> SUFFICES ASSUME NEW n \in Nat
             PROVE  HostBytes(n) \in Seq(Byte) /\ Len(HostBytes(n)) = sizeofLength
  OBVIOUS
<1>1. \A k \in Nat : (n \div 256 ^ k) % 256 \in 0 .. 255
  OBVIOUS
<1>2. sizeofLength \in Nat /\ \A k \in 1 .. sizeofLength : k - 1 \in Nat
  BY DataAssumption DEF DataAssumption
<1> QED BY <1>1, <1>2 DEF HostBytes, Byte

\* The text occurs behind n bytes of s just if it is a prefix of what comes there.
LEMMA OccursAt ==
  ASSUME NEW s \in Seq(Byte), NEW text \in Seq(Byte), NEW n \in 0 .. Len(s)
  PROVE  IsPrefix(text, SubSeq(s, n + 1, Len(s)))
           <=> n <= Len(s) - Len(text) /\ \A k \in 1 .. Len(text) : s[n + k] = text[k]
<1> DEFINE t == Len(text)
           rest == SubSeq(s, n + 1, Len(s))
<1>1. t \in Nat /\ Len(s) \in Nat /\ n \in Nat /\ n <= Len(s)
  BY LenProperties
<1>2. rest \in Seq(Byte) /\ Len(rest) = Len(s) - n /\ \A k \in 1 .. Len(s) - n : rest[k] = s[n + k]
  BY <1>1, Cut
<1>3. SubSeq(text, 1, t) = text
  BY SubSeqFull
<1> HIDE DEF rest
<1>4. IsPrefix(text, rest) <=> t <= Len(s) - n /\ text = SubSeq(rest, 1, t)
  BY <1>2, <1>3 DEF IsPrefix
<1> HIDE DEF t
<1>5. ASSUME t <= Len(s) - n
      PROVE  text = SubSeq(rest, 1, t) <=> \A k \in 1 .. t : s[n + k] = text[k]
  <2> DEFINE head == SubSeq(rest, 1, t)
  <2>1. head \in Seq(Byte) /\ Len(head) = t /\ \A k \in 1 .. t : head[k] = rest[k]
    <3>1. t <= Len(rest)
      BY <1>1, <1>2, <1>5
    <3> QED BY <1>1, <1>2, <3>1, CutFront
  <2>2. \A k \in 1 .. t : k \in 1 .. Len(s) - n
    BY <1>1, <1>5
  <2> HIDE DEF head
  <2>3. \A k \in 1 .. t : head[k] = s[n + k]
    BY <1>2, <2>1, <2>2
  <2>4. (\A k \in 1 .. t : text[k] = head[k]) => text = head
    BY <2>1, SeqEqual DEF t
  <2> QED BY <2>3, <2>4 DEF head
<1>6. t <= Len(s) - n <=> n <= Len(s) - t
  BY <1>1
<1> QED BY <1>4, <1>5, <1>6 DEF t, rest

\* findCRLF and findEOL find the first place where the end of a line lies among
\* the readable bytes, if there is one.
LEMMA FoundIsFirst ==
  ASSUME NEW b, BufOK(b), NEW text \in Seq(Byte)
  PROVE  LET s == toStringPiece(b)
             Is(n) == IsPrefix(text, SubSeq(s, n + 1, Len(s)))
         IN  /\ Found(b, text, 0) # NotFound <=> \E n \in 0 .. Len(s) : Is(n)
             /\ \A n \in 0 .. Len(s) :
                  Is(n) /\ (\A m \in 0 .. n - 1 : ~Is(m)) =>
                    Found(b, text, 0) = n /\ n + Len(text) <= Len(s)
<1> DEFINE s == toStringPiece(b)
           Is(n) == IsPrefix(text, SubSeq(s, n + 1, Len(s)))
           At == {n \in 0 .. Len(s) - Len(text) : \A k \in 1 .. Len(text) : s[n + k] = text[k]}
<1>1. s \in Seq(Byte) /\ Len(s) \in Nat /\ Len(text) \in Nat
  BY PieceOf, LenProperties
<1>2. Found(b, text, 0) = IF At = {} THEN NotFound ELSE CHOOSE n \in At : \A m \in At : n <= m
  BY DEF Found
<1> HIDE DEF s
<1>3. \A n \in 0 .. Len(s) : Is(n) <=> n \in At
  <2> SUFFICES ASSUME NEW n \in 0 .. Len(s) PROVE Is(n) <=> n \in At
    OBVIOUS
  <2>1. Is(n) <=> n <= Len(s) - Len(text) /\ \A k \in 1 .. Len(text) : s[n + k] = text[k]
    BY <1>1, OccursAt
  <2>2. n \in 0 .. Len(s) - Len(text) <=> n <= Len(s) - Len(text)
    BY <1>1
  <2> QED BY <2>1, <2>2
<1>4. At \subseteq Nat /\ \A n \in At : n \in 0 .. Len(s) /\ n + Len(text) <= Len(s)
  BY <1>1
<1> HIDE DEF At, Is
<1>5. At # {} => /\ Found(b, text, 0) \in At
                 /\ \A m \in At : Found(b, text, 0) <= m
  BY <1>2, <1>4, LeastNumber
<1>6. Found(b, text, 0) # NotFound <=> \E n \in 0 .. Len(s) : Is(n)
  <2>1. \A n \in Nat : n # -1
    OBVIOUS
  <2> QED BY <1>2, <1>3, <1>4, <1>5, <2>1 DEF NotFound
<1>7. ASSUME NEW n \in 0 .. Len(s), Is(n), \A m \in 0 .. n - 1 : ~Is(m)
      PROVE  Found(b, text, 0) = n /\ n + Len(text) <= Len(s)
  <2> DEFINE f == Found(b, text, 0)
  <2>1. n \in At /\ n \in Nat
    BY <1>1, <1>3, <1>7
  <2>2. f \in At /\ f <= n /\ f \in Nat /\ f \in 0 .. Len(s)
    BY <1>4, <1>5, <2>1
  <2> HIDE DEF f
  <2>3. ~(f < n)
    <3>1. f < n => f \in 0 .. n - 1
      BY <2>1, <2>2
    <3> QED BY <1>3, <1>7, <2>2, <3>1
  <2>4. f = n
    BY <2>1, <2>2, <2>3
  <2> QED BY <1>4, <2>1, <2>4 DEF f
<1> QED BY <1>6, <1>7 DEF s, Is

BufferInv == BufOK(buffer) /\ toStringPiece(buffer) = content

LEMMA BufferNextInv == ASSUME BufferInv, [BufferNext]_bufferVars PROVE BufferInv'
<1>1. /\ BufOK(buffer) /\ toStringPiece(buffer) = content /\ content \in Seq(Byte)
      /\ Len(content) = readableBytes(buffer) /\ readableBytes(buffer) \in Nat
  BY PieceOf DEF BufferInv
<1>2. \A data \in Data : data \in Seq(Byte)
  BY DataAssumption DEF DataAssumption
<1>3. ASSUME NEW data \in Data, AppendData(data) PROVE BufferInv'
  BY <1>1, <1>2, <1>3, AppendedData DEF AppendData, BufferInv
<1>4. ASSUME NEW x \in Data, AppendInt(x) PROVE BufferInv'
  <2>1. Swapped(x) = Reverse(x) /\ Swapped(x) \in Seq(Byte)
    BY <1>2, SwappedIsReverse
  <2> QED BY <1>1, <1>4, <2>1, AppendedData DEF AppendInt, appendInt, BufferInv
<1>5. ASSUME NEW data \in Data, Prepend(data) PROVE BufferInv'
  BY <1>1, <1>2, <1>5, PrependedData DEF Prepend, BufferInv
<1>6. ASSUME NEW x \in Data, PrependInt(x) PROVE BufferInv'
  <2>1. Swapped(x) = Reverse(x) /\ Swapped(x) \in Seq(Byte) /\ Len(Swapped(x)) = Len(x)
    BY <1>2, SwappedIsReverse
  <2> QED BY <1>1, <1>6, <2>1, PrependedData DEF PrependInt, prependInt, BufferInv
<1>7. ASSUME NEW message \in Data, send(message) PROVE BufferInv'
  <2> DEFINE header == HostBytes(Len(message))
             b == append(NewBuffer, message)
  <2>1. message \in Seq(Byte) /\ Len(message) \in Nat
    BY <1>2, LenProperties
  <2>2. /\ BufOK(b) /\ toStringPiece(b) = <<>> \o message /\ b.readerIndex = kCheapPrepend
    BY <2>1, NewIsEmpty, AppendedData
  <2>3. <<>> \o message = message
    BY <2>1, ConcatEmptySeq
  <2>4. header \in Seq(Byte) /\ Len(header) = sizeofLength
    BY <2>1, LengthBytes
  <2> HIDE DEF header, b
  <2>5. Swapped(header) = Reverse(header) /\ Swapped(header) \in Seq(Byte)
        /\ Len(Swapped(header)) = sizeofLength
    BY <2>4, SwappedIsReverse
  <2>6. sizeofLength <= prependableBytes(b)
    BY <1>7, <2>2 DEF send, prependableBytes
  <2>7. BufOK(prependInt(b, header))
        /\ toStringPiece(prependInt(b, header)) = Reverse(header) \o message
    BY <2>2, <2>3, <2>5, <2>6, PrependedData DEF prependInt
  <2> QED BY <1>7, <2>7 DEF send, Framed, header, b, BufferInv
<1>8. ASSUME NEW n \in 0 .. readableBytes(buffer), Retrieve(n) PROVE BufferInv'
  <2>1. n \in Nat /\ n <= readableBytes(buffer)
    BY <1>1
  <2> QED BY <1>1, <1>8, <2>1, RetrievedBytes DEF Retrieve, BufferInv
<1>9. ASSUME NEW n \in 0 .. readableBytes(buffer), Unwrite(n) PROVE BufferInv'
  <2>1. n \in Nat /\ n <= readableBytes(buffer)
    BY <1>1
  <2> QED BY <1>1, <1>9, <2>1, UnwrittenBytes DEF Unwrite, BufferInv
<1>10. ASSUME NEW width \in {1, 2}, ReadInt(width) PROVE BufferInv'
  <2>1. width \in Nat /\ width <= readableBytes(buffer)
    BY <1>1, <1>10 DEF ReadInt, CanPeek
  <2> QED BY <1>1, <1>10, <2>1, RetrievedBytes DEF ReadInt, readInt, BufferInv
<1>11. CASE RetrieveAll
  <2>1. retrieve(buffer, readableBytes(buffer)) = retrieveAll(buffer)
    BY <1>1 DEF retrieve
  <2>2. SubSeq(content, Len(content) + 1, Len(content)) = <<>>
    BY <1>1, SubSeqEmpty
  <2> QED BY <1>1, <1>11, <2>1, <2>2, RetrievedBytes DEF RetrieveAll, BufferInv
<1>12. ASSUME NEW eol \in EndsOfLine, RetrieveLine(eol) PROVE BufferInv'
  <2>1. eol \in Seq(Byte) /\ Len(eol) \in Nat
    BY DataAssumption, LenProperties DEF DataAssumption
  <2>2. PICK n \in 0 .. Len(content) :
          /\ IsPrefix(eol, SubSeq(content, n + 1, Len(content)))
          /\ \A m \in 0 .. n - 1 : ~IsPrefix(eol, SubSeq(content, m + 1, Len(content)))
          /\ content' = SubSeq(content, n + Len(eol) + 1, Len(content))
    BY <1>12 DEF RetrieveLine
  <2>3. Found(buffer, eol, 0) = n /\ n + Len(eol) <= Len(content)
    BY <1>1, <2>1, <2>2, FoundIsFirst
  <2>4. n + Len(eol) \in Nat
    BY <1>1, <2>1
  <2> QED BY <1>1, <1>12, <2>2, <2>3, <2>4, RetrievedBytes DEF RetrieveLine, BufferInv
<1>13. ASSUME NEW reserve \in {0, 1}, Shrink(reserve) PROVE BufferInv'
  BY <1>1, <1>13, ShrunkBuffer DEF Shrink, BufferInv
<1>14. CASE UNCHANGED bufferVars
  BY <1>14 DEF bufferVars, BufferInv
<1> QED BY <1>3, <1>4, <1>5, <1>6, <1>7, <1>8, <1>9, <1>10, <1>11, <1>12, <1>13, <1>14 DEF BufferNext

LEMMA BufferInvariant == BufferSpec => []BufferInv
<1>1. ASSUME BufferInit PROVE BufferInv
  BY <1>1, NewIsEmpty DEF BufferInit, BufferInv
<1> QED BY <1>1, BufferNextInv, PTL DEF BufferSpec

\* What can be read from a Buffer is what was put in and not yet taken out, in
\* order, after any calls that keep to its assertions, for any bytes and sizes.
THEOREM BufferIsAQueue == BufferSpec => []ContentKept
<1>1. BufferInv => ContentKept
  BY DEF BufferInv, ContentKept
<1> QED BY <1>1, BufferInvariant, PTL

\* What Buffer asserts of itself never fails: its indices are in order, and data is
\* moved to the front only if it lies behind that.
THEOREM BufferAssertsHold == BufferSpec => []BufferAsserts
<1>1. ASSUME BufferInv PROVE BufferAsserts
  <2>1. IndicesOrdered
    BY <1>1, PieceOf DEF BufferInv, IndicesOrdered, size
  <2>2. ASSUME NEW len \in 0 .. MaxReadable, writableBytes(buffer) < len
        PROVE  LET made == makeSpace(buffer, len)
               IN  /\ size(made) = size(buffer) => kCheapPrepend < buffer.readerIndex
                   /\ toStringPiece(made) = content
                   /\ writableBytes(made) >= len
    <3>1. len \in Nat
      BY DataAssumption DEF DataAssumption
    <3> QED BY <1>1, <2>2, <3>1, MadeSpace DEF BufferInv
  <2> QED BY <2>1, <2>2 DEF BufferAsserts
<1> QED BY <1>1, BufferInvariant, PTL

-----------------------------------------------------------------------------
(***************************************************************************)
(* Codec.  A frame's bytes, field by field (FrameBytes), are what onMessage*)
(* takes off the buffer (TakenFrame); and since what is unread and on the  *)
(* wire is the frames that have not been handled, one behind the other, a  *)
(* buffer that holds a whole frame holds the next one in front.            *)
(***************************************************************************)
LEMMA FlattenType ==
  ASSUME NEW S, NEW s \in Seq(Seq(S))
  PROVE  FlattenSeq(s) \in Seq(S)
<1> DEFINE n == Len(s)
<1>1. n \in Nat /\ \A k \in 1 .. n : s[k] \in Seq(S)
  BY LenProperties, ElementOfSeq
<1>2. CASE n = 0
  BY <1>2, EmptySeq DEF FlattenSeq
<1>3. CASE n # 0
  <2>1. PICK g : Partial(g, s, n) /\ FlattenSeq(s) = g[n]
    BY <1>1, <1>3, FlattenIs
  <2> HIDE DEF n
  <2> DEFINE Bad == {k \in 1 .. n : ~(g[k] \in Seq(S))}
  <2>2. SUFFICES ASSUME Bad # {} PROVE FALSE
    <3>1. n \in 1 .. n
      BY <1>1, <1>3
    <3> QED BY <2>1, <3>1
  <2>3. PICK b \in Bad : \A k \in Bad : b <= k
    <3>1. Bad \subseteq Nat
      OBVIOUS
    <3> HIDE DEF Bad
    <3> QED BY <2>2, <3>1, LeastNumber
  <2>4. b \in 1 .. n /\ g[b] = IF b = 1 THEN s[b] ELSE g[b - 1] \o s[b]
    BY <1>1, <2>1, PartialAt
  <2>5. b # 1 => g[b - 1] \in Seq(S)
    <3>1. b # 1 => b - 1 \in 1 .. n /\ ~(b <= b - 1)
      BY <1>1, <2>4
    <3> QED BY <2>3, <3>1
  <2>6. g[b] \in Seq(S)
    BY <1>1, <2>4, <2>5, ConcatProperties
  <2> QED BY <2>3, <2>6
<1> QED BY <1>2, <1>3

LEMMA FlattenOne ==
  ASSUME NEW S, NEW x \in Seq(S)
  PROVE  FlattenSeq(<<x>>) = x /\ FlattenSeq(<<>>) = <<>>
<1>1. FlattenSeq(<<>>) = <<>>
  BY DEF FlattenSeq
<1>2. Append(<<>>, x) = <<x>> /\ <<>> \in Seq(Seq(S))
  OBVIOUS
<1>3. <<>> \o x = x
  BY ConcatEmptySeq
<1> QED BY <1>1, <1>2, <1>3, FlattenAppend

LEMMA LastOfFront ==
  ASSUME NEW S, NEW s \in Seq(S), NEW n \in Nat, n + 1 <= Len(s)
  PROVE  SubSeq(s, 1, n + 1) = Append(SubSeq(s, 1, n), s[n + 1])
<1> DEFINE p == SubSeq(s, 1, n + 1)
           f == SubSeq(s, 1, n)
           q == Append(f, s[n + 1])
<1>1. n + 1 \in Nat /\ n <= Len(s) /\ n + 1 \in 1 .. Len(s)
  BY LenProperties
<1>2. p \in Seq(S) /\ Len(p) = n + 1 /\ \A k \in 1 .. n + 1 : p[k] = s[k]
  BY <1>1, CutFront
<1>3. f \in Seq(S) /\ Len(f) = n /\ \A k \in 1 .. n : f[k] = s[k]
  BY <1>1, CutFront
<1>4. s[n + 1] \in S
  BY <1>1, ElementOfSeq
<1> HIDE DEF p, f
<1>5. q \in Seq(S) /\ Len(q) = n + 1 /\ q[n + 1] = s[n + 1] /\ \A k \in 1 .. n : q[k] = f[k]
  BY <1>3, <1>4, AppendProperties
<1> HIDE DEF q
<1>6. \A k \in 1 .. n + 1 : k \in 1 .. n \/ k = n + 1
  OBVIOUS
<1>7. \A k \in 1 .. n + 1 : p[k] = q[k]
  BY <1>2, <1>3, <1>5, <1>6
<1>8. p = q
  BY <1>2, <1>5, <1>7, SeqEqual
<1> QED BY <1>8 DEF p, f, q

LEMMA FlattenCons ==
  ASSUME NEW S, NEW s \in Seq(Seq(S)), NEW x \in Seq(S)
  PROVE  FlattenSeq(<<x>> \o s) = x \o FlattenSeq(s)
<1> DEFINE n == Len(s)
           FirstOf(k) == SubSeq(s, 1, k)
           Bad == {k \in 0 .. n : FlattenSeq(<<x>> \o FirstOf(k)) # x \o FlattenSeq(FirstOf(k))}
<1>1. n \in Nat /\ FirstOf(n) = s
  BY LenProperties, SubSeqFull
<1>2. <<x>> \in Seq(Seq(S))
  OBVIOUS
<1>3. \A k \in 0 .. n : FirstOf(k) \in Seq(Seq(S))
  <2>1. \A k \in 0 .. n : k \in Nat /\ k <= Len(s)
    BY <1>1
  <2> QED BY <2>1, CutFront
<1> HIDE DEF n
<1>4. SUFFICES ASSUME Bad # {} PROVE FALSE
  <2>1. n \in 0 .. n
    BY <1>1
  <2> HIDE DEF FirstOf
  <2>2. FlattenSeq(<<x>> \o FirstOf(n)) = x \o FlattenSeq(FirstOf(n))
    BY <2>1
  <2> QED BY <1>1, <2>2
<1>5. PICK m \in Bad : \A k \in Bad : m <= k
  <2>1. Bad \subseteq Nat
    BY <1>1
  <2> HIDE DEF Bad
  <2> QED BY <1>4, <2>1, LeastNumber
<1>6. m \in 0 .. n /\ FlattenSeq(<<x>> \o FirstOf(m)) # x \o FlattenSeq(FirstOf(m))
  OBVIOUS
<1>7. CASE m = 0
  <2>1. FirstOf(m) = <<>>
    BY <1>7, SubSeqEmpty
  <2>2. <<x>> \o <<>> = <<x>> /\ x \o <<>> = x
    BY <1>2, ConcatEmptySeq
  <2> QED BY <1>6, <2>1, <2>2, FlattenOne
<1>8. CASE m # 0
  <2> DEFINE j == m - 1
             f == FirstOf(j)
             e == s[m]
  <2>1. j \in Nat /\ j \in 0 .. n /\ ~(m <= j) /\ j + 1 = m /\ j + 1 <= n /\ m \in 1 .. n
    BY <1>1, <1>6, <1>8
  <2>2. FlattenSeq(<<x>> \o f) = x \o FlattenSeq(f)
    <3>1. j \notin Bad
      BY <1>5, <2>1
    <3> HIDE DEF FirstOf, j
    <3> QED BY <2>1, <3>1
  <2>3. f \in Seq(Seq(S)) /\ e \in Seq(S)
    BY <1>3, <2>1, ElementOfSeq DEF n
  <2>4. FirstOf(m) = Append(f, e)
    <3> HIDE DEF j
    <3> QED BY <2>1, LastOfFront DEF n
  <2> HIDE DEF f, e, FirstOf
  <2>5. <<x>> \o Append(f, e) = Append(<<x>> \o f, e)
    <3>1. Append(f, e) = f \o <<e>> /\ <<e>> \in Seq(Seq(S)) /\ <<x>> \o f \in Seq(Seq(S))
      BY <1>2, <2>3, AppendIsConcat, ConcatProperties
    <3>2. (<<x>> \o f) \o <<e>> = <<x>> \o (f \o <<e>>)
      BY <1>2, <2>3, <3>1, ConcatAssociative
    <3>3. Append(<<x>> \o f, e) = (<<x>> \o f) \o <<e>>
      BY <2>3, <3>1, AppendIsConcat
    <3> QED BY <3>1, <3>2, <3>3
  <2>6. FlattenSeq(Append(<<x>> \o f, e)) = FlattenSeq(<<x>> \o f) \o e
    <3>1. <<x>> \o f \in Seq(Seq(S))
      BY <1>2, <2>3, ConcatProperties
    <3> QED BY <2>3, <3>1, FlattenAppend
  <2>7. FlattenSeq(Append(f, e)) = FlattenSeq(f) \o e
    BY <2>3, FlattenAppend
  <2>8. (x \o FlattenSeq(f)) \o e = x \o (FlattenSeq(f) \o e)
    <3> DEFINE y == FlattenSeq(f)
    <3>1. y \in Seq(S) /\ x \in Seq(S) /\ e \in Seq(S)
      BY <2>3, FlattenType
    <3> HIDE DEF y
    <3>2. \A p, q, r \in Seq(S) : (p \o q) \o r = p \o (q \o r)
      BY ConcatAssociative, SMTT(30)
    <3>3. (x \o y) \o e = x \o (y \o e)
      BY <3>1, <3>2
    <3> QED BY <3>3 DEF y
  <2> QED BY <1>6, <2>2, <2>4, <2>5, <2>6, <2>7, <2>8
<1> QED BY <1>7, <1>8

\* Without its first n elements.
Drop(s, n) == SubSeq(s, n + 1, Len(s))

LEMMA DropIs ==
  ASSUME NEW S, NEW s \in Seq(S), NEW n \in Nat, n <= Len(s)
  PROVE  /\ Drop(s, n) \in Seq(S) /\ Len(Drop(s, n)) = Len(s) - n
         /\ \A k \in 1 .. Len(s) - n : Drop(s, n)[k] = s[n + k]
<1>1. Len(s) \in Nat /\ Len(s) <= Len(s)
  BY LenProperties
<1> QED BY <1>1, Cut DEF Drop

LEMMA DropTwice ==
  ASSUME NEW S, NEW s \in Seq(S), NEW n \in Nat, NEW m \in Nat, n + m <= Len(s)
  PROVE  Drop(Drop(s, n), m) = Drop(s, n + m)
<1> DEFINE p == Drop(s, n)
           q == Drop(p, m)
           r == Drop(s, n + m)
<1>1. Len(s) \in Nat /\ n <= Len(s) /\ m <= Len(s) - n /\ n + m \in Nat
  BY LenProperties
<1>2. p \in Seq(S) /\ Len(p) = Len(s) - n /\ \A k \in 1 .. Len(s) - n : p[k] = s[n + k]
  BY <1>1, DropIs
<1> HIDE DEF p
<1>3. q \in Seq(S) /\ Len(q) = Len(p) - m /\ \A k \in 1 .. Len(p) - m : q[k] = p[m + k]
  <2>1. m <= Len(p) /\ p \in Seq(S)
    BY <1>1, <1>2
  <2> QED BY <2>1, DropIs
<1>4. /\ r \in Seq(S) /\ Len(r) = Len(s) - (n + m)
      /\ \A k \in 1 .. Len(s) - (n + m) : r[k] = s[n + m + k]
  BY <1>1, DropIs
<1> HIDE DEF q, r
<1>5. Len(p) - m = Len(s) - (n + m)
  BY <1>1, <1>2
<1>6. \A k \in 1 .. Len(s) - (n + m) : m + k \in 1 .. Len(s) - n /\ n + (m + k) = n + m + k
  BY <1>1
<1>7. \A k \in 1 .. Len(s) - (n + m) : q[k] = r[k]
  BY <1>2, <1>3, <1>4, <1>5, <1>6
<1>8. q = r
  BY <1>3, <1>4, <1>5, <1>7, SeqEqual
<1> QED BY <1>8 DEF p, q, r

\* Of two ways to cut one stream in two, the shorter front is the front of the other.
LEMMA SplitOff ==
  ASSUME NEW S, NEW s \in Seq(S), NEW w \in Seq(S), NEW e \in Seq(S), NEW f \in Seq(S),
         s \o w = e \o f, Len(e) <= Len(s)
  PROVE  (\A k \in 1 .. Len(e) : s[k] = e[k]) /\ Drop(s, Len(e)) \o w = f
<1> DEFINE x == s \o w
           a == Len(s)
           b == Len(w)
           c == Len(e)
           d == Len(f)
           t == Drop(s, c)
           u == t \o w
<1>1. a \in Nat /\ b \in Nat /\ c \in Nat /\ d \in Nat /\ c <= a
  BY LenProperties
<1>2. Len(x) = a + b /\ \A k \in 1 .. a + b : x[k] = IF k <= a THEN s[k] ELSE w[k - a]
  BY ConcatProperties
<1>3. Len(x) = c + d /\ \A k \in 1 .. c + d : x[k] = IF k <= c THEN e[k] ELSE f[k - c]
  BY ConcatProperties
<1>4. t \in Seq(S) /\ Len(t) = a - c /\ \A k \in 1 .. a - c : t[k] = s[c + k]
  BY <1>1, DropIs
<1> HIDE DEF x, a, c, d, t
<1>5. /\ u \in Seq(S) /\ Len(u) = (a - c) + b
      /\ \A k \in 1 .. (a - c) + b : u[k] = IF k <= a - c THEN t[k] ELSE w[k - (a - c)]
  <2>1. /\ u \in Seq(S) /\ Len(u) = Len(t) + Len(w)
        /\ \A k \in 1 .. Len(t) + Len(w) : u[k] = IF k <= Len(t) THEN t[k] ELSE w[k - Len(t)]
    BY <1>4, ConcatProperties
  <2> QED BY <1>4, <2>1
<1> HIDE DEF u, b
<1>6. ASSUME NEW k \in 1 .. c PROVE s[k] = e[k]
  <2>1. k \in 1 .. a + b /\ k \in 1 .. c + d /\ k <= a /\ k <= c
    BY <1>1
  <2> QED BY <1>2, <1>3, <2>1
<1>7. d = (a - c) + b
  BY <1>1, <1>2, <1>3
<1>8. ASSUME NEW k \in 1 .. d PROVE u[k] = f[k]
  <2>1. /\ k \in Nat /\ c + k \in 1 .. c + d /\ c + k \in 1 .. a + b /\ ~(c + k <= c)
        /\ (c + k) - c = k /\ k \in 1 .. (a - c) + b
    BY <1>1, <1>7
  <2>2. f[k] = x[c + k]
    BY <1>3, <2>1
  <2>3. CASE k <= a - c
    <3>1. c + k <= a /\ k \in 1 .. a - c
      BY <1>1, <2>1, <2>3
    <3> QED BY <1>2, <1>4, <1>5, <2>1, <2>2, <2>3, <3>1
  <2>4. CASE ~(k <= a - c)
    <3>1. ~(c + k <= a) /\ (c + k) - a = k - (a - c)
      BY <1>1, <2>1, <2>4
    <3> QED BY <1>2, <1>5, <2>1, <2>2, <2>4, <3>1
  <2> QED BY <2>3, <2>4
<1>9. u = f
  BY <1>5, <1>7, <1>8, SeqEqual DEF d
<1> QED BY <1>6, <1>9 DEF u, t, c

\* Where the fields of a frame lie in its bytes.
HasId(f) == f.flag \in IdAndImage \cup IdOnly

HeaderLen(f) == IF HasId(f) THEN kHeaderLen + (kHeaderLen + kHeaderLen) ELSE kHeaderLen + kHeaderLen

\* The four bytes of an int32_t, of either sign, are that int32_t.
LEMMA WordNumber ==
  ASSUME NEW n \in Int32
  PROVE  /\ Word(n) \in Seq(Byte) /\ Len(Word(n)) = kHeaderLen
         /\ Number(Word(n)) = n
<1> DEFINE w == Word(n)
<1>1. /\ n \in Int /\ -2147483647 - 1 <= n /\ n <= 2147483647
  <2>1. INT32_MAX \in Int
    BY DEF INT32_MAX
  <2>2. n \in Int /\ -INT32_MAX - 1 <= n /\ n <= INT32_MAX
    BY <2>1 DEF Int32
  <2> QED BY <2>2 DEF INT32_MAX
<1>2. /\ w \in Seq(Byte) /\ Len(w) = kHeaderLen
      /\ w[1] = n % 256 /\ w[2] = (n \div 256) % 256
      /\ w[3] = (n \div 65536) % 256 /\ w[4] = (n \div 16777216) % 256
  <2>1. /\ n % 256 \in Byte /\ (n \div 256) % 256 \in Byte
        /\ (n \div 65536) % 256 \in Byte /\ (n \div 16777216) % 256 \in Byte
    BY <1>1 DEF Byte
  <2> QED BY <2>1 DEF Word, kHeaderLen
<1> HIDE DEF w
<1>3. /\ n = (256 * (n \div 256)) + (n % 256)
      /\ n \div 256 = (256 * (n \div 65536)) + ((n \div 256) % 256)
      /\ n \div 65536 = (256 * (n \div 16777216)) + ((n \div 65536) % 256)
  BY <1>1
<1>4. n \div 16777216 = IF (n \div 16777216) % 256 < 128 THEN (n \div 16777216) % 256
                        ELSE ((n \div 16777216) % 256) - 256
  BY <1>1
<1>5. Number(w) = n
  BY <1>1, <1>2, <1>3, <1>4 DEF Number
<1> QED BY <1>2, <1>5 DEF w

\* Bytes that are those of the word of n make n; in network order they are swapped first.
LEMMA NumberOf ==
  ASSUME NEW n \in Int32, NEW p \in Seq(Byte), Len(p) = kHeaderLen,
         \A k \in 1 .. kHeaderLen : p[k] = Word(n)[k]
  PROVE  Number(p) = n
<1>1. Word(n) \in Seq(Byte) /\ Len(Word(n)) = kHeaderLen /\ Number(Word(n)) = n
  BY WordNumber
<1>2. p = Word(n)
  BY <1>1, SeqEqual
<1> QED BY <1>1, <1>2

LEMMA SwappedWord ==
  ASSUME NEW n \in Int32, NEW p \in Seq(Byte), Len(p) = kHeaderLen,
         \A k \in 1 .. kHeaderLen : p[k] = Reverse(Word(n))[k]
  PROVE  Number(Swapped(p)) = n
<1> DEFINE w == Word(n)
           q == Swapped(p)
<1>1. /\ w \in Seq(Byte) /\ Len(w) = kHeaderLen /\ kHeaderLen \in Nat
  BY WordNumber DEF kHeaderLen
<1>2. /\ q \in Seq(Byte) /\ Len(q) = kHeaderLen
  BY <1>1, SwappedIsReverse
<1> HIDE DEF w
<1>3. ASSUME NEW k \in 1 .. kHeaderLen PROVE q[k] = w[k]
  <2>1. /\ kHeaderLen + 1 - k \in 1 .. kHeaderLen
        /\ (kHeaderLen - (kHeaderLen + 1 - k)) + 1 = k
    BY <1>1
  <2>2. q[k] = p[kHeaderLen + 1 - k]
    BY <1>1 DEF Swapped
  <2>3. Reverse(w)[kHeaderLen + 1 - k] = w[k]
    BY <1>1, <2>1 DEF Reverse
  <2> QED BY <2>1, <2>2, <2>3 DEF w
<1> HIDE DEF q
<1> QED BY <1>1, <1>2, <1>3, NumberOf DEF w, q

LEMMA WordBytes ==
  ASSUME NEW n \in Int32
  PROVE  /\ Word(n) \in Seq(Byte) /\ Len(Word(n)) = kHeaderLen
         /\ Reverse(Word(n)) \in Seq(Byte) /\ Len(Reverse(Word(n))) = kHeaderLen
<1>1. Word(n) \in Seq(Byte) /\ Len(Word(n)) = kHeaderLen
  BY WordNumber
<1> QED BY <1>1, SwappedIsReverse

LEMMA FrameBytes ==
  ASSUME NEW f \in Frames
  PROVE  /\ kHeaderLen \in Nat /\ kHeaderLen >= 1 /\ HeaderLen(f) \in Nat
         /\ f \in [flag : Int32, id : Int32, image : Seq(Byte)]
         /\ Encode(f) \in Seq(Byte) /\ Len(f.image) \in Nat
         /\ Len(Encode(f)) = HeaderLen(f) + Len(f.image) /\ Len(Encode(f)) \in Int32
         /\ \A k \in 1 .. kHeaderLen :
              /\ Encode(f)[k] = Word(Len(Encode(f)))[k]
              /\ Encode(f)[kHeaderLen + k] = Reverse(Word(f.flag))[k]
              /\ HasId(f) => Encode(f)[(kHeaderLen + kHeaderLen) + k] = Word(f.id)[k]
         /\ \A k \in 1 .. Len(f.image) : Encode(f)[HeaderLen(f) + k] = f.image[k]
<1> DEFINE h == kHeaderLen
           n == Len(f.image)
           id == IF HasId(f) THEN Word(f.id) ELSE <<>>
           i2 == IF HasId(f) THEN h ELSE 0
           flag == Reverse(Word(f.flag))
           front == flag \o id
           body == front \o f.image
           len == Word(h + Len(body))
           e == len \o body
<1>1. /\ h \in Nat /\ h >= 1 /\ f \in [flag : Int32, id : Int32, image : Seq(Byte)]
      /\ 3 * h + Len(f.image) \in Int32
  BY CodecAssumption DEF CodecAssumption, kHeaderLen
<1>2. n \in Nat /\ f.image \in Seq(Byte)
  BY <1>1, LenProperties
<1>3. flag \in Seq(Byte) /\ Len(flag) = h
  BY <1>1, WordBytes
<1>4. /\ id \in Seq(Byte) /\ Len(id) = i2 /\ i2 \in Nat
      /\ HasId(f) => id = Word(f.id)
  BY <1>1, WordBytes, EmptySeq
<1> HIDE DEF flag, id
<1>5. /\ front \in Seq(Byte) /\ Len(front) = h + i2
      /\ \A k \in 1 .. h : front[k] = flag[k]
      /\ HasId(f) => \A k \in 1 .. h : front[h + k] = id[k]
  <2>1. /\ front \in Seq(Byte) /\ Len(front) = Len(flag) + Len(id)
        /\ \A k \in 1 .. Len(flag) + Len(id) : front[k] = IF k <= Len(flag) THEN flag[k]
                                                          ELSE id[k - Len(flag)]
    BY <1>3, <1>4, ConcatProperties
  <2> HIDE DEF front
  <2>2. \A k \in 1 .. h : k \in 1 .. h + i2 /\ k <= h
    BY <1>1, <1>4
  <2>3. HasId(f) => \A k \in 1 .. h : h + k \in 1 .. h + i2 /\ ~(h + k <= h) /\ (h + k) - h = k
    BY <1>1
  <2> QED BY <1>3, <1>4, <2>1, <2>2, <2>3
<1> HIDE DEF front
<1>6. /\ body \in Seq(Byte) /\ Len(body) = (h + i2) + n
      /\ \A k \in 1 .. h : body[k] = flag[k]
      /\ HasId(f) => \A k \in 1 .. h : body[h + k] = id[k]
      /\ \A k \in 1 .. n : body[(h + i2) + k] = f.image[k]
  <2>1. /\ body \in Seq(Byte) /\ Len(body) = Len(front) + Len(f.image)
        /\ \A k \in 1 .. Len(front) + Len(f.image) :
             body[k] = IF k <= Len(front) THEN front[k] ELSE f.image[k - Len(front)]
    BY <1>2, <1>5, ConcatProperties
  <2> HIDE DEF body
  <2>2. \A k \in 1 .. h : k \in 1 .. (h + i2) + n /\ k <= h + i2
    BY <1>1, <1>2, <1>4
  <2>3. HasId(f) => \A k \in 1 .. h : h + k \in 1 .. (h + i2) + n /\ h + k <= h + i2
    BY <1>1, <1>2
  <2> HIDE DEF i2, n
  <2>4. \A k \in 1 .. n : /\ (h + i2) + k \in 1 .. (h + i2) + n /\ ~((h + i2) + k <= h + i2)
                          /\ ((h + i2) + k) - (h + i2) = k
    BY <1>1, <1>2, <1>4
  <2> QED BY <1>5, <2>1, <2>2, <2>3, <2>4 DEF n
<1> HIDE DEF body
<1>7. h + Len(body) \in Int32 /\ HeaderLen(f) = h + (h + i2) /\ HeaderLen(f) \in Nat
  <2>1. INT32_MAX \in Nat
    BY DEF INT32_MAX
  <2>2. 3 * h + n <= INT32_MAX /\ h \in Nat /\ n \in Nat
    BY <1>1, <1>2, <2>1 DEF Int32
  <2>3. Len(body) = (h + h) + n \/ Len(body) = (h + 0) + n
    BY <1>6
  <2>4. HeaderLen(f) = h + (h + i2) /\ HeaderLen(f) \in Nat
    BY <1>1 DEF HeaderLen
  <2> HIDE DEF h, n, i2
  <2>5. h + Len(body) \in Nat /\ h + Len(body) <= 3 * h + n
    BY <2>2, <2>3
  <2>6. h + Len(body) \in Int32
    BY <2>1, <2>2, <2>5 DEF Int32
  <2> QED BY <2>4, <2>6
<1>8. len \in Seq(Byte) /\ Len(len) = h
  BY <1>7, WordBytes
<1> HIDE DEF len
<1>9. Encode(f) = e
  BY DEF Encode, HasId, e, len, body, front, id, flag
<1>10. /\ e \in Seq(Byte) /\ Len(e) = h + Len(body)
       /\ \A k \in 1 .. h + Len(body) : e[k] = IF k <= h THEN len[k] ELSE body[k - h]
  <2>1. len \in Seq(Byte) /\ body \in Seq(Byte)
    BY <1>6, <1>8
  <2>2. /\ e \in Seq(Byte) /\ Len(e) = Len(len) + Len(body)
        /\ \A k \in 1 .. Len(len) + Len(body) : e[k] = IF k <= Len(len) THEN len[k]
                                                       ELSE body[k - Len(len)]
    BY <2>1, ConcatProperties
  <2> HIDE DEF e
  <2> QED BY <1>8, <2>2
<1> HIDE DEF e
<1>11. Len(e) = HeaderLen(f) + n /\ Len(e) \in Int32 /\ len = Word(Len(e))
  <2>1. Len(e) = HeaderLen(f) + n
    BY <1>1, <1>2, <1>4, <1>6, <1>7, <1>10
  <2> QED BY <1>7, <1>10, <2>1 DEF len
<1>12. ASSUME NEW k \in 1 .. h
       PROVE  /\ e[k] = len[k] /\ e[h + k] = flag[k]
              /\ HasId(f) => e[(h + h) + k] = id[k]
  <2>1. k \in 1 .. h + Len(body) /\ k <= h
    BY <1>1, <1>2, <1>4, <1>6
  <2>2. h + k \in 1 .. h + Len(body) /\ ~(h + k <= h) /\ (h + k) - h = k
    BY <1>1, <1>2, <1>4, <1>6
  <2>3. HasId(f) => /\ (h + h) + k \in 1 .. h + Len(body) /\ ~((h + h) + k <= h)
                    /\ ((h + h) + k) - h = h + k
    BY <1>1, <1>2, <1>6
  <2> QED BY <1>6, <1>10, <2>1, <2>2, <2>3
<1>13. ASSUME NEW k \in 1 .. n PROVE e[HeaderLen(f) + k] = f.image[k]
  <2> HIDE DEF i2, n
  <2>1. /\ HeaderLen(f) + k \in 1 .. h + Len(body) /\ ~(HeaderLen(f) + k <= h)
        /\ (HeaderLen(f) + k) - h = (h + i2) + k
    BY <1>1, <1>2, <1>4, <1>6, <1>7
  <2> QED BY <1>6, <1>10, <2>1
<1>14. /\ \A k \in 1 .. h : e[k] = Word(Len(e))[k] /\ e[h + k] = Reverse(Word(f.flag))[k]
       /\ HasId(f) => \A k \in 1 .. h : e[(h + h) + k] = Word(f.id)[k]
  BY <1>4, <1>11, <1>12 DEF flag
<1> QED BY <1>1, <1>2, <1>7, <1>9, <1>10, <1>11, <1>13, <1>14

\* retrieve drops from what can be read; and a byte at peek() is one of those.
LEMMA RetrieveDrops ==
  ASSUME NEW b, BufOK(b), NEW n \in Nat, n <= Len(toStringPiece(b))
  PROVE  BufOK(retrieve(b, n)) /\ toStringPiece(retrieve(b, n)) = Drop(toStringPiece(b), n)
BY PieceOf, RetrievedBytes DEF Drop

LEMMA PeekedBytes ==
  ASSUME NEW b, BufOK(b), NEW n \in Nat, n <= Len(toStringPiece(b))
  PROVE  LET p == SubSeq(b.bytes, b.readerIndex + 1, b.readerIndex + n)
         IN  /\ p \in Seq(Byte) /\ Len(p) = n
             /\ \A k \in 1 .. n : p[k] = toStringPiece(b)[k]
<1> DEFINE bytes == b.bytes
           from == b.readerIndex
           to == b.readerIndex + n
           p == SubSeq(bytes, from + 1, to)
<1>1. /\ bytes \in Seq(Byte) /\ from \in Nat /\ to \in Nat /\ from <= to /\ to <= Len(bytes)
      /\ to - from = n
      /\ \A k \in 1 .. n : toStringPiece(b)[k] = bytes[from + k]
  <2>1. /\ bytes \in Seq(Byte) /\ from \in Nat /\ b.writerIndex \in Nat /\ from <= b.writerIndex
        /\ b.writerIndex <= Len(bytes)
    BY PieceOf
  <2>2. /\ Len(toStringPiece(b)) = b.writerIndex - from
        /\ \A k \in 1 .. b.writerIndex - from : toStringPiece(b)[k] = bytes[from + k]
    BY PieceOf
  <2> HIDE DEF bytes, from
  <2>3. to = from + n /\ Len(bytes) \in Nat
    BY <2>1, LenProperties DEF from
  <2>4. to \in Nat /\ from <= to /\ to <= Len(bytes) /\ to - from = n
        /\ n <= b.writerIndex - from
    BY <2>1, <2>2, <2>3
  <2>5. \A k \in 1 .. n : k \in 1 .. b.writerIndex - from
    BY <2>1, <2>4
  <2> QED BY <2>1, <2>2, <2>4, <2>5
<1> HIDE DEF bytes, from, to
<1>2. p \in Seq(Byte) /\ Len(p) = to - from /\ \A k \in 1 .. to - from : p[k] = bytes[from + k]
  BY <1>1, Cut
<1>3. /\ p \in Seq(Byte) /\ Len(p) = n
      /\ \A k \in 1 .. n : p[k] = toStringPiece(b)[k]
  BY <1>1, <1>2
<1> QED BY <1>3 DEF bytes, from, to

LEMMA DropBytes ==
  ASSUME NEW q \in Seq(Byte), NEW m \in Nat, m <= Len(q)
  PROVE  Len(Drop(q, m)) = Len(q) - m /\ \A k \in 1 .. Len(q) - m : Drop(q, m)[k] = q[m + k]
BY DropIs

\* From a buffer that begins with a frame, onMessage takes just that frame.
LEMMA TakenFrame ==
  ASSUME NEW b, BufOK(b), NEW f \in Frames,
         Len(Encode(f)) <= Len(toStringPiece(b)),
         \A k \in 1 .. Len(Encode(f)) : toStringPiece(b)[k] = Encode(f)[k]
  PROVE  /\ BufOK(Taken(b).rest) /\ Taken(b).call = f
         /\ toStringPiece(Taken(b).rest) = Drop(toStringPiece(b), Len(Encode(f)))
<1> DEFINE h == kHeaderLen
           s == toStringPiece(b)
           e == Encode(f)
           n == Len(f.image)
           b1 == retrieve(b, h)
           head == retrieve(b1, h)
           body == IF HasId(f) THEN retrieve(head, h) ELSE head
           rest == IF n = 0 THEN body ELSE retrieve(body, n)
<1>1. /\ h \in Nat /\ h >= 1 /\ HeaderLen(f) \in Nat /\ n \in Nat
      /\ Len(e) = HeaderLen(f) + n /\ Len(e) \in Nat
  <2>1. /\ h \in Nat /\ h >= 1 /\ HeaderLen(f) \in Nat /\ n \in Nat
        /\ Len(e) = HeaderLen(f) + n /\ e \in Seq(Byte)
    BY FrameBytes
  <2> HIDE DEF e, n
  <2> QED BY <2>1, LenProperties
<1>types. f \in [flag : Int32, id : Int32, image : Seq(Byte)] /\ Len(e) \in Int32
  BY FrameBytes
<1>fields.
      /\ \A k \in 1 .. h : /\ e[k] = Word(Len(e))[k]
                           /\ e[h + k] = Reverse(Word(f.flag))[k]
                           /\ HasId(f) => e[(h + h) + k] = Word(f.id)[k]
      /\ \A k \in 1 .. n : e[HeaderLen(f) + k] = f.image[k]
  BY FrameBytes
<1>2. s \in Seq(Byte) /\ Len(s) \in Nat /\ Len(e) <= Len(s) /\ (\A k \in 1 .. Len(e) : s[k] = e[k])
  BY PieceOf
<1>3. HeaderLen(f) = IF HasId(f) THEN (h + h) + h ELSE h + h
  BY <1>1 DEF HeaderLen
<1> HIDE DEF e, n
<1>4. /\ Len(e) \in Nat /\ h + h \in Nat /\ h + h <= Len(e) /\ h + h <= Len(s) /\ h <= Len(s)
      /\ HeaderLen(f) <= Len(s) /\ HeaderLen(f) + n <= Len(s)
  BY <1>1, <1>2, <1>3
<1>5. /\ \A k \in 1 .. h : s[k] = Word(Len(e))[k]
      /\ \A k \in 1 .. h : s[h + k] = Reverse(Word(f.flag))[k]
      /\ HasId(f) => \A k \in 1 .. h : s[(h + h) + k] = Word(f.id)[k]
      /\ \A k \in 1 .. n : s[HeaderLen(f) + k] = f.image[k]
  <2>1. \A k \in 1 .. h : k \in 1 .. Len(e) /\ h + k \in 1 .. Len(e)
    <3>1. \A a, c \in Nat : a + a <= c => \A k \in 1 .. a : k \in 1 .. c /\ a + k \in 1 .. c
      OBVIOUS
    <3>2. h \in Nat /\ Len(e) \in Nat /\ h + h <= Len(e)
      BY <1>1, <1>4
    <3> HIDE DEF h
    <3> QED BY <3>1, <3>2
  <2>2. HasId(f) => \A k \in 1 .. h : (h + h) + k \in 1 .. Len(e)
    BY <1>1, <1>3
  <2>3. \A k \in 1 .. n : HeaderLen(f) + k \in 1 .. Len(e)
    BY <1>1
  <2> QED BY <1>2, <1>fields, <2>1, <2>2, <2>3
<1>6. BufOK(b1) /\ toStringPiece(b1) = Drop(s, h)
  BY <1>1, <1>4, RetrieveDrops
<1> HIDE DEF b1, s
<1>7. /\ Len(Drop(s, h)) = Len(s) - h
      /\ \A k \in 1 .. Len(s) - h : Drop(s, h)[k] = s[h + k]
  BY <1>1, <1>2, <1>4, DropBytes
<1>8. BufOK(head) /\ toStringPiece(head) = Drop(s, h + h)
  <2>1. h <= Len(Drop(s, h))
    BY <1>1, <1>2, <1>4, <1>7
  <2>2. BufOK(head) /\ toStringPiece(head) = Drop(Drop(s, h), h)
    BY <1>1, <1>6, <2>1, RetrieveDrops
  <2>3. Drop(Drop(s, h), h) = Drop(s, h + h)
    BY <1>1, <1>2, <1>4, DropTwice
  <2> QED BY <2>2, <2>3
<1>9. /\ Len(Drop(s, h + h)) = Len(s) - (h + h)
      /\ \A k \in 1 .. Len(s) - (h + h) : Drop(s, h + h)[k] = s[(h + h) + k]
  <2>1. s \in Seq(Byte) /\ h + h \in Nat /\ h + h <= Len(s)
    BY <1>2, <1>4
  <2> HIDE DEF h
  <2> QED BY <2>1, DropBytes
<1> HIDE DEF head
<1>10. HostWord(b) = Len(e)
  <2> DEFINE p == SubSeq(b.bytes, b.readerIndex + 1, b.readerIndex + h)
  <2>1. p \in Seq(Byte) /\ Len(p) = h /\ \A k \in 1 .. h : p[k] = s[k]
    BY <1>1, <1>4, PeekedBytes DEF s
  <2> HIDE DEF p
  <2>2. Len(e) \in Int32 /\ \A k \in 1 .. h : p[k] = Word(Len(e))[k]
    BY <1>5, <1>types, <2>1
  <2>3. Number(p) = Len(e)
    BY <2>1, <2>2, NumberOf
  <2> QED BY <2>3 DEF HostWord, p
<1>11. NetworkWord(b1) = f.flag
  <2> DEFINE p == SubSeq(b1.bytes, b1.readerIndex + 1, b1.readerIndex + h)
  <2>1. h <= Len(toStringPiece(b1)) /\ \A k \in 1 .. h : k \in 1 .. Len(s) - h
    BY <1>1, <1>2, <1>4, <1>6, <1>7
  <2>2. p \in Seq(Byte) /\ Len(p) = h /\ \A k \in 1 .. h : p[k] = toStringPiece(b1)[k]
    BY <1>1, <1>6, <2>1, PeekedBytes
  <2>3. \A k \in 1 .. h : p[k] = Reverse(Word(f.flag))[k]
    BY <1>5, <1>6, <1>7, <2>1, <2>2
  <2> HIDE DEF p
  <2>4. f.flag \in Int32
    BY <1>types
  <2>5. Number(Swapped(p)) = f.flag
    BY <2>2, <2>3, <2>4, SwappedWord
  <2> QED BY <2>5 DEF NetworkWord, peekInt, p
<1>12. HasId(f) => HostWord(head) = f.id
  <2> SUFFICES ASSUME HasId(f) PROVE HostWord(head) = f.id
    OBVIOUS
  <2> DEFINE p == SubSeq(head.bytes, head.readerIndex + 1, head.readerIndex + h)
  <2>1. h <= Len(toStringPiece(head)) /\ \A k \in 1 .. h : k \in 1 .. Len(s) - (h + h)
    BY <1>1, <1>2, <1>3, <1>4, <1>8, <1>9
  <2>2. p \in Seq(Byte) /\ Len(p) = h /\ \A k \in 1 .. h : p[k] = toStringPiece(head)[k]
    BY <1>1, <1>8, <2>1, PeekedBytes
  <2>3. \A k \in 1 .. h : p[k] = Word(f.id)[k]
    BY <1>5, <1>8, <1>9, <2>1, <2>2
  <2> HIDE DEF p
  <2>4. f.id \in Int32
    BY <1>types
  <2>5. Number(p) = f.id
    BY <2>2, <2>3, <2>4, NumberOf
  <2> QED BY <2>5 DEF HostWord, p
<1>13. BufOK(body) /\ toStringPiece(body) = Drop(s, HeaderLen(f))
  <2>1. CASE HasId(f)
    <3>1. h <= Len(Drop(s, h + h)) /\ (h + h) + h <= Len(s)
      BY <1>1, <1>2, <1>3, <1>4, <1>9, <2>1
    <3>2. BufOK(retrieve(head, h)) /\ toStringPiece(retrieve(head, h)) = Drop(Drop(s, h + h), h)
      BY <1>1, <1>8, <3>1, RetrieveDrops
    <3>3. Drop(Drop(s, h + h), h) = Drop(s, (h + h) + h)
      BY <1>1, <1>2, <1>4, <3>1, DropTwice
    <3> QED BY <1>3, <2>1, <3>2, <3>3
  <2>2. CASE ~HasId(f)
    BY <1>3, <1>8, <2>2
  <2> QED BY <2>1, <2>2
<1> HIDE DEF body
<1>14. /\ Len(Drop(s, HeaderLen(f))) = Len(s) - HeaderLen(f)
       /\ \A k \in 1 .. Len(s) - HeaderLen(f) : Drop(s, HeaderLen(f))[k] = s[HeaderLen(f) + k]
  <2>1. s \in Seq(Byte) /\ HeaderLen(f) \in Nat /\ HeaderLen(f) <= Len(s)
    BY <1>1, <1>2, <1>4
  <2> QED BY <2>1, DropBytes
<1>15. n <= Len(toStringPiece(body)) /\ \A k \in 1 .. n : k \in 1 .. Len(s) - HeaderLen(f)
  <2>1. \A a, c, m \in Nat : a + c <= m => c <= m - a /\ \A k \in 1 .. c : k \in 1 .. m - a
    OBVIOUS
  <2>2. HeaderLen(f) \in Nat /\ n \in Nat /\ Len(s) \in Nat /\ HeaderLen(f) + n <= Len(s)
    BY <1>1, <1>2, <1>4
  <2>3. Len(toStringPiece(body)) = Len(s) - HeaderLen(f)
    BY <1>13, <1>14
  <2> QED BY <2>1, <2>2, <2>3
<1>16. BufOK(rest) /\ toStringPiece(rest) = Drop(s, Len(e))
  <2>1. CASE n = 0
    BY <1>1, <1>13, <2>1
  <2>2. CASE n # 0
    <3>1. BufOK(rest) /\ toStringPiece(rest) = Drop(Drop(s, HeaderLen(f)), n)
      BY <1>1, <1>13, <1>15, <2>2, RetrieveDrops
    <3>2. Drop(Drop(s, HeaderLen(f)), n) = Drop(s, HeaderLen(f) + n)
      BY <1>1, <1>2, <1>4, DropTwice
    <3> QED BY <1>1, <3>1, <3>2
  <2> QED BY <2>1, <2>2
<1> HIDE DEF rest
<1>17. SubSeq(body.bytes, body.readerIndex + 1, body.readerIndex + n) = f.image
  <2> DEFINE p == SubSeq(body.bytes, body.readerIndex + 1, body.readerIndex + n)
  <2>1. p \in Seq(Byte) /\ Len(p) = n /\ \A k \in 1 .. n : p[k] = toStringPiece(body)[k]
    BY <1>1, <1>13, <1>15, PeekedBytes
  <2> HIDE DEF p
  <2>2. \A k \in 1 .. n : p[k] = f.image[k]
    BY <1>5, <1>13, <1>14, <1>15, <2>1
  <2>3. f.image \in Seq(Byte)
    BY <1>types
  <2>4. p = f.image
    BY <2>1, <2>2, <2>3, SeqEqual DEF n
  <2> QED BY <2>4 DEF p
<1> DEFINE imglen == IF f.flag \in ImageOnly \cup IdAndImage THEN ImageLen(Len(e), HasId(f)) ELSE 0
<1>18. imglen = n
  <2>1. CASE f.flag \in ImageOnly \cup IdAndImage
    <3>1. ImageLen(Len(e), HasId(f)) = Len(e) - HeaderLen(f)
      BY <1>1, <1>3 DEF ImageLen
    <3> QED BY <1>1, <2>1, <3>1
  <2>2. CASE f.flag \notin ImageOnly \cup IdAndImage
    <3>1. f.image = <<>>
      BY <2>2, CodecAssumption DEF CodecAssumption
    <3> QED BY <2>2, <3>1, EmptySeq DEF n
  <2> QED BY <2>1, <2>2
<1> DEFINE id == IF HasId(f) THEN HostWord(head) ELSE 0
           image == SubSeq(body.bytes, body.readerIndex + 1, body.readerIndex + n)
           call == [flag |-> f.flag, id |-> id, image |-> image]
<1>19. Taken(b) = [rest |-> rest, call |-> call]
  <2>1. Taken(b) =
         [rest |-> IF imglen = 0 THEN body ELSE retrieve(body, imglen),
          call |-> [flag |-> f.flag, id |-> id,
                    image |-> SubSeq(body.bytes, body.readerIndex + 1, body.readerIndex + imglen)]]
    BY <1>10, <1>11 DEF Taken, HasId, body, head, b1
  <2> HIDE DEF imglen, id
  <2> QED BY <1>18, <2>1 DEF rest
<1>20. image = f.image
  BY <1>17
<1>21. id = f.id
  <2>1. ~HasId(f) => f.id = 0
    BY CodecAssumption DEF CodecAssumption, HasId
  <2> QED BY <1>12, <2>1
<1> HIDE DEF id, image
<1>22. call = f
  BY <1>types, <1>20, <1>21
<1> HIDE DEF call
<1>23. Taken(b).rest = rest /\ Taken(b).call = f
  BY <1>19, <1>22
<1> QED BY <1>16, <1>23 DEF s, e

-----------------------------------------------------------------------------
(***************************************************************************)
(* The stream and the codec.  After n frames were taken, what was          *)
(* delivered are their calls, and what is unread and on the wire are the   *)
(* bytes of the others.                                                    *)
(***************************************************************************)
CallsOf(fs, n) == [k \in 1 .. n |-> Calls(fs[k])]

RestOf(fs, n) == [k \in 1 .. Len(fs) - n |-> Encode(fs[n + k])]

InStepAt(n) ==
  /\ delivered = FlattenSeq(CallsOf(sent, n))
  /\ Unread \o wire = FlattenSeq(RestOf(sent, n))

CodecInv ==
  /\ sent \in Seq(Frames)
  /\ wire \in Seq(Byte)
  /\ BufOK(inputBuffer)
  /\ \E n \in 0 .. Len(sent) : InStepAt(n)

LEMMA CallsRestType ==
  ASSUME NEW fs \in Seq(Frames), NEW n \in 0 .. Len(fs)
  PROVE  /\ CallsOf(fs, n) \in Seq(Seq(Frames)) /\ Len(CallsOf(fs, n)) = n
         /\ RestOf(fs, n) \in Seq(Seq(Byte)) /\ Len(RestOf(fs, n)) = Len(fs) - n
<1>1. Len(fs) \in Nat /\ n \in Nat /\ Len(fs) - n \in Nat
  BY LenProperties
<1>2. \A k \in 1 .. Len(fs) : fs[k] \in Frames
  BY ElementOfSeq
<1>3. \A f \in Frames : Calls(f) \in Seq(Frames)
  BY DEF Calls
<1>4. \A f \in Frames : Encode(f) \in Seq(Byte)
  BY FrameBytes
<1>5. \A k \in 1 .. n : Calls(fs[k]) \in Seq(Frames)
  BY <1>1, <1>2, <1>3
<1>6. \A k \in 1 .. Len(fs) - n : Encode(fs[n + k]) \in Seq(Byte)
  <2>1. \A k \in 1 .. Len(fs) - n : n + k \in 1 .. Len(fs)
    BY <1>1
  <2> QED BY <1>2, <1>4, <2>1
<1>7. CallsOf(fs, n) \in Seq(Seq(Frames)) /\ Len(CallsOf(fs, n)) = n
  BY <1>1, <1>5 DEF CallsOf
<1>8. RestOf(fs, n) \in Seq(Seq(Byte)) /\ Len(RestOf(fs, n)) = Len(fs) - n
  <2> DEFINE m == Len(fs) - n
             r == [k \in 1 .. m |-> Encode(fs[n + k])]
  <2>1. m \in Nat /\ \A k \in 1 .. m : Encode(fs[n + k]) \in Seq(Byte)
    BY <1>1, <1>6
  <2> HIDE DEF m
  <2>2. r \in Seq(Seq(Byte)) /\ Len(r) = m
    BY <2>1
  <2> QED BY <2>2 DEF RestOf, m
<1> QED BY <1>7, <1>8

\* A frame is sent: it is the last of the rest.
LEMMA SentOne ==
  ASSUME NEW fs \in Seq(Frames), NEW n \in 0 .. Len(fs), NEW f \in Frames
  PROVE  /\ CallsOf(Append(fs, f), n) = CallsOf(fs, n)
         /\ RestOf(Append(fs, f), n) = Append(RestOf(fs, n), Encode(f))
<1> DEFINE t == Append(fs, f)
           m == Len(fs)
<1>1. /\ t \in Seq(Frames) /\ Len(t) = m + 1 /\ t[m + 1] = f
      /\ \A k \in 1 .. m : t[k] = fs[k]
  BY AppendProperties, LenProperties
<1>2. m \in Nat /\ n \in Nat /\ n <= m /\ n \in 0 .. m + 1
  BY LenProperties
<1>3. RestOf(fs, n) \in Seq(Seq(Byte)) /\ Len(RestOf(fs, n)) = m - n
  BY CallsRestType
<1>4. RestOf(t, n) \in Seq(Seq(Byte)) /\ Len(RestOf(t, n)) = (m + 1) - n
  <2>1. n \in 0 .. Len(t)
    BY <1>1, <1>2
  <2> HIDE DEF t
  <2> QED BY <1>1, <2>1, CallsRestType
<1> HIDE DEF t, m
<1>5. CallsOf(t, n) = CallsOf(fs, n)
  <2>1. \A k \in 1 .. n : t[k] = fs[k]
    BY <1>1, <1>2
  <2> QED BY <2>1 DEF CallsOf
<1>6. RestOf(t, n) = Append(RestOf(fs, n), Encode(f))
  <2> DEFINE p == RestOf(t, n)
             q == RestOf(fs, n)
             r == Append(q, Encode(f))
             l == m - n
  <2>1. Encode(f) \in Seq(Byte)
    BY FrameBytes
  <2>2. l \in Nat /\ (m + 1) - n = l + 1 /\ n + (l + 1) = m + 1
    BY <1>2
  <2>3. \A k \in 1 .. l + 1 : p[k] = Encode(t[n + k])
    BY <1>1, <2>2 DEF RestOf
  <2>4. \A k \in 1 .. l : q[k] = Encode(fs[n + k])
    BY DEF RestOf, m
  <2>5. p \in Seq(Seq(Byte)) /\ Len(p) = l + 1 /\ q \in Seq(Seq(Byte)) /\ Len(q) = l
    BY <1>3, <1>4, <2>2
  <2> HIDE DEF p, q
  <2>6. /\ r \in Seq(Seq(Byte)) /\ Len(r) = l + 1 /\ r[l + 1] = Encode(f)
        /\ \A k \in 1 .. l : r[k] = q[k]
    BY <2>1, <2>5, AppendProperties
  <2> HIDE DEF r
  <2>7. \A k \in 1 .. l : n + k \in 1 .. m /\ k \in 1 .. l + 1
    BY <1>2, <2>2
  <2>8. p[l + 1] = r[l + 1]
    <3>1. l + 1 \in 1 .. l + 1
      BY <2>2
    <3>2. p[l + 1] = Encode(t[n + (l + 1)])
      BY <2>3, <3>1
    <3>3. t[n + (l + 1)] = f
      BY <1>1, <2>2
    <3> QED BY <2>6, <3>2, <3>3
  <2>9. \A k \in 1 .. l : p[k] = r[k]
    BY <1>1, <2>3, <2>4, <2>6, <2>7
  <2> HIDE DEF l
  <2>10. \A k \in 1 .. l + 1 : p[k] = r[k]
    <3>1. \A k \in 1 .. l + 1 : k = l + 1 \/ k \in 1 .. l
      BY <2>2
    <3> QED BY <2>8, <2>9, <3>1
  <2>11. p = r
    BY <2>5, <2>6, <2>10, SeqEqual
  <2> QED BY <2>11 DEF p, q, r
<1> QED BY <1>5, <1>6 DEF t

\* A frame is taken: it was the first of the rest.
LEMMA TookOne ==
  ASSUME NEW fs \in Seq(Frames), NEW n \in Nat, n + 1 <= Len(fs)
  PROVE  /\ CallsOf(fs, n + 1) = Append(CallsOf(fs, n), Calls(fs[n + 1]))
         /\ RestOf(fs, n) = <<Encode(fs[n + 1])>> \o RestOf(fs, n + 1)
<1> DEFINE m == Len(fs)
           f == fs[n + 1]
           l == m - n
<1>1. m \in Nat /\ n \in 0 .. m /\ n + 1 \in 0 .. m /\ n + 1 \in Nat /\ n + 1 \in 1 .. m /\ n <= n + 1
      /\ l \in Nat /\ l >= 1 /\ m - (n + 1) = l - 1 /\ l - 1 \in Nat
  BY LenProperties
<1>2. f \in Frames
  BY <1>1, ElementOfSeq
<1>3. Encode(f) \in Seq(Byte) /\ Calls(f) \in Seq(Frames)
  BY <1>2, FrameBytes DEF Calls
<1>4. CallsOf(fs, n + 1) = Append(CallsOf(fs, n), Calls(f))
  <2> DEFINE p == CallsOf(fs, n + 1)
             q == CallsOf(fs, n)
             r == Append(q, Calls(f))
  <2>1. p \in Seq(Seq(Frames)) /\ Len(p) = n + 1
    BY <1>1, CallsRestType
  <2>2. q \in Seq(Seq(Frames)) /\ Len(q) = n
    BY <1>1, CallsRestType
  <2>3. \A k \in 1 .. n + 1 : p[k] = Calls(fs[k])
    BY DEF CallsOf
  <2>4. \A k \in 1 .. n : q[k] = Calls(fs[k])
    BY DEF CallsOf
  <2> HIDE DEF p, q
  <2>5. /\ r \in Seq(Seq(Frames)) /\ Len(r) = n + 1 /\ r[n + 1] = Calls(f)
        /\ \A k \in 1 .. n : r[k] = q[k]
    BY <1>3, <2>2, AppendProperties
  <2> HIDE DEF r
  <2>6. \A k \in 1 .. n + 1 : k = n + 1 \/ k \in 1 .. n
    OBVIOUS
  <2>7. \A k \in 1 .. n + 1 : p[k] = r[k]
    BY <2>3, <2>4, <2>5, <2>6
  <2>8. p = r
    BY <2>1, <2>5, <2>7, SeqEqual
  <2> QED BY <2>8 DEF p, q, r
<1>5. RestOf(fs, n) = <<Encode(f)>> \o RestOf(fs, n + 1)
  <2> DEFINE p == RestOf(fs, n)
             q == RestOf(fs, n + 1)
             x == <<Encode(f)>>
             r == x \o q
  <2>1. p \in Seq(Seq(Byte)) /\ Len(p) = l
    BY <1>1, CallsRestType
  <2>2. q \in Seq(Seq(Byte)) /\ Len(q) = l - 1
    BY <1>1, CallsRestType
  <2>3. \A k \in 1 .. l : p[k] = Encode(fs[n + k])
    BY DEF RestOf
  <2>4. \A k \in 1 .. l - 1 : q[k] = Encode(fs[(n + 1) + k])
    BY <1>1 DEF RestOf
  <2>5. x \in Seq(Seq(Byte)) /\ Len(x) = 1 /\ x[1] = Encode(f)
    BY <1>3
  <2> HIDE DEF p, q, x, m, l
  <2>6. /\ r \in Seq(Seq(Byte)) /\ Len(r) = Len(x) + Len(q)
        /\ \A k \in 1 .. Len(x) + Len(q) : r[k] = IF k <= Len(x) THEN x[k] ELSE q[k - Len(x)]
    BY <2>2, <2>5, ConcatProperties
  <2> HIDE DEF r
  <2>7. Len(x) + Len(q) = l
    BY <1>1, <2>2, <2>5
  <2>8. ASSUME NEW k \in 1 .. l PROVE p[k] = r[k]
    <3>1. CASE k = 1
      BY <2>3, <2>5, <2>6, <2>7, <3>1
    <3>2. CASE k # 1
      <4>1. k - 1 \in 1 .. l - 1 /\ (n + 1) + (k - 1) = n + k /\ ~(k <= 1)
        BY <1>1, <3>2
      <4>2. r[k] = q[k - 1]
        BY <2>5, <2>6, <2>7, <4>1
      <4>3. q[k - 1] = Encode(fs[n + k])
        BY <2>4, <4>1
      <4> QED BY <2>3, <4>2, <4>3
    <3> QED BY <3>1, <3>2
  <2>9. p = r
    BY <2>1, <2>6, <2>7, <2>8, SeqEqual
  <2> QED BY <2>9 DEF p, q, r, x
<1> QED BY <1>4, <1>5

StartsWith(s, e) == \A k \in 1 .. Len(e) : s[k] = e[k]

LEMMA SplitBytes ==
  ASSUME NEW s \in Seq(Byte), NEW w \in Seq(Byte), NEW e \in Seq(Byte), NEW f \in Seq(Byte),
         s \o w = e \o f, Len(e) <= Len(s)
  PROVE  StartsWith(s, e) /\ Drop(s, Len(e)) \o w = f
<1>1. (\A k \in 1 .. Len(e) : s[k] = e[k]) /\ Drop(s, Len(e)) \o w = f
  BY SplitOff
<1> QED BY <1>1 DEF StartsWith

\* onMessage, on a buffer that holds some of the rest of a stream, takes the first
\* frame of the rest or nothing.
LEMMA HandledFrame ==
  ASSUME NEW c, BufOK(c), NEW w \in Seq(Byte), NEW fs \in Seq(Frames), NEW n \in 0 .. Len(fs),
         toStringPiece(c) \o w = FlattenSeq(RestOf(fs, n))
  PROVE  /\ BufOK(onMessage(c).rest)
         /\ \E k \in 0 .. Len(fs) :
              /\ FlattenSeq(CallsOf(fs, n)) \o onMessage(c).calls = FlattenSeq(CallsOf(fs, k))
              /\ toStringPiece(onMessage(c).rest) \o w = FlattenSeq(RestOf(fs, k))
<1> DEFINE s == toStringPiece(c)
           d == FlattenSeq(CallsOf(fs, n))
<1>1. /\ s \in Seq(Byte) /\ Len(s) \in Nat /\ Len(s) = readableBytes(c)
      /\ Len(fs) \in Nat /\ n \in Nat /\ n <= Len(fs) /\ Len(w) \in Nat
      /\ kHeaderLen \in Nat /\ kHeaderLen >= 1
  BY PieceOf, LenProperties DEF kHeaderLen
<1>2. CallsOf(fs, n) \in Seq(Seq(Frames)) /\ d \in Seq(Frames)
  BY CallsRestType, FlattenType
<1>3. CASE ~HasFrame(c)
  <2>1. onMessage(c).rest = c /\ onMessage(c).calls = <<>>
    BY <1>3 DEF onMessage
  <2>2. d \o <<>> = d
    BY <1>2, ConcatEmptySeq
  <2> QED BY <2>1, <2>2
<1>4. CASE HasFrame(c)
  <2> DEFINE p == SubSeq(c.bytes, c.readerIndex + 1, c.readerIndex + kHeaderLen)
             x == s \o w
  <2>1. /\ kHeaderLen <= Len(s) /\ Number(p) <= Len(s)
        /\ p \in Seq(Byte) /\ Len(p) = kHeaderLen
        /\ \A k \in 1 .. kHeaderLen : p[k] = s[k]
    <3>1. kHeaderLen <= Len(s) /\ HostWord(c) \in 0 .. Len(s)
      BY <1>1, <1>4 DEF HasFrame
    <3>2. HostWord(c) <= Len(s)
      BY <1>1, <3>1
    <3> QED BY <1>1, <3>1, <3>2, PeekedBytes DEF HostWord
  <2> HIDE DEF p
  <2>2. /\ Len(x) = Len(s) + Len(w) /\ Len(x) # 0
        /\ \A k \in 1 .. kHeaderLen : x[k] = s[k]
    <3>1. /\ Len(x) = Len(s) + Len(w)
          /\ \A k \in 1 .. Len(s) + Len(w) : x[k] = IF k <= Len(s) THEN s[k] ELSE w[k - Len(s)]
      BY <1>1, ConcatProperties
    <3> HIDE DEF x, s
    <3>2. \A a, b, d1 \in Nat : a >= 1 /\ a <= b =>
            b + d1 # 0 /\ \A k \in 1 .. a : k \in 1 .. b + d1 /\ k <= b
      OBVIOUS
    <3>3. /\ Len(s) + Len(w) # 0
          /\ \A k \in 1 .. kHeaderLen : k \in 1 .. Len(s) + Len(w) /\ k <= Len(s)
      BY <1>1, <2>1, <3>2
    <3> QED BY <3>1, <3>3
  <2>3. n + 1 <= Len(fs)
    <3> SUFFICES ASSUME ~(n + 1 <= Len(fs)) PROVE FALSE
      OBVIOUS
    <3>1. n = Len(fs)
      BY <1>1
    <3>2. RestOf(fs, n) \in Seq(Seq(Byte)) /\ Len(RestOf(fs, n)) = Len(fs) - n
      BY CallsRestType
    <3>3. RestOf(fs, n) = <<>>
      BY <1>1, <3>1, <3>2, EmptySeq
    <3>4. x = <<>> /\ Len(<<>>) = 0
      BY <3>3, EmptySeq DEF FlattenSeq
    <3> QED BY <2>2, <3>4
  <2> DEFINE f == fs[n + 1]
             e == Encode(f)
             rest == RestOf(fs, n + 1)
             t == FlattenSeq(rest)
  <2>4. f \in Frames
    <3>1. n + 1 \in 1 .. Len(fs)
      BY <1>1, <2>3
    <3> QED BY <3>1, ElementOfSeq
  <2>5. /\ CallsOf(fs, n + 1) = Append(CallsOf(fs, n), Calls(f))
        /\ RestOf(fs, n) = <<e>> \o rest
    BY <1>1, <2>3, TookOne
  <2>6. n + 1 \in 0 .. Len(fs)
    BY <1>1, <2>3
  <2>7. rest \in Seq(Seq(Byte)) /\ t \in Seq(Byte)
    BY <2>6, CallsRestType, FlattenType
  <2>8. /\ e \in Seq(Byte) /\ Len(e) \in Nat /\ kHeaderLen <= Len(e) /\ Len(e) \in Int32
        /\ \A k \in 1 .. kHeaderLen : e[k] = Word(Len(e))[k]
        /\ Calls(f) \in Seq(Frames)
    <3>1. /\ e \in Seq(Byte) /\ HeaderLen(f) \in Nat
          /\ Len(f.image) \in Nat /\ Len(e) = HeaderLen(f) + Len(f.image)
      BY <2>4, FrameBytes
    <3>2. kHeaderLen <= HeaderLen(f)
      BY <1>1, <3>1 DEF HeaderLen
    <3>3. Len(e) \in Int32 /\ \A k \in 1 .. kHeaderLen : e[k] = Word(Len(e))[k]
      BY <2>4, FrameBytes
    <3> HIDE DEF e
    <3>4. Len(e) \in Nat /\ kHeaderLen <= Len(e)
      <4>1. \A a, b, d1 \in Nat : a <= b => b + d1 \in Nat /\ a <= b + d1
        OBVIOUS
      <4> QED BY <1>1, <3>1, <3>2, <4>1
    <3> QED BY <2>4, <3>1, <3>3, <3>4 DEF Calls
  <2> HIDE DEF e, f, rest
  <2>9. x = e \o t
    BY <2>5, <2>7, <2>8, FlattenCons
  <2> HIDE DEF t
  <2>10. Len(e) <= Len(s)
    <3>1. /\ Len(e \o t) = Len(e) + Len(t)
          /\ \A k \in 1 .. Len(e) + Len(t) :
               (e \o t)[k] = IF k <= Len(e) THEN e[k] ELSE t[k - Len(e)]
      BY <2>7, <2>8, ConcatProperties
    <3>2. \A a, b, d1 \in Nat : a <= b => \A k \in 1 .. a : k \in 1 .. b + d1 /\ k <= b
      OBVIOUS
    <3>3. Len(t) \in Nat
      BY <2>7, LenProperties
    <3>4. \A k \in 1 .. kHeaderLen : k \in 1 .. Len(e) + Len(t) /\ k <= Len(e)
      BY <1>1, <2>8, <3>2, <3>3
    <3>5. \A k \in 1 .. kHeaderLen : x[k] = e[k]
      BY <2>9, <3>1, <3>4
    <3> HIDE DEF x, s
    <3>6. Len(e) \in Int32 /\ \A k \in 1 .. kHeaderLen : p[k] = Word(Len(e))[k]
      BY <2>1, <2>2, <2>8, <3>5
    <3>7. Number(p) = Len(e)
      BY <2>1, <3>6, NumberOf
    <3> QED BY <2>1, <3>7
  <2> HIDE DEF s
  <2>11. (\A k \in 1 .. Len(e) : s[k] = e[k]) /\ Drop(s, Len(e)) \o w = t
    <3>1. s \in Seq(Byte) /\ s \o w = e \o t
      BY <1>1, <2>9 DEF x
    <3> HIDE DEF x, d
    <3>2. e \in Seq(Byte) /\ t \in Seq(Byte) /\ w \in Seq(Byte) /\ Len(e) <= Len(s)
      BY <2>7, <2>8, <2>10
    <3>3. StartsWith(s, e) /\ Drop(s, Len(e)) \o w = t
      BY <3>1, <3>2, SplitBytes
    <3> QED BY <3>3 DEF StartsWith
  <2>12. BufOK(Taken(c).rest) /\ Taken(c).call = f /\ toStringPiece(Taken(c).rest) = Drop(s, Len(e))
    BY <2>4, <2>10, <2>11, TakenFrame DEF e, s
  <2>13. onMessage(c).rest = Taken(c).rest /\ onMessage(c).calls = Calls(f)
    BY <1>4, <2>12 DEF onMessage, Calls
  <2>14. d \o Calls(f) = FlattenSeq(CallsOf(fs, n + 1))
    BY <1>2, <2>5, <2>8, FlattenAppend
  <2> HIDE DEF d
  <2>15. toStringPiece(onMessage(c).rest) \o w = FlattenSeq(RestOf(fs, n + 1))
    BY <2>11, <2>12, <2>13 DEF t, rest
  <2>16. BufOK(onMessage(c).rest) /\ d \o onMessage(c).calls = FlattenSeq(CallsOf(fs, n + 1))
    BY <2>12, <2>13, <2>14
  <2> QED BY <2>6, <2>15, <2>16 DEF d
<1> QED BY <1>3, <1>4

LEMMA CutInTwo ==
  ASSUME NEW S, NEW s \in Seq(S), NEW m \in 1 .. Len(s)
  PROVE  /\ SubSeq(s, 1, m) \in Seq(S) /\ SubSeq(s, m + 1, Len(s)) \in Seq(S)
         /\ SubSeq(s, 1, m) \o SubSeq(s, m + 1, Len(s)) = s
<1>1. /\ Len(s) \in Nat /\ m \in Nat /\ m <= Len(s) /\ Len(s) <= Len(s)
      /\ 1 \in 1 .. Len(s) + 1 /\ m \in 1 - 1 .. Len(s) /\ Len(s) \in m .. Len(s)
  BY LenProperties
<1>2. SubSeq(s, 1, m) \in Seq(S) /\ SubSeq(s, m + 1, Len(s)) \in Seq(S)
  BY <1>1, Cut, CutFront
<1>3. SubSeq(s, 1, m) \o SubSeq(s, m + 1, Len(s)) = SubSeq(s, 1, Len(s))
  BY <1>1, ConcatAdjacentSubSeq
<1> QED BY <1>2, <1>3, SubSeqFull

LEMMA CodecNextInv == ASSUME CodecInv, [Next]_vars PROVE CodecInv'
<1>1. /\ sent \in Seq(Frames) /\ wire \in Seq(Byte) /\ BufOK(inputBuffer)
      /\ Unread \in Seq(Byte) /\ Len(sent) \in Nat
  BY PieceOf, LenProperties DEF CodecInv, Unread
<1>2. PICK n \in 0 .. Len(sent) : InStepAt(n)
  BY DEF CodecInv
<1>3. ASSUME NEW p \in Seq(Byte), NEW q \in Seq(Byte), NEW r \in Seq(Byte)
      PROVE  (p \o q) \o r = p \o (q \o r)
  BY ConcatAssociative, SMTT(30)
<1>4. ASSUME NEW f \in Frames, Send(f) PROVE CodecInv'
  <2> DEFINE e == Encode(f)
             rest == RestOf(sent, n)
             t == Append(sent, f)
  <2>1. e \in Seq(Byte)
    BY FrameBytes
  <2>2. rest \in Seq(Seq(Byte))
    BY <1>1, CallsRestType
  <2>3. CallsOf(t, n) = CallsOf(sent, n) /\ RestOf(t, n) = Append(rest, e)
    BY <1>1, SentOne
  <2>4. t \in Seq(Frames) /\ Len(t) = Len(sent) + 1
    BY <1>1, AppendProperties
  <2>5. wire \o e \in Seq(Byte)
    BY <1>1, <2>1, ConcatProperties
  <2> HIDE DEF e, rest, t
  <2>6. FlattenSeq(Append(rest, e)) = FlattenSeq(rest) \o e
    BY <2>1, <2>2, FlattenAppend
  <2>7. Unread \o (wire \o e) = (Unread \o wire) \o e
    BY <1>1, <1>3, <2>1
  <2>8. Unread \o wire = FlattenSeq(rest) /\ delivered = FlattenSeq(CallsOf(sent, n))
    BY <1>2 DEF InStepAt, rest
  <2>9. sent' = t /\ wire' = wire \o e /\ inputBuffer' = inputBuffer /\ delivered' = delivered
    BY <1>4 DEF Send, t, e
  <2>10. Unread' = Unread
    BY <2>9 DEF Unread
  <2>11. InStepAt(n)'
    BY <2>3, <2>6, <2>7, <2>8, <2>9, <2>10 DEF InStepAt
  <2>12. n \in 0 .. Len(t)
    BY <1>1, <2>4
  <2> QED BY <1>1, <2>4, <2>5, <2>9, <2>11, <2>12 DEF CodecInv
<1>5. ASSUME NEW m \in 1 .. Len(wire), Read(m) PROVE CodecInv'
  <2> DEFINE a == SubSeq(wire, 1, m)
             w == SubSeq(wire, m + 1, Len(wire))
             c == append(inputBuffer, a)
             h == onMessage(c)
  <2>1. a \in Seq(Byte) /\ w \in Seq(Byte) /\ a \o w = wire
    BY <1>1, CutInTwo
  <2>2. /\ wire' = w /\ inputBuffer' = h.rest /\ delivered' = delivered \o h.calls
        /\ sent' = sent
    BY <1>5 DEF Read, Leave
  <2> HIDE DEF a, w, h
  <2>3. BufOK(c) /\ toStringPiece(c) = Unread \o a
    BY <1>1, <2>1, AppendedData DEF Unread
  <2> HIDE DEF c
  <2>4. toStringPiece(c) \o w = FlattenSeq(RestOf(sent, n))
    <3>1. (Unread \o a) \o w = Unread \o (a \o w)
      BY <1>1, <1>3, <2>1
    <3>2. Unread \o wire = FlattenSeq(RestOf(sent, n))
      BY <1>2 DEF InStepAt
    <3>3. toStringPiece(c) \o w = (Unread \o a) \o w
      BY <2>3
    <3>4. Unread \o (a \o w) = Unread \o wire
      BY <2>1
    <3> QED BY <3>1, <3>2, <3>3, <3>4
  <2>5. /\ BufOK(h.rest)
        /\ \E k \in 0 .. Len(sent) :
             /\ FlattenSeq(CallsOf(sent, n)) \o h.calls = FlattenSeq(CallsOf(sent, k))
             /\ toStringPiece(h.rest) \o w = FlattenSeq(RestOf(sent, k))
    BY <1>1, <2>1, <2>3, <2>4, HandledFrame DEF h
  <2>6. PICK k \in 0 .. Len(sent) :
             /\ FlattenSeq(CallsOf(sent, n)) \o h.calls = FlattenSeq(CallsOf(sent, k))
             /\ toStringPiece(h.rest) \o w = FlattenSeq(RestOf(sent, k))
    BY <2>5
  <2>7. Unread' = toStringPiece(h.rest)
    BY <2>2 DEF Unread
  <2>8. InStepAt(k)'
    BY <1>2, <2>2, <2>6, <2>7 DEF InStepAt
  <2> QED BY <1>1, <2>1, <2>2, <2>5, <2>8 DEF CodecInv
<1>6. CASE UNCHANGED vars
  <2>1. InStepAt(n)'
    BY <1>2, <1>6 DEF vars, InStepAt, Unread
  <2> QED BY <1>1, <1>6, <2>1 DEF vars, CodecInv
<1> QED BY <1>4, <1>5, <1>6 DEF Next, ReadSome

LEMMA CodecInitInv == ASSUME Init PROVE CodecInv
<1>1. sent = <<>> /\ wire = <<>> /\ inputBuffer = NewBuffer /\ delivered = <<>>
  BY DEF Init
<1>2. <<>> \in Seq(Frames) /\ <<>> \in Seq(Byte) /\ Len(<<>>) = 0 /\ 0 \in 0 .. 0
  BY EmptySeq
<1>3. 0 \in 0 .. Len(<<>>)
  BY <1>2
<1>4. CallsOf(<<>>, 0) = <<>> /\ RestOf(<<>>, 0) = <<>>
  BY <1>2 DEF CallsOf, RestOf
<1>5. FlattenSeq(<<>>) = <<>>
  BY DEF FlattenSeq
<1>6. BufOK(NewBuffer) /\ toStringPiece(NewBuffer) = <<>>
  BY NewIsEmpty
<1>7. <<>> \o <<>> = <<>>
  BY <1>2, ConcatEmptySeq
<1>8. InStepAt(0)
  BY <1>1, <1>4, <1>5, <1>6, <1>7 DEF InStepAt, Unread
<1> QED BY <1>1, <1>2, <1>3, <1>6, <1>8 DEF CodecInv

\* The handlers are called for the frames that were sent, in order and once each, and
\* what is unread is the rest of the stream, for any frames, however the
\* stream is cut and whatever the buffer moves.
THEOREM CodecKeepsStep == Spec => []StreamInStep
<1>1. CodecInv => StreamInStep
  BY DEF CodecInv, InStepAt, StreamInStep, CallsOf, RestOf
<1> QED BY <1>1, CodecInitInv, CodecNextInv, PTL DEF Spec
=============================================================================
