------------------------------- MODULE Buffer -------------------------------
(***************************************************************************)
(* muduo::net::Buffer (Buffer.h) as a value: the bytes of its vector and   *)
(* the two indices between which lies what can be read.  As with           *)
(* ReadWriteLock, whoever has a buffer among its variables takes these     *)
(* operators as the methods.  A number is the sequence of its bytes in     *)
(* the memory of the (little-endian) host.                                 *)
(***************************************************************************)
EXTENDS Integers, Sequences

CONSTANTS
  kCheapPrepend,  \* bytes kept free in front of the data
  kInitialSize    \* bytes for data in a new buffer

ASSUME BufferAssumption ==
  /\ kCheapPrepend \in Nat
  /\ kInitialSize \in Nat

Byte == 0 .. 255

Zeros(n) == [k \in 1 .. n |-> 0]

\* The byte at index i of the vector is the (i + 1)-st of bytes.
NewBuffer ==
  [bytes |-> Zeros(kCheapPrepend + kInitialSize),
   readerIndex |-> kCheapPrepend,
   writerIndex |-> kCheapPrepend]

readableBytes(b) == b.writerIndex - b.readerIndex
size(b) == Len(b.bytes)
writableBytes(b) == size(b) - b.writerIndex
prependableBytes(b) == b.readerIndex

\* The bytes from peek() on, as far as they are readable.
toStringPiece(b) == SubSeq(b.bytes, b.readerIndex + 1, b.writerIndex)

\* std::copy of data to the place that starts at index i; what would lie beyond the
\* end is not in the vector.
Copied(bytes, i, data) ==
  SubSeq(SubSeq(bytes, 1, i) \o data \o SubSeq(bytes, i + Len(data) + 1, Len(bytes)),
         1, Len(bytes))

-----------------------------------------------------------------------------
retrieveAll(b) == [b EXCEPT !.readerIndex = kCheapPrepend, !.writerIndex = kCheapPrepend]

retrieve(b, len) ==
  IF len < readableBytes(b) THEN [b EXCEPT !.readerIndex = @ + len] ELSE retrieveAll(b)

\* buffer_.resize(n), never to fewer; new bytes are zero.
Resized(b, n) == [b EXCEPT !.bytes = @ \o Zeros(n - size(b))]

\* Moves the data to the front, if that makes room for len bytes, or grows.
\* The mutant moves the indices only.
makeSpaceOfIndices(b, len) ==
  IF writableBytes(b) + prependableBytes(b) < len + kCheapPrepend
  THEN Resized(b, b.writerIndex + len)
  ELSE [b EXCEPT !.readerIndex = kCheapPrepend,
                 !.writerIndex = kCheapPrepend + readableBytes(b)]

makeSpace(b, len) ==
  IF writableBytes(b) + prependableBytes(b) < len + kCheapPrepend
  THEN Resized(b, b.writerIndex + len)
  ELSE [b EXCEPT !.bytes = Copied(b.bytes, kCheapPrepend, toStringPiece(b)),
                 !.readerIndex = kCheapPrepend,
                 !.writerIndex = kCheapPrepend + readableBytes(b)]

\* The mutant counts the prepend area as writable.
ensureWritableBytesInFront(b, len) ==
  IF writableBytes(b) + prependableBytes(b) < len THEN makeSpace(b, len) ELSE b

ensureWritableBytes(b, len) == IF writableBytes(b) < len THEN makeSpace(b, len) ELSE b

hasWritten(b, len) == [b EXCEPT !.writerIndex = @ + len]

unwrite(b, len) == [b EXCEPT !.writerIndex = @ - len]

append(b, data) ==
  LET e == ensureWritableBytes(b, Len(data))
  IN  hasWritten([e EXCEPT !.bytes = Copied(e.bytes, e.writerIndex, data)], Len(data))

prepend(b, data) ==
  [b EXCEPT !.readerIndex = b.readerIndex - Len(data),
            !.bytes = Copied(b.bytes, b.readerIndex - Len(data), data)]

\* The data moves to a new buffer, which takes the place of this one (swap).
shrink(b, reserve) ==
  append(ensureWritableBytes(NewBuffer, readableBytes(b) + reserve), toStringPiece(b))

-----------------------------------------------------------------------------
\* Network order is the host's reversed: hostToNetwork16, 32, 64 and back.
Swapped(x) == [k \in 1 .. Len(x) |-> x[Len(x) + 1 - k]]

appendInt(b, x) == append(b, Swapped(x))
prependInt(b, x) == prepend(b, Swapped(x))

\* A number of width bytes at peek(), which asserts that there are as many.
CanPeek(b, width) == readableBytes(b) >= width
peekInt(b, width) == Swapped(SubSeq(b.bytes, b.readerIndex + 1, b.readerIndex + width))
readInt(b, width) == retrieve(b, width)

\* How many readable bytes lie before the first place from the n-th byte on
\* where the text occurs, or NotFound: findCRLF, findEOL, with and without start.
NotFound == -1

Found(b, text, n) ==
  LET s == toStringPiece(b)
      At == {i \in n .. Len(s) - Len(text) : \A k \in 1 .. Len(text) : s[i + k] = text[k]}
  IN  IF At = {} THEN NotFound ELSE CHOOSE i \in At : \A j \in At : i <= j
=============================================================================
