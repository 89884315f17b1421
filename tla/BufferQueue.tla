---------------------------- MODULE BufferQueue ----------------------------
(***************************************************************************)
(* One Buffer under any calls its documentation allows, beside the queue   *)
(* of bytes that its user takes it for.  The guards are the assertions     *)
(* that Buffer makes of its callers; what it asserts of itself is          *)
(* BufferAsserts.                                                          *)
(***************************************************************************)
EXTENDS Buffer, SequencesExt

CONSTANTS
  Data,         \* what is appended or prepended, numbers included
  EndsOfLine,   \* what ends a line: "\r\n" for findCRLF, "\n" for findEOL
  sizeofLength, \* bytes of the length that send puts in front of a message
  MaxReadable   \* bound on the readable bytes

ASSUME DataAssumption ==
  /\ Data \subseteq Seq(Byte)
  /\ EndsOfLine \subseteq Seq(Byte) \ {<<>>}
  /\ sizeofLength \in Nat
  /\ MaxReadable \in Nat

VARIABLES
  buffer,   \* the Buffer
  content   \* the bytes its user expects to read, in order

bufferVars == <<buffer, content>>

-----------------------------------------------------------------------------
BufferInit == buffer = NewBuffer /\ content = <<>>

AppendData(data) ==
  /\ Len(content) + Len(data) <= MaxReadable
  /\ buffer' = append(buffer, data)
  /\ content' = content \o data

AppendInt(x) ==
  /\ Len(content) + Len(x) <= MaxReadable
  /\ buffer' = appendInt(buffer, x)
  /\ content' = content \o Reverse(x)

Prepend(data) ==
  /\ Len(content) + Len(data) <= MaxReadable
  /\ Len(data) <= prependableBytes(buffer)
  /\ buffer' = prepend(buffer, data)
  /\ content' = data \o content

PrependInt(x) ==
  /\ Len(content) + Len(x) <= MaxReadable
  /\ Len(x) <= prependableBytes(buffer)
  /\ buffer' = prependInt(buffer, x)
  /\ content' = Reverse(x) \o content

Retrieve(n) ==
  /\ buffer' = retrieve(buffer, n)
  /\ content' = SubSeq(content, n + 1, Len(content))

\* readInt64, 32, 16 and 8.
ReadInt(width) ==
  /\ CanPeek(buffer, width)
  /\ buffer' = readInt(buffer, width)
  /\ content' = SubSeq(content, width + 1, Len(content))

Unwrite(n) ==
  /\ buffer' = unwrite(buffer, n)
  /\ content' = SubSeq(content, 1, Len(content) - n)

\* retrieveAllAsString: the bytes are copied before they are given up.
RetrieveAll ==
  /\ buffer' = retrieveAll(buffer)
  /\ content' = <<>>

\* findCRLF or findEOL, and retrieveUntil the end of the line it found.
RetrieveLine(eol) ==
  /\ Found(buffer, eol, 0) # NotFound
  /\ buffer' = retrieve(buffer, Found(buffer, eol, 0) + Len(eol))
  /\ \E n \in 0 .. Len(content) :
       /\ IsPrefix(eol, SubSeq(content, n + 1, Len(content)))
       /\ \A m \in 0 .. n - 1 : ~IsPrefix(eol, SubSeq(content, m + 1, Len(content)))
       /\ content' = SubSeq(content, n + Len(eol) + 1, Len(content))

Shrink(reserve) ==
  /\ buffer' = shrink(buffer, reserve)
  /\ UNCHANGED content

\* The bytes of an integer on the host, the lowest first, as many as it is wide.
HostBytes(n) == [k \in 1 .. sizeofLength |-> (n \div 256 ^ (k - 1)) % 256]

\* send() of both codecs: a buffer with the message, and the length of the message
\* put in front in network order.
Framed(message) == prependInt(append(NewBuffer, message), HostBytes(Len(message)))

send(message) ==
  /\ sizeofLength + Len(message) <= MaxReadable
  /\ sizeofLength <= kCheapPrepend
  /\ buffer' = Framed(message)
  /\ content' = Reverse(HostBytes(Len(message))) \o message

BufferNext ==
  \/ \E data \in Data :
       AppendData(data) \/ AppendInt(data) \/ Prepend(data) \/ PrependInt(data) \/ send(data)
  \/ \E n \in 0 .. readableBytes(buffer) : Retrieve(n) \/ Unwrite(n)
  \/ \E width \in {1, 2} : ReadInt(width)
  \/ RetrieveAll
  \/ \E eol \in EndsOfLine : RetrieveLine(eol)
  \/ \E reserve \in {0, 1} : Shrink(reserve)

BufferSpec == BufferInit /\ [][BufferNext]_bufferVars

-----------------------------------------------------------------------------
\* The types, and the order of the indices that Buffer.h draws:
\* 0 <= readerIndex <= writerIndex <= size, after any calls.
IndicesOrdered ==
  /\ buffer.bytes \in Seq(Byte)
  /\ buffer.readerIndex \in 0 .. buffer.writerIndex
  /\ buffer.writerIndex \in 0 .. size(buffer)

\* However the bytes are moved, grown over, put in front or given up, what can
\* be read is what was put in and not yet taken out, in order.
ContentKept == toStringPiece(buffer) = content

\* What Buffer asserts of itself: its indices, and when room is needed, where it moves the data
\* rather than grow, the data lay behind the prepend area; nothing of it is lost,
\* and afterwards the room is there.
BufferAsserts ==
  /\ IndicesOrdered
  /\ \A len \in 0 .. MaxReadable :
       writableBytes(buffer) < len =>
         LET made == makeSpace(buffer, len)
         IN  /\ size(made) = size(buffer) => kCheapPrepend < buffer.readerIndex
             /\ toStringPiece(made) = content
             /\ writableBytes(made) >= len
=============================================================================
