------------------------------- MODULE Codec -------------------------------
(***************************************************************************)
(* CompareCodec and GuestCodec (comparecodec.h, guestcodec.h): how a       *)
(* stream of bytes that arrives in pieces becomes calls of the servers'    *)
(* handlers.  Both read frames of a length, a flag, for some flags an id,  *)
(* and an image; they differ in their flags.  A client sends whole, well   *)
(* formed frames over one connection; the event loop appends each piece    *)
(* that it reads to the connection's Buffer and calls onMessage once.      *)
(***************************************************************************)
EXTENDS Buffer, SequencesExt

CONSTANTS
  ImageOnly,    \* the flags of frames with an image:            comp
  IdAndImage,   \*   with an id and an image:         addf, addg, appl
  IdOnly,       \*   with an id:                                 qury
  Frames,       \* what a client may send, [flag, id, image]
  MaxFrames     \* bound on the frames of a run

\* sizeof(int32_t): the bytes of a length, a flag or an id.
kHeaderLen == 4

INT32_MAX == 2147483647

Int32 == (-INT32_MAX - 1) .. INT32_MAX

Known == ImageOnly \cup IdAndImage \cup IdOnly

\* A frame is well formed: its length fits in the int32_t that announces it, and a
\* field that a kind of frame does not have is 0 or empty.  A frame with a flag that
\* neither codec knows has no field at all.
ASSUME CodecAssumption ==
  /\ ImageOnly \cap IdAndImage = {}
  /\ IdOnly \cap (ImageOnly \cup IdAndImage) = {}
  /\ \A f \in Frames :
       /\ f \in [flag : Int32, id : Int32, image : Seq(Byte)]
       /\ 3 * kHeaderLen + Len(f.image) \in Int32
       /\ f.flag \notin IdAndImage \cup IdOnly => f.id = 0
       /\ f.flag \notin ImageOnly \cup IdAndImage => f.image = <<>>
  /\ MaxFrames \in Nat

VARIABLES
  patient,      \* the client waits for each answer before it goes on
  sent,         \* the frames the client has sent
  wire,         \* bytes sent and not yet read
  inputBuffer,  \* the connection's Buffer
  delivered     \* the calls of the handlers, in order

vars == <<patient, sent, wire, inputBuffer, delivered>>

-----------------------------------------------------------------------------
\* An int32_t, in two's complement, as it lies in the memory of the host: lengths and
\* ids are sent like that, flags in network order.
Word(n) ==
  <<n % 256, (n \div 256) % 256, (n \div 65536) % 256, (n \div 16777216) % 256>>

\* The length counts the whole frame.
Encode(f) ==
  LET id == IF f.flag \in IdAndImage \cup IdOnly THEN Word(f.id) ELSE <<>>
      body == Reverse(Word(f.flag)) \o id \o f.image
  IN  Word(kHeaderLen + Len(body)) \o body

-----------------------------------------------------------------------------
\* The int32_t that lies there as these bytes.
Number(bytes) ==
  bytes[1] + 256 * bytes[2] + 65536 * bytes[3]
    + 16777216 * (IF bytes[4] < 128 THEN bytes[4] ELSE bytes[4] - 256)

\* A number at peek() that goes through networkToHost32, and one that is read as it
\* lies there; the mutant reads its lowest byte only.
NetworkWord(b) == Number(peekInt(b, kHeaderLen))

HostWordOfOneByte(b) == b.bytes[b.readerIndex + 1]

HostWord(b) == Number(SubSeq(b.bytes, b.readerIndex + 1, b.readerIndex + kHeaderLen))

\* The test of onMessage, whose comparison makes the length a size_t: a negative one
\* is more than any buffer holds.  The mutant misses the frame that ends the buffer.
HasFrameBeforeEnd(b) ==
  readableBytes(b) > kHeaderLen /\ HostWord(b) \in 0 .. readableBytes(b) - 1

HasFrame(b) == readableBytes(b) > kHeaderLen /\ HostWord(b) \in 0 .. readableBytes(b)

\* imglen: the frame without its header; the mutant forgets the id.
ImageLenWithId(len, id) == len - 3 * kHeaderLen

ImageLen(len, id) == len - (IF id THEN 3 ELSE 2) * kHeaderLen

\* The frame at peek(), field by field as onMessage retrieves them: the buffer
\* that is left and the arguments of the callback.
Taken(b) ==
  LET len == HostWord(b)
      flag == NetworkWord(retrieve(b, kHeaderLen))
      head == retrieve(retrieve(b, kHeaderLen), kHeaderLen)
      hasId == flag \in IdAndImage \cup IdOnly
      body == IF hasId THEN retrieve(head, kHeaderLen) ELSE head
      imglen == IF flag \in ImageOnly \cup IdAndImage THEN ImageLen(len, hasId) ELSE 0
  IN  [rest |-> IF imglen = 0 THEN body ELSE retrieve(body, imglen),
       call |-> [flag |-> flag,
                 id |-> IF hasId THEN HostWord(head) ELSE 0,
                 image |-> SubSeq(body.bytes, body.readerIndex + 1, body.readerIndex + imglen)]]

\* One frame at most, whatever else the buffer holds.  A frame with an unknown
\* flag is dropped, its length and its flag only.
onMessage(b) ==
  LET frame == Taken(b)
  IN  IF HasFrame(b)
      THEN [rest |-> frame.rest,
            calls |-> IF frame.call.flag \in Known THEN <<frame.call>> ELSE <<>>]
      ELSE [rest |-> b, calls |-> <<>>]

-----------------------------------------------------------------------------
Init ==
  /\ patient \in BOOLEAN
  /\ sent = <<>>
  /\ wire = <<>>
  /\ inputBuffer = NewBuffer
  /\ delivered = <<>>

\* An unknown flag is never answered: a client that waits does not send one.
Send(f) ==
  /\ Len(sent) < MaxFrames
  /\ patient => Len(delivered) = Len(sent) /\ f.flag \in Known
  /\ sent' = Append(sent, f)
  /\ wire' = wire \o Encode(f)
  /\ UNCHANGED <<patient, inputBuffer, delivered>>

\* A read event (readFd): the next n bytes are appended to the buffer.
Leave(n) == wire' = SubSeq(wire, n + 1, Len(wire))

Read(n) ==
  /\ Leave(n)
  /\ \E handled \in {onMessage(append(inputBuffer, SubSeq(wire, 1, n)))} :
       /\ inputBuffer' = handled.rest
       /\ delivered' = delivered \o handled.calls
  /\ UNCHANGED <<patient, sent>>

ReadSome == \E n \in 1 .. Len(wire) : Read(n)

Next == ReadSome \/ \E f \in Frames : Send(f)

Spec == Init /\ [][Next]_vars

\* What is on the wire arrives: bytes leave it by Read only, and whenever there
\* are any some can be read.
Fairness == WF_wire(\E n \in 1 .. Len(wire) : Leave(n))

FairSpec == Spec /\ Fairness

-----------------------------------------------------------------------------
\* The calls that a frame should lead to.
Calls(f) == IF f.flag \in Known THEN <<f>> ELSE <<>>

Unread == toStringPiece(inputBuffer)

\* However the stream is cut, however many frames pile up, and whenever the
\* buffer moves its data or grows, the codec stays in step with the stream: the
\* handlers were called for the first frames, in order and once each, and what
\* is left in the buffer and on the wire is exactly the rest.
StreamInStep ==
  \E n \in 0 .. Len(sent) :
    /\ delivered = FlattenSeq([k \in 1 .. n |-> Calls(sent[k])])
    /\ Unread \o wire = FlattenSeq([k \in 1 .. Len(sent) - n |-> Encode(sent[n + k])])

\* onMessage looks for one frame per read event, which is enough for a client
\* that waits for each answer: it never leaves a complete frame in the buffer, with
\* the client waiting for the answer and nothing more to read; every frame of such
\* a client is handled.
AllHandled ==
  \A n \in 1 .. MaxFrames : patient /\ Len(sent) >= n ~> Len(delivered) >= n
=============================================================================
