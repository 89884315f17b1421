------------------------------ MODULE LogText ------------------------------
(***************************************************************************)
(* What muduo's logger does to text: LogStream collects the items of a     *)
(* line in a FixedBuffer (LogStream.h), Logger names the source file in it *)
(* (Logging.h), and StringPiece (StringPiece.h) looks at a part of a text  *)
(* without owning it.  A text is a sequence of characters, which are       *)
(* numbers; what is logged is a value of some type.                        *)
(***************************************************************************)
EXTENDS Integers, SequencesExt

CONSTANTS
  SIZE,       \* of the FixedBuffer
  Values,     \* what may be logged, [type, value]
  Zero, One,  \* the characters of false and true
  Null,       \* the text "(null)"
  Slash,      \* the character '/'
  MaxLogged   \* bound on the values of a line

\* Logger::SourceFile, of an array of characters and of a pointer to them: where
\* the name begins in the path, and its size.
strrchr(path, c) ==
  LET At == {k \in DOMAIN path : path[k] = c} IN IF At = {} THEN 0 ELSE Max(At)

SourceFile(path) ==
  LET data == strrchr(path, Slash) IN [data |-> data, size |-> Len(path) - data]

SourceFileOfPointer(path) ==
  LET data == strrchr(path, Slash)
  IN  [data |-> data, size |-> Len(SubSeq(path, data + 1, Len(path)))]

Name(path, file) == SubSeq(path, file.data + 1, file.data + file.size)

\* The text that operator<< appends for a value of each type: a number has been
\* formatted, a null pointer has a text of its own, everything else is a text.
Streamed(v) ==
  CASE v.type = "bool" -> IF v.value THEN <<One>> ELSE <<Zero>>
    [] v.type = "char" -> <<v.value>>
    [] v.type = "null pointer" -> Null
    [] v.type = "text" -> v.value
    [] v.type = "file" -> Name(v.value, SourceFile(v.value))
    [] v.type = "file pointer" -> Name(v.value, SourceFileOfPointer(v.value))

Items == {Streamed(v) : v \in Values}

ASSUME LogAssumption ==
  /\ SIZE \in Nat \ {0}
  /\ Items \subseteq Seq(Nat)
  /\ \A v \in Values : v.type \in {"file", "file pointer"} => v.value \in Seq(Nat)
  /\ MaxLogged \in Nat

VARIABLES
  data_,    \* the first length() characters of the buffer
  logged,   \* the items of this line that append was called with
  taken,    \* which of them it took
  piece     \* a StringPiece into data_: where it begins, and its length

logVars == <<data_, logged, taken, piece>>

-----------------------------------------------------------------------------
\* FixedBuffer: an item that does not fit is dropped, whole.  One character always
\* stays free; the mutant does not know that.
avail == SIZE - Len(data_)

FitsExactly(text) == avail >= Len(text)

Fits(text) == avail > Len(text)

\* StringPiece: constructors and set, of a place and a length; and the buffer's.
StringPiece(ptr, length) == [ptr |-> ptr, length |-> length]

wholePiece == StringPiece(0, Len(data_))

LogInit ==
  /\ data_ = <<>>
  /\ logged = <<>>
  /\ taken = {}
  /\ piece = wholePiece

\* FixedBuffer::append.  A piece may point into the buffer, whose characters stay
\* where they are.
appendText(text) ==
  /\ Len(logged) < MaxLogged
  /\ logged' = Append(logged, text)
  /\ IF Fits(text)
     THEN data_' = data_ \o text /\ taken' = taken \cup {Len(logged) + 1}
     ELSE UNCHANGED <<data_, taken>>
  /\ UNCHANGED piece

\* resetBuffer, for the next line; who looked at this one must not look any more.
resetBuffer ==
  /\ data_' = <<>>
  /\ logged' = <<>>
  /\ taken' = {}
  /\ piece' = StringPiece(0, 0)

\* buffer().toStringPiece(), and what a reader may do with it.
LookAtAll == piece' = wholePiece /\ UNCHANGED <<data_, logged, taken>>

remove_prefix(n) ==
  /\ piece' = StringPiece(piece.ptr + n, piece.length - n)
  /\ UNCHANGED <<data_, logged, taken>>

remove_suffix(n) ==
  /\ piece' = [piece EXCEPT !.length = @ - n]
  /\ UNCHANGED <<data_, logged, taken>>

LogNext ==
  \/ \E v \in Values : appendText(Streamed(v))
  \/ resetBuffer
  \/ LookAtAll
  \/ \E n \in 0 .. piece.length : remove_prefix(n) \/ remove_suffix(n)

LogSpec == LogInit /\ [][LogNext]_logVars

-----------------------------------------------------------------------------
\* StringPiece's operators on the text x and the text y.
as_string(p) == SubSeq(data_, p.ptr + 1, p.ptr + p.length)

\* memcmp of the first n characters: the first difference decides.
memcmp(x, y, n) ==
  LET Differ == {k \in 1 .. n : x[k] # y[k]}
      First == CHOOSE k \in Differ : \A j \in Differ : k <= j
  IN  IF Differ = {} THEN 0 ELSE IF x[First] < y[First] THEN -1 ELSE 1

Shorter(x, y) == IF Len(x) < Len(y) THEN Len(x) ELSE Len(y)

Equals(x, y) == Len(x) = Len(y) /\ memcmp(x, y, Len(x)) = 0

\* STRINGPIECE_BINARY_PREDICATE; in the mutant the lengths decide as the characters.
LessEqualStrict(x, y) ==
  LET r == memcmp(x, y, Shorter(x, y)) IN r < 0 \/ (r = 0 /\ Len(x) < Len(y))

LessEqual(x, y) ==
  LET r == memcmp(x, y, Shorter(x, y)) IN r < 0 \/ (r = 0 /\ Len(x) <= Len(y))

Less(x, y) ==
  LET r == memcmp(x, y, Shorter(x, y)) IN r < 0 \/ (r = 0 /\ Len(x) < Len(y))

compare(x, y) ==
  LET r == memcmp(x, y, Shorter(x, y))
  IN  IF r # 0 THEN r ELSE IF Len(x) < Len(y) THEN -1 ELSE IF Len(x) > Len(y) THEN 1 ELSE 0

starts_with(x, y) == Len(x) >= Len(y) /\ memcmp(x, y, Len(y)) = 0

-----------------------------------------------------------------------------
\* A line consists of the items that were taken, each whole and in order, whatever
\* was dropped between them, and there is always room for the character that ends
\* it.  The name of a source file has no directory left, and either way to make one
\* gives the same.  A piece of a line never reaches beyond it.
LineOfWholeItems ==
  /\ data_ = FlattenSeq([k \in 1 .. Len(logged) |-> IF k \in taken THEN logged[k] ELSE <<>>])
  /\ Len(data_) < SIZE
  /\ \A v \in Values :
       v.type \in {"file", "file pointer"} =>
         /\ Slash \notin Range(Streamed(v))
         /\ IsSuffix(Streamed(v), v.value)
         /\ SourceFile(v.value) = SourceFileOfPointer(v.value)
  /\ piece.ptr >= 0 /\ piece.length >= 0
  /\ piece.ptr + piece.length <= Len(data_)

\* StringPiece's five ways to compare agree with each other, and make one total
\* order of the pieces and the items, in which a prefix comes first.
OneOrder ==
  LET x == as_string(piece)
  IN  \A y \in Items :
        /\ compare(x, y) = -compare(y, x)
        /\ compare(x, y) = 0 <=> Equals(x, y)
        /\ Equals(x, y) <=> x = y
        /\ Less(x, y) <=> compare(x, y) < 0
        /\ LessEqual(x, y) <=> compare(x, y) <= 0
        /\ starts_with(x, y) <=> IsPrefix(y, x)
        /\ starts_with(x, y) => LessEqual(y, x)
        /\ \A z \in Items : LessEqual(y, x) /\ LessEqual(x, z) => LessEqual(y, z)
=============================================================================
