---------------------------- MODULE HttpSession ----------------------------
(***************************************************************************)
(* muduo's HttpContext and HttpRequest (HttpContext.h, HttpRequest.h) over *)
(* the requests of a connection that is kept alive: the context is one     *)
(* object, which the parser fills line by line and which is reset for the  *)
(* next request.  The parser is in the library's binary; what it calls,    *)
(* and in which order, is taken from the declarations.                     *)
(***************************************************************************)
EXTENDS Naturals, Sequences, FiniteSetsExt

CONSTANTS
  Requests,   \* what a client may send: [method, version, path, query, lines]
  NoText      \* the empty string

\* A line is a field and the text behind its colon, a sequence of characters.
ASSUME HttpAssumption ==
  \A r \in Requests : r.lines \in Seq([field : STRING, text : Seq(STRING)])

VARIABLES
  state_,    \* of the context: what it expects
  request_,  \* of the context: the HttpRequest
  coming,    \* the request that the client is sending
  linesRead, \* how many of its header lines have been parsed
  refused    \* parseRequest has returned false

httpVars == <<state_, request_, coming, linesRead, refused>>

-----------------------------------------------------------------------------
NewRequest ==
  [method |-> "kInvalid", version |-> "kUnknown", path |-> NoText, query |-> NoText,
   receiveTime |-> "invalid", headers |-> <<>>]

MethodNames == [kGet |-> "GET", kPost |-> "POST", kHead |-> "HEAD", kPut |-> "PUT",
                kDelete |-> "DELETE"]

methodOf(m) ==
  IF \E k \in DOMAIN MethodNames : MethodNames[k] = m
  THEN CHOOSE k \in DOMAIN MethodNames : MethodNames[k] = m
  ELSE "kInvalid"

methodString(r) ==
  IF r.method \in DOMAIN MethodNames THEN MethodNames[r.method] ELSE "UNKNOWN"

isspace(c) == c = " "

NonSpace(text) == {k \in DOMAIN text : ~isspace(text[k])}

\* addHeader skips the space behind the colon and then cuts the space at the end;
\* the mutant forgets the latter.
ValueUncut(text) ==
  IF NonSpace(text) = {} THEN <<>> ELSE SubSeq(text, Min(NonSpace(text)), Len(text))

Value(text) ==
  IF NonSpace(text) = {} THEN <<>> ELSE SubSeq(text, Min(NonSpace(text)), Max(NonSpace(text)))

addHeader(r, line) ==
  [r EXCEPT !.headers = [f \in {line.field} \cup DOMAIN r.headers |->
                           IF f = line.field THEN Value(line.text) ELSE r.headers[f]]]

getHeader(r, field) == IF field \in DOMAIN r.headers THEN r.headers[field] ELSE <<>>

\* What a request is after it is swapped with another; the mutant forgets a member.
swapWithoutQuery(r, that) ==
  [r EXCEPT !.method = that.method, !.version = that.version, !.path = that.path,
            !.receiveTime = that.receiveTime, !.headers = that.headers]

swap(r, that) ==
  [r EXCEPT !.method = that.method, !.version = that.version, !.path = that.path,
            !.query = that.query, !.receiveTime = that.receiveTime,
            !.headers = that.headers]

-----------------------------------------------------------------------------
HttpInit ==
  /\ state_ = "kExpectRequestLine"
  /\ request_ = NewRequest
  /\ coming \in Requests
  /\ linesRead = 0
  /\ refused = FALSE

\* setMethod, and if it knows the method setPath, setQuery, setVersion and
\* setReceiveTime.  A request without a query leaves query_ alone.
RequestLine ==
  /\ state_ = "kExpectRequestLine"
  /\ ~refused
  /\ IF methodOf(coming.method) = "kInvalid"
     THEN /\ refused' = TRUE
          /\ request_' = [request_ EXCEPT !.method = "kInvalid"]
          /\ UNCHANGED state_
     ELSE /\ state_' = "kExpectHeaders"
          /\ request_' =
               [request_ EXCEPT !.method = methodOf(coming.method),
                                !.path = coming.path,
                                !.query = IF coming.query = NoText THEN @ ELSE coming.query,
                                !.version = coming.version,
                                !.receiveTime = "received"]
          /\ UNCHANGED refused
  /\ UNCHANGED <<coming, linesRead>>

HeaderLine ==
  /\ state_ = "kExpectHeaders"
  /\ linesRead < Len(coming.lines)
  /\ request_' = addHeader(request_, coming.lines[linesRead + 1])
  /\ linesRead' = linesRead + 1
  /\ UNCHANGED <<state_, coming, refused>>

EmptyLine ==
  /\ state_ = "kExpectHeaders"
  /\ linesRead = Len(coming.lines)
  /\ state_' = "kGotAll"
  /\ UNCHANGED <<request_, coming, linesRead, refused>>

NextRequest == coming' \in Requests /\ linesRead' = 0

\* HttpContext::reset, when the request that gotAll says is there was handled.
reset ==
  /\ state_ = "kGotAll"
  /\ state_' = "kExpectRequestLine"
  /\ request_' = swap(request_, NewRequest)
  /\ NextRequest
  /\ UNCHANGED refused

\* A client that was refused comes back on a new connection, with a new context.
Reconnect ==
  /\ refused
  /\ state_' = "kExpectRequestLine"
  /\ request_' = NewRequest
  /\ NextRequest
  /\ refused' = FALSE

HttpNext == RequestLine \/ HeaderLine \/ EmptyLine \/ reset \/ Reconnect

HttpSpec == HttpInit /\ [][HttpNext]_httpVars

-----------------------------------------------------------------------------
\* What the value of a header line should be: the text without the space around it.
IsValueOf(v, text) ==
  /\ v # <<>> => ~isspace(v[1]) /\ ~isspace(v[Len(v)])
  /\ \E n \in 0 .. Len(text) :
       /\ v = SubSeq(text, n + 1, n + Len(v))
       /\ \A k \in (1 .. Len(text)) \ (n + 1 .. n + Len(v)) : isspace(text[k])

LastOf(field) ==
  {k \in DOMAIN coming.lines :
     /\ coming.lines[k].field = field
     /\ \A j \in k + 1 .. Len(coming.lines) : coming.lines[j].field # field}

\* When gotAll says so, the request is the one the client sent and has nothing of
\* those before it on the connection: not a query, not a header.  When the next one
\* begins, nothing is left: setMethod asserts it of the method.
RequestIsItsOwn ==
  /\ state_ = "kExpectRequestLine" => request_ = NewRequest
  /\ state_ = "kGotAll" =>
       /\ methodString(request_) = coming.method
       /\ request_.version = coming.version
       /\ request_.path = coming.path
       /\ request_.query = coming.query
       /\ request_.receiveTime = "received"
       /\ DOMAIN request_.headers = {coming.lines[k].field : k \in DOMAIN coming.lines}
       /\ \A field \in DOMAIN request_.headers :
            \E k \in LastOf(field) : IsValueOf(getHeader(request_, field), coming.lines[k].text)
=============================================================================
