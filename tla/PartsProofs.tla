----------------------------- MODULE PartsProofs -----------------------------
(***************************************************************************)
(* Proofs about the parts that one thread uses at a time: FaceEngine,      *)
(* HttpSession, Picture and LogText, one section each, for any engines,    *)
(* requests, pictures, texts and sizes.                                    *)
(***************************************************************************)
EXTENDS FaceEngine, HttpSession, Picture, LogText, BufferProofs

-----------------------------------------------------------------------------
(***************************************************************************)
(* FaceEngine.  EngineInv says of each half what BuffersRight says of it,  *)
(* with the values a half can have; the proofs go from a half to an engine *)
(* to all of them.                                                         *)
(***************************************************************************)
HalfOK(half) ==
  /\ half \in [handle : BOOLEAN, buffer : {"null", "live", "dangling"}, blocks : Int]
  /\ half.handle <=> half.buffer = "live"
  /\ half.blocks = IF half.buffer = "live" THEN 1 ELSE 0

EngineOK(e) == e \in [FD : {e.FD}, FR : {e.FR}] /\ HalfOK(e.FD) /\ HalfOK(e.FR)

LastTrue ==
  /\ last = [call |-> "startEngines", ret |-> 0]
       => \A k \in Pool : engines[k].FD.handle /\ engines[k].FR.handle
  /\ last = [call |-> "stopEngines", ret |-> 0]
       => \A k \in Pool : engines[k] = NewEngine

EngineInv ==
  /\ engines = [k \in Pool |-> engines[k]]
  /\ \A k \in Pool : EngineOK(engines[k])
  /\ \A k \in Pool : onStack[k] \in Nat /\ (Refused(k) => onStack[k] # 0)
  /\ LastTrue

-----------------------------------------------------------------------------
LEMMA StartedHalf ==
  ASSUME NEW half, HalfOK(half), half.buffer = "null", NEW fate \in Fates
  PROVE  /\ HalfOK(Started(half, fate))
         /\ fate = "well" => Started(half, fate).handle
<1>1. CASE fate = "no memory"
  BY <1>1 DEF Started
<1>2. half = [handle |-> FALSE, buffer |-> "null", blocks |-> 0]
  BY DEF HalfOK
<1>3. Allocated(half) = [handle |-> FALSE, buffer |-> "live", blocks |-> 1]
  BY <1>2 DEF Allocated
<1>4. CASE fate = "refused"
  <2>1. Started(half, fate) = [handle |-> FALSE, buffer |-> "dangling", blocks |-> 0]
    BY <1>3, <1>4 DEF Started, Freed
  <2>2. HalfOK([handle |-> FALSE, buffer |-> "dangling", blocks |-> 0])
    BY DEF HalfOK
  <2> QED BY <1>4, <2>1, <2>2
<1>5. CASE fate = "well"
  <2> DEFINE open == [handle |-> TRUE, buffer |-> "live", blocks |-> 1]
  <2>1. Started(half, fate) = [[handle |-> FALSE, buffer |-> "live", blocks |-> 1] EXCEPT !.handle = TRUE]
    BY ONLY <1>3, <1>5 DEF Started
  <2>2. Started(half, fate) = open
    BY ONLY <2>1
  <2>3. HalfOK(open) /\ open.handle
    BY DEF HalfOK
  <2> HIDE DEF open
  <2> QED BY <1>5, <2>2, <2>3
<1> QED BY <1>1, <1>4, <1>5 DEF Fates

LEMMA StoppedHalf ==
  ASSUME NEW half, HalfOK(half), NEW willing \in BOOLEAN
  PROVE  /\ HalfOK(Stopped(half, willing))
         /\ half.handle /\ willing => Stopped(half, willing) = NewHalf
<1>1. CASE half.handle /\ willing
  <2>1. Stopped(half, willing) = NewHalf
    BY <1>1 DEF Stopped, NewHalf, HalfOK
  <2> QED BY <2>1 DEF HalfOK, NewHalf
<1>2. CASE ~(half.handle /\ willing)
  BY <1>2 DEF Stopped
<1> QED BY <1>1, <1>2

LEMMA StartedEngine ==
  ASSUME NEW e, EngineOK(e), NEW fate \in [FD : Fates, FR : Fates]
  PROVE  LET r == InitEngine(e, fate)
         IN  /\ EngineOK(r.engine)
             /\ r.ret = 0 => r.engine.FD.handle /\ r.engine.FR.handle
<1>1. fate.FD \in Fates /\ fate.FR \in Fates
  OBVIOUS
<1>2. CASE MayRun(e)
  BY <1>2 DEF InitEngine
<1>3. CASE ~MayRun(e)
  <2>1. e.FD.buffer = "null" /\ e.FR.buffer = "null"
    BY <1>3 DEF MayRun
  <2>2. /\ HalfOK(Started(e.FD, fate.FD)) /\ HalfOK(Started(e.FR, fate.FR))
        /\ fate.FD = "well" => Started(e.FD, fate.FD).handle
        /\ fate.FR = "well" => Started(e.FR, fate.FR).handle
    BY <1>1, <2>1, StartedHalf DEF EngineOK
  <2>3. CASE fate.FD # "well"
    <3>1. InitEngine(e, fate) = [engine |-> [e EXCEPT !.FD = Started(e.FD, fate.FD)], ret |-> -1]
      BY <1>3, <2>3 DEF InitEngine
    <3>2. EngineOK([e EXCEPT !.FD = Started(e.FD, fate.FD)])
      BY <2>2 DEF EngineOK
    <3> QED BY <3>1, <3>2
  <2>4. CASE fate.FD = "well"
    <3>1. InitEngine(e, fate) =
            [engine |-> [FD |-> Started(e.FD, fate.FD), FR |-> Started(e.FR, fate.FR)],
             ret |-> IF fate.FR = "well" THEN 0 ELSE -1]
      BY <1>3, <2>4 DEF InitEngine
    <3> QED BY <2>2, <2>4, <3>1 DEF EngineOK
  <2> QED BY <2>3, <2>4
<1> QED BY <1>2, <1>3

LEMMA StoppedEngine ==
  ASSUME NEW e, EngineOK(e), NEW willing \in [FD : BOOLEAN, FR : BOOLEAN]
  PROVE  LET r == UninitialEngine(e, willing)
         IN  /\ EngineOK(r.engine)
             /\ r.ret = 0 => r.engine = NewEngine
<1>1. /\ HalfOK(Stopped(e.FD, willing.FD)) /\ HalfOK(Stopped(e.FR, willing.FR))
      /\ e.FD.handle /\ willing.FD => Stopped(e.FD, willing.FD) = NewHalf
      /\ e.FR.handle /\ willing.FR => Stopped(e.FR, willing.FR) = NewHalf
  BY StoppedHalf DEF EngineOK
<1> QED BY <1>1 DEF UninitialEngine, EngineOK, NewEngine

-----------------------------------------------------------------------------
LEMMA EngineInitInv == ASSUME EngineInit PROVE EngineInv
<1>1. HalfOK(NewHalf)
  BY DEF HalfOK, NewHalf
<1>2. EngineOK(NewEngine)
  BY <1>1 DEF EngineOK, NewEngine
<1>3. \A k \in Pool : engines[k] = NewEngine
  BY DEF EngineInit
<1>4. LastTrue /\ engines = [k \in Pool |-> engines[k]]
  BY DEF EngineInit, LastTrue
<1>5. \A k \in Pool : onStack[k] \in Nat /\ ~Refused(k)
  BY <1>3 DEF EngineInit, Refused, NewEngine, NewHalf
<1> QED BY <1>2, <1>3, <1>4, <1>5 DEF EngineInv

LEMMA EngineNextInv == ASSUME EngineInv, [EngineNext]_engineVars PROVE EngineInv'
<1>1. CASE startEngines
  <2>1. PICK fate \in [Pool -> [FD : Fates, FR : Fates]] :
          LET results == [k \in Pool |-> InitEngine(engines[k], fate[k])]
          IN  /\ engines' = [k \in Pool |-> results[k].engine]
              /\ last' = [call |-> "startEngines", ret |-> Result(results)]
    BY <1>1 DEF startEngines
  <2> DEFINE r(k) == InitEngine(engines[k], fate[k])
  <2>2. \A k \in Pool : EngineOK(r(k).engine)
                        /\ (r(k).ret = 0 => r(k).engine.FD.handle /\ r(k).engine.FR.handle)
    BY StartedEngine DEF EngineInv
  <2>3. \A k \in Pool : engines'[k] = r(k).engine
    BY <2>1
  <2>4. last'.ret = 0 => \A k \in Pool : r(k).ret = 0
    BY <2>1 DEF Result
  <2>5. last'.call = "startEngines" /\ engines' = [k \in Pool |-> engines'[k]]
    BY <2>1
  <2>6. \A k \in Pool : onStack'[k] \in Nat /\ onStack'[k] # 0
    BY <1>1 DEF startEngines, EngineInv
  <2> HIDE DEF r
  <2> QED BY <2>2, <2>3, <2>4, <2>5, <2>6 DEF EngineInv, LastTrue
<1>2. CASE stopEngines
  <2>1. PICK willing \in [Pool -> [FD : BOOLEAN, FR : BOOLEAN]] :
          LET results == [k \in Pool |-> UninitialEngine(engines[k], willing[k])]
          IN  /\ engines' = [k \in Pool |-> results[k].engine]
              /\ last' = [call |-> "stopEngines", ret |-> Result(results)]
    BY <1>2 DEF stopEngines
  <2> DEFINE r(k) == UninitialEngine(engines[k], willing[k])
  <2>2. \A k \in Pool : EngineOK(r(k).engine) /\ (r(k).ret = 0 => r(k).engine = NewEngine)
    BY StoppedEngine DEF EngineInv
  <2>3. \A k \in Pool : engines'[k] = r(k).engine
    BY <2>1
  <2>4. last'.ret = 0 => \A k \in Pool : r(k).ret = 0
    BY <2>1 DEF Result
  <2>5. last'.call = "stopEngines" /\ engines' = [k \in Pool |-> engines'[k]]
    BY <2>1
  <2>6. \A k \in Pool : onStack'[k] \in Nat /\ (Refused(k)' => onStack'[k] # 0)
    <3> SUFFICES ASSUME NEW k \in Pool PROVE Refused(k)' => Refused(k)
      BY <1>2 DEF stopEngines, EngineInv
    <3>1. engines'[k] = UninitialEngine(engines[k], willing[k]).engine
      BY <2>3
    <3>2. /\ engines'[k].FD = Stopped(engines[k].FD, willing[k].FD)
          /\ engines'[k].FR = Stopped(engines[k].FR, willing[k].FR)
      BY <3>1 DEF UninitialEngine
    <3>3. \A half, w : Stopped(half, w).buffer = "dangling" => half.buffer = "dangling"
      BY DEF Stopped
    <3> QED BY <3>2, <3>3 DEF Refused
  <2> HIDE DEF r
  <2> QED BY <2>2, <2>3, <2>4, <2>5, <2>6 DEF EngineInv, LastTrue
<1>3. CASE UNCHANGED engineVars
  BY <1>3 DEF engineVars, EngineInv, LastTrue, Refused
<1> QED BY <1>1, <1>2, <1>3 DEF EngineNext

-----------------------------------------------------------------------------
\* Whatever fails in whichever engine, and however often engines are started and
\* stopped, no buffer is leaked or freed twice, and a result of 0 is true.
THEOREM EngineBuffersRight == EngineSpec => []BuffersRight
<1>1. EngineInv => BuffersRight
  BY DEF EngineInv, EngineOK, HalfOK, LastTrue, BuffersRight, Halves
<1> QED BY <1>1, EngineInitInv, EngineNextInv, PTL DEF EngineSpec

\* A half that was refused keeps its dangling pointer.
LEMMA RefusedOn ==
  ASSUME EngineInv, [EngineNext]_engineVars, NEW k \in Pool, Refused(k)
  PROVE  Refused(k)'
<1>1. EngineOK(engines[k])
  BY DEF EngineInv
<1>2. CASE startEngines
  <2>1. PICK fate \in [Pool -> [FD : Fates, FR : Fates]] :
          engines' = [m \in Pool |-> InitEngine(engines[m], fate[m]).engine]
    BY <1>2 DEF startEngines
  <2>2. InitEngine(engines[k], fate[k]) = [engine |-> engines[k], ret |-> -1]
    BY DEF InitEngine, MayRun, Refused
  <2> QED BY <2>1, <2>2 DEF Refused
<1>3. CASE stopEngines
  <2>1. PICK willing \in [Pool -> [FD : BOOLEAN, FR : BOOLEAN]] :
          engines' = [m \in Pool |-> UninitialEngine(engines[m], willing[m]).engine]
    BY <1>3 DEF stopEngines
  <2>2. \A half : HalfOK(half) /\ half.buffer = "dangling"
                    => \A w \in BOOLEAN : Stopped(half, w) = half
    BY DEF HalfOK, Stopped
  <2>3. /\ engines'[k].FD = Stopped(engines[k].FD, willing[k].FD)
        /\ engines'[k].FR = Stopped(engines[k].FR, willing[k].FR)
    BY <2>1 DEF UninitialEngine
  <2> QED BY <1>1, <2>2, <2>3 DEF Refused, EngineOK
<1>4. CASE UNCHANGED engineVars
  BY <1>4 DEF engineVars, Refused
<1> QED BY <1>2, <1>3, <1>4 DEF EngineNext

\* InitEngine takes an engine that the SDK once refused, in either half, for one that
\* may be running: it is never started again, and its index stays on the stack.
THEOREM RefusedEnginesStayOut == EngineSpec => RefusedForGood
<1>1. ASSUME NEW k \in Pool PROVE EngineSpec => OutForGood(k)
  <2>1. EngineInv /\ Refused(k) => ~Runs(k) /\ onStack[k] # 0
    BY DEF EngineInv, EngineOK, HalfOK, Refused, Runs
  <2>2. EngineInv /\ [EngineNext]_engineVars /\ Refused(k) => Refused(k)'
    BY RefusedOn
  <2>3. EngineInv /\ [EngineNext]_engineVars => EngineInv'
    BY EngineNextInv
  <2> QED BY <2>1, <2>2, <2>3, EngineInitInv, PTL DEF EngineSpec, OutForGood
<1> QED BY <1>1 DEF RefusedForGood

-----------------------------------------------------------------------------
(***************************************************************************)
(* HttpSession.  While the header lines come, the headers are those of the *)
(* lines that have been read, the last line of a field deciding, and the   *)
(* rest of the request is what its first line said (HttpInv).              *)
(***************************************************************************)
\* What is left of a text without the space around it.
LEMMA ValueCutsSpace ==
  ASSUME NEW text \in Seq(STRING)
  PROVE  IsValueOf(Value(text), text)
<1> DEFINE P == NonSpace(text)
<1>1. /\ Len(text) \in Nat /\ DOMAIN text = 1 .. Len(text)
      /\ \A k \in 1 .. Len(text) : text[k] \in STRING
  BY LenProperties, ElementOfSeq
<1>2. P \subseteq 1 .. Len(text) /\ \A k \in 1 .. Len(text) : k \in P <=> ~isspace(text[k])
  BY <1>1 DEF NonSpace
<1>0. P \subseteq Nat /\ P \subseteq 0 .. Len(text) /\ Len(text) \in Nat
  BY <1>1, <1>2
<1>3. CASE P = {}
  <2>1. Value(text) = <<>>
    BY <1>3 DEF Value
  <2>2. SubSeq(text, 1, 0) = <<>> /\ Len(<<>>) = 0
    BY SubSeqEmpty
  <2>3. \A k \in (1 .. Len(text)) \ (1 .. 0) : isspace(text[k])
    BY <1>2, <1>3
  <2> QED BY <1>1, <2>1, <2>2, <2>3 DEF IsValueOf
<1>4. CASE P # {}
  <2> DEFINE a == Min(P)
             b == Max(P)
  <2>1. a \in P /\ \A k \in P : a <= k
    <3>1. \E x \in P : \A y \in P : x <= y
      <4> HIDE DEF P
      <4> QED BY <1>0, <1>4, LeastNumber
    <3> QED BY <3>1 DEF Min
  <2>2. b \in P /\ \A k \in P : b >= k
    <3>1. \E x \in P : \A y \in P : x >= y
      <4> HIDE DEF P
      <4> QED BY <1>0, <1>4, LargestNumber
    <3> QED BY <3>1 DEF Max
  <2>3. Value(text) = SubSeq(text, a, b)
    BY <1>4 DEF Value
  <2> HIDE DEF P, a, b
  <2>4. /\ a \in 1 .. Len(text) /\ b \in 1 .. Len(text) /\ a <= b
        /\ ~isspace(text[a]) /\ ~isspace(text[b])
        /\ \A k \in 1 .. Len(text) : k < a \/ k > b => isspace(text[k])
    BY <1>1, <1>2, <2>1, <2>2
  <2> DEFINE v == SubSeq(text, a, b)
  <2>5. /\ Len(v) = b - a + 1 /\ v # <<>>
        /\ \A k \in 1 .. b - a + 1 : v[k] = text[a + k - 1]
    BY <1>1, <2>4, SubSeqProperties, EmptySeq
  <2>6. v[1] = text[a] /\ v[Len(v)] = text[b]
    BY <1>1, <2>4, <2>5
  <2>7. v = SubSeq(text, (a - 1) + 1, (a - 1) + Len(v)) /\ a - 1 \in 0 .. Len(text)
    BY <1>1, <2>4, <2>5
  <2>8. \A k \in (1 .. Len(text)) \ ((a - 1) + 1 .. (a - 1) + Len(v)) : isspace(text[k])
    BY <1>1, <2>4, <2>5
  <2> HIDE DEF v
  <2>9. IsValueOf(v, text)
    BY <2>4, <2>6, <2>7, <2>8 DEF IsValueOf
  <2> QED BY <2>3, <2>9 DEF v
<1> QED BY <1>3, <1>4

LEMMA MethodNamed ==
  ASSUME NEW m, methodOf(m) # "kInvalid"
  PROVE  methodOf(m) \in DOMAIN MethodNames /\ MethodNames[methodOf(m)] = m
<1>1. \E k \in DOMAIN MethodNames : MethodNames[k] = m
  BY DEF methodOf
<1>2. methodOf(m) = CHOOSE k \in DOMAIN MethodNames : MethodNames[k] = m
  BY <1>1 DEF methodOf
<1> QED BY <1>1, <1>2

\* A request whose first line was read, with headers h.
Begun(h) ==
  [method |-> methodOf(coming.method), version |-> coming.version, path |-> coming.path,
   query |-> coming.query, receiveTime |-> "received", headers |-> h]

\* The headers h are those of the first n lines.
HeadersOf(h, n) ==
  /\ DOMAIN h = {coming.lines[k].field : k \in 1 .. n}
  /\ \A f \in DOMAIN h :
       \E k \in 1 .. n : /\ coming.lines[k].field = f
                         /\ \A j \in k + 1 .. n : coming.lines[j].field # f
                         /\ h[f] = Value(coming.lines[k].text)

HttpInv ==
  /\ coming \in Requests
  /\ linesRead \in 0 .. Len(coming.lines)
  /\ state_ \in {"kExpectRequestLine", "kExpectHeaders", "kGotAll"}
  /\ state_ = "kExpectRequestLine" => request_ = NewRequest /\ linesRead = 0
  /\ state_ # "kExpectRequestLine" =>
       /\ methodOf(coming.method) # "kInvalid"
       /\ request_ = Begun(request_.headers)
       /\ HeadersOf(request_.headers, linesRead)
  /\ state_ = "kGotAll" => linesRead = Len(coming.lines)

LEMMA HeaderRead ==
  ASSUME NEW h, NEW n \in Nat, HeadersOf(h, n), NEW g,
         g = [f \in {coming.lines[n + 1].field} \cup DOMAIN h |->
                IF f = coming.lines[n + 1].field THEN Value(coming.lines[n + 1].text) ELSE h[f]]
  PROVE  HeadersOf(g, n + 1)
<1> DEFINE L(k) == coming.lines[k].field
           v(k) == Value(coming.lines[k].text)
<1>1. /\ DOMAIN h = {L(k) : k \in 1 .. n}
      /\ \A f \in DOMAIN h :
           \E k \in 1 .. n : L(k) = f /\ (\A j \in k + 1 .. n : L(j) # f) /\ h[f] = v(k)
  BY DEF HeadersOf
<1>2. /\ DOMAIN g = {L(n + 1)} \cup DOMAIN h
      /\ g[L(n + 1)] = v(n + 1)
      /\ \A f \in DOMAIN h : f # L(n + 1) => g[f] = h[f]
  OBVIOUS
<1>3. (DOMAIN g = {L(k) : k \in 1 .. n + 1}
         /\ \A f \in DOMAIN g :
              \E k \in 1 .. n + 1 : L(k) = f /\ (\A j \in k + 1 .. n + 1 : L(j) # f) /\ g[f] = v(k))
        => HeadersOf(g, n + 1)
  BY DEF HeadersOf
<1> HIDE DEF L, v
<1>4. 1 .. n + 1 = 1 .. n \cup {n + 1} /\ n + 1 \notin 1 .. n
  OBVIOUS
<1>5. DOMAIN g = {L(k) : k \in 1 .. n + 1}
  <2>1. {L(k) : k \in 1 .. n + 1} = {L(k) : k \in 1 .. n} \cup {L(n + 1)}
    BY <1>4
  <2> QED BY <1>1, <1>2, <2>1
<1>6. ASSUME NEW f \in DOMAIN g
      PROVE  \E k \in 1 .. n + 1 : L(k) = f /\ (\A j \in k + 1 .. n + 1 : L(j) # f) /\ g[f] = v(k)
  <2>1. CASE f = L(n + 1)
    BY <1>2, <1>4, <2>1
  <2>2. CASE f # L(n + 1)
    <3>1. PICK k \in 1 .. n : L(k) = f /\ (\A j \in k + 1 .. n : L(j) # f) /\ h[f] = v(k)
      BY <1>1, <1>2, <2>2
    <3>2. \A j \in k + 1 .. n + 1 : j \in k + 1 .. n \/ j = n + 1
      OBVIOUS
    <3> QED BY <1>2, <1>4, <2>2, <3>1, <3>2
  <2> QED BY <2>1, <2>2
<1> QED BY <1>3, <1>5, <1>6

LEMMA HttpNextInv == ASSUME HttpInv, [HttpNext]_httpVars PROVE HttpInv'
<1>0. \A r \in Requests : Len(r.lines) \in Nat
  BY HttpAssumption, LenProperties DEF HttpAssumption
<1>1. CASE RequestLine
  <2>1. state_ = "kExpectRequestLine" /\ request_ = NewRequest /\ linesRead = 0
        /\ coming' = coming /\ linesRead' = 0
    BY <1>1 DEF RequestLine, HttpInv
  <2>2. CASE methodOf(coming.method) = "kInvalid"
    <3>1. state_' = "kExpectRequestLine" /\ request_' = NewRequest
      BY <1>1, <2>1, <2>2 DEF RequestLine, NewRequest
    <3> QED BY <2>1, <3>1 DEF HttpInv
  <2>3. CASE methodOf(coming.method) # "kInvalid"
    <3>1. state_' = "kExpectHeaders" /\ request_' = Begun(<<>>)
      BY <1>1, <2>1, <2>3 DEF RequestLine, NewRequest, Begun
    <3>2. HeadersOf(<<>>, 0) /\ DOMAIN <<>> = {}
      BY DEF HeadersOf
    <3>3. request_'.headers = <<>>
      BY <3>1 DEF Begun
    <3> QED BY <2>1, <2>3, <3>1, <3>2, <3>3 DEF HttpInv, HeadersOf, Begun
  <2> QED BY <2>2, <2>3
<1>2. CASE HeaderLine
  <2> DEFINE g == request_'.headers
  <2>1. /\ state_ = "kExpectHeaders" /\ linesRead \in Nat /\ linesRead < Len(coming.lines)
        /\ request_ = Begun(request_.headers) /\ HeadersOf(request_.headers, linesRead)
        /\ request_' = addHeader(request_, coming.lines[linesRead + 1])
        /\ linesRead' = linesRead + 1 /\ state_' = state_ /\ coming' = coming
    BY <1>2 DEF HeaderLine, HttpInv
  <2>2. /\ g = [f \in {coming.lines[linesRead + 1].field} \cup DOMAIN request_.headers |->
                  IF f = coming.lines[linesRead + 1].field
                  THEN Value(coming.lines[linesRead + 1].text) ELSE request_.headers[f]]
        /\ request_' = Begun(g)
    BY <2>1 DEF addHeader, Begun
  <2>3. HeadersOf(g, linesRead + 1)
    <3> HIDE DEF g
    <3> QED BY <2>1, <2>2, HeaderRead
  <2>4. Begun(request_.headers)' = Begun(g) /\ HeadersOf(request_.headers, linesRead)'
    BY <2>1, <2>3 DEF Begun, HeadersOf
  <2>5. linesRead' \in 0 .. Len(coming'.lines) /\ state_' \notin {"kExpectRequestLine", "kGotAll"}
    BY <1>0, <2>1 DEF HttpInv
  <2> HIDE DEF g
  <2> QED BY <2>1, <2>2, <2>4, <2>5 DEF HttpInv
<1>3. CASE EmptyLine
  BY <1>3 DEF EmptyLine, HttpInv, HeadersOf, Begun
<1>4. CASE reset \/ Reconnect
  <2>1. state_' = "kExpectRequestLine" /\ coming' \in Requests /\ linesRead' = 0
    BY <1>4 DEF reset, Reconnect, NextRequest
  <2>2. request_' = NewRequest
    BY <1>4 DEF reset, Reconnect, swap, NewRequest, HttpInv, Begun
  <2> QED BY <1>0, <2>1, <2>2 DEF HttpInv
<1>5. CASE UNCHANGED httpVars
  BY <1>5 DEF httpVars, HttpInv, HeadersOf, Begun
<1> QED BY <1>1, <1>2, <1>3, <1>4, <1>5 DEF HttpNext

\* On a connection that is kept alive every request is read as it was sent, whatever
\* the requests before it had: no query, no header and no method of theirs is left.
THEOREM RequestsAreTheirOwn == HttpSpec => []RequestIsItsOwn
<1>1. HttpInit => HttpInv
  <2>1. \A r \in Requests : Len(r.lines) \in Nat
    BY HttpAssumption, LenProperties DEF HttpAssumption
  <2> QED BY <2>1 DEF HttpInit, HttpInv
<1>2. ASSUME HttpInv PROVE RequestIsItsOwn
  <2>1. CASE state_ = "kGotAll"
    <3> DEFINE h == request_.headers
               n == Len(coming.lines)
    <3>1. /\ request_ = Begun(h) /\ methodOf(coming.method) # "kInvalid" /\ HeadersOf(h, n)
      BY <1>2, <2>1 DEF HttpInv
    <3>2. methodString(request_) = coming.method
      BY <3>1, MethodNamed DEF methodString, Begun
    <3>3. /\ request_.version = coming.version /\ request_.path = coming.path
          /\ request_.query = coming.query /\ request_.receiveTime = "received"
      BY <3>1 DEF Begun
    <3>4. coming.lines \in Seq([field : STRING, text : Seq(STRING)])
      BY <1>2, HttpAssumption DEF HttpInv, HttpAssumption
    <3>5. n \in Nat /\ DOMAIN coming.lines = 1 .. n
          /\ \A k \in 1 .. n : coming.lines[k].text \in Seq(STRING)
      <4>1. n \in Nat /\ DOMAIN coming.lines = 1 .. n
        BY <3>4, LenProperties
      <4>2. \A k \in 1 .. n : coming.lines[k] \in [field : STRING, text : Seq(STRING)]
        BY <3>4, ElementOfSeq
      <4> QED BY <4>1, <4>2
    <3>6. \A f \in DOMAIN h :
            \E k \in LastOf(f) : IsValueOf(getHeader(request_, f), coming.lines[k].text)
      <4> SUFFICES ASSUME NEW f \in DOMAIN h
                   PROVE  \E k \in LastOf(f) : IsValueOf(getHeader(request_, f), coming.lines[k].text)
        OBVIOUS
      <4>1. PICK k \in 1 .. n : /\ coming.lines[k].field = f
                                /\ \A j \in k + 1 .. n : coming.lines[j].field # f
                                /\ h[f] = Value(coming.lines[k].text)
        BY <3>1 DEF HeadersOf
      <4>2. k \in LastOf(f) /\ getHeader(request_, f) = h[f]
        BY <3>5, <4>1 DEF LastOf, getHeader
      <4>3. IsValueOf(Value(coming.lines[k].text), coming.lines[k].text)
        BY <3>5, ValueCutsSpace
      <4> QED BY <4>1, <4>2, <4>3
    <3>7. DOMAIN h = {coming.lines[k].field : k \in DOMAIN coming.lines}
      BY <3>1, <3>5 DEF HeadersOf
    <3> QED BY <2>1, <3>2, <3>3, <3>6, <3>7 DEF RequestIsItsOwn
  <2>2. CASE state_ # "kGotAll"
    BY <1>2, <2>2 DEF HttpInv, RequestIsItsOwn
  <2> QED BY <2>1, <2>2
<1> QED BY <1>1, <1>2, HttpNextInv, PTL DEF HttpSpec

-----------------------------------------------------------------------------
(***************************************************************************)
(* Picture.  The copy is three quarters of the bytes that the loop has     *)
(* seen, and those that were seen lie in rawdata (PictureInv); how the     *)
(* planes lie is arithmetic about width and height.                        *)
(***************************************************************************)
PictureInv ==
  /\ img \in [depth : Depths, width : 1 .. MaxSide, height : 1 .. MaxSide]
  /\ i \in 0 .. bmpSize
  /\ bmpdata \in Seq(Nat)
  /\ Len(bmpdata) = i - i \div 4
  /\ \A k \in 1 .. Len(bmpdata) : bmpdata[k] = Source(k - 1) /\ bmpdata[k] < i
  /\ \/ inputImg = NotDescribed
     \/ \E format \in Formats :
          inputImg = [format |-> format, planes |-> getFaceInputImg(img.width, img.height, format)]

LEMMA BytesNat ==
  ASSUME NEW m \in [depth : Depths, width : 1 .. MaxSide, height : 1 .. MaxSide]
  PROVE  /\ m.width \in Nat /\ m.height \in Nat /\ m.width > 0 /\ m.height > 0
         /\ byteCount(m) \in Nat
         /\ (byteCount(m) \div 4) * 3 \in Nat /\ (byteCount(m) \div 4) * 3 <= byteCount(m)
<1>1. m.width \in Nat /\ m.height \in Nat /\ m.width > 0 /\ m.height > 0 /\ m.depth \in Nat
  BY PictureAssumption DEF PictureAssumption, Depths
<1>2. \A w, d \in Nat : ((w * d + 31) \div 32) * 4 \in Nat
  OBVIOUS
<1>3. bytesPerLine(m) \in Nat
  BY <1>1, <1>2 DEF bytesPerLine
<1>4. \A a, b \in Nat : a * b \in Nat
  OBVIOUS
<1>5. byteCount(m) \in Nat
  BY <1>1, <1>3, <1>4 DEF byteCount
<1>6. \A n \in Nat : (n \div 4) * 3 \in Nat /\ (n \div 4) * 3 <= n
  OBVIOUS
<1> QED BY <1>1, <1>5, <1>6

LEMMA PictureNextInv == ASSUME PictureInv, [PictureNext]_pictureVars PROVE PictureInv'
<1>1. bmpSize \in Nat
  BY BytesNat DEF PictureInv, bmpSize
<1>2. CASE CopyByte
  <2>1. /\ i \in Nat /\ i < bmpSize /\ i' = i + 1 /\ img' = img /\ bmpSize' = bmpSize
        /\ inputImg' = inputImg
    BY <1>1, <1>2 DEF CopyByte, PictureInv, bmpSize, byteCount, bytesPerLine
  <2>2. /\ bmpdata \in Seq(Nat) /\ Len(bmpdata) = i - i \div 4
        /\ \A k \in 1 .. Len(bmpdata) : bmpdata[k] = Source(k - 1) /\ bmpdata[k] < i
    BY DEF PictureInv
  <2>3. CASE (i + 1) % 4 = 0
    <3>1. bmpdata' = bmpdata
      BY <1>2, <2>3 DEF CopyByte
    <3>2. i + 1 - (i + 1) \div 4 = i - i \div 4
      BY <2>1, <2>3
    <3>3. \A x \in Nat : x < i => x < i + 1
      BY <2>1
    <3>4. \A k \in 1 .. Len(bmpdata) : bmpdata[k] = Source(k - 1) /\ bmpdata[k] < i + 1
      BY <2>1, <2>2, <3>3, ElementOfSeq
    <3> QED BY <1>1, <2>1, <2>2, <3>1, <3>2, <3>4 DEF PictureInv, Source
  <2>4. CASE (i + 1) % 4 # 0
    <3>1. bmpdata' = Append(bmpdata, i)
      BY <1>2, <2>4 DEF CopyByte
    <3>2. i + 1 - (i + 1) \div 4 = i - i \div 4 + 1 /\ i - i \div 4 \in Nat
      BY <2>1, <2>4
    <3>3. Source(i - i \div 4) = i
      <4>1. (i - i \div 4) \div 3 = i \div 4 /\ (i - i \div 4) % 3 = i % 4
        BY <2>1, <2>4
      <4> QED BY <2>1, <4>1 DEF Source
    <3>4. /\ bmpdata' \in Seq(Nat) /\ Len(bmpdata') = Len(bmpdata) + 1
          /\ bmpdata'[Len(bmpdata) + 1] = i
          /\ \A k \in 1 .. Len(bmpdata) : bmpdata'[k] = bmpdata[k]
      BY <2>1, <2>2, <3>1, AppendProperties
    <3>5. ASSUME NEW k \in 1 .. Len(bmpdata')
          PROVE  bmpdata'[k] = Source(k - 1) /\ bmpdata'[k] < i + 1
      <4>1. CASE k = Len(bmpdata) + 1
        BY <2>1, <2>2, <3>2, <3>3, <3>4, <4>1
      <4>2. CASE k \in 1 .. Len(bmpdata)
        <5>1. bmpdata[k] \in Nat
          BY <2>2, <4>2, ElementOfSeq
        <5>2. bmpdata[k] = Source(k - 1) /\ bmpdata[k] < i
          BY <2>2, <4>2
        <5>3. bmpdata[k] < i + 1
          BY <2>1, <5>1, <5>2
        <5> QED BY <3>4, <4>2, <5>2, <5>3
      <4> QED BY <2>2, <3>2, <3>4, <4>1, <4>2
    <3> QED BY <1>1, <2>1, <2>2, <3>2, <3>4, <3>5 DEF PictureInv, Source
  <2> QED BY <2>3, <2>4
<1>3. ASSUME NEW format \in Formats, Describe(format) PROVE PictureInv'
  BY <1>3 DEF Describe, PictureInv, bmpSize, byteCount, bytesPerLine, Source
<1>4. CASE UNCHANGED pictureVars
  BY <1>4 DEF pictureVars, PictureInv, bmpSize, byteCount, bytesPerLine, Source
<1> QED BY <1>2, <1>3, <1>4 DEF PictureNext

LEMMA PictureInvariant == PictureSpec => []PictureInv
<1>1. ASSUME PictureInit PROVE PictureInv
  <2>1. bmpSize \in Nat
    BY <1>1, BytesNat DEF PictureInit, bmpSize
  <2>2. Len(<<>>) = 0 /\ <<>> \in Seq(Nat) /\ 0 - 0 \div 4 = 0
    OBVIOUS
  <2> QED BY <1>1, <2>1, <2>2 DEF PictureInit, PictureInv
<1> QED BY <1>1, PictureNextInv, PTL DEF PictureSpec

\* The loop takes the right three bytes of every pixel, reads nothing behind the
\* picture and writes three quarters of what it has seen, for any picture.
THEOREM CopyIsOfPixels == PictureSpec => []PixelsInPlace
<1>1. ASSUME PictureInv PROVE PixelsInPlace
  <2>1. byteCount(img) \in Nat /\ bmpSize \in Nat /\ bmpSize <= byteCount(img)
    BY <1>1, BytesNat DEF PictureInv, bmpSize
  <2>2. ASSUME NEW k \in 1 .. Len(bmpdata)
        PROVE  bmpdata[k] = Source(k - 1) /\ bmpdata[k] < byteCount(img)
    <3>1. bmpdata[k] \in Nat
      BY <1>1, ElementOfSeq DEF PictureInv
    <3>2. bmpdata[k] = Source(k - 1) /\ bmpdata[k] < i /\ i \in 0 .. bmpSize
      BY <1>1 DEF PictureInv
    <3> QED BY <2>1, <3>1, <3>2
  <2> QED BY <1>1, <2>2 DEF PictureInv, PixelsInPlace
<1> QED BY <1>1, PictureInvariant, PTL

\* Products that the planes need, with one factor divided.
LEMMA HalfOfProduct ==
  ASSUME NEW a \in Nat, NEW h \in Nat
  PROVE  a * (h \div 2) \in Nat /\ a * h \in Nat /\ a * (h \div 2) <= (a * h) \div 2
<1> DEFINE q == h \div 2
<1>1. q \in Nat /\ (h = q + q \/ h = q + q + 1)
  OBVIOUS
<1>2. \A x, y, z \in Nat : x * (y + z) = x * y + x * z /\ x * y \in Nat
  OBVIOUS
<1>3. a * q \in Nat /\ a * h \in Nat /\ a * (q + q) = a * q + a * q
  BY <1>1, <1>2
<1>4. a * h = a * q + a * q \/ a * h = a * q + a * q + a
  <2>1. CASE h = q + q
    BY <1>3, <2>1
  <2>2. CASE h = (q + q) + 1
    <3>1. a * ((q + q) + 1) = a * (q + q) + a * 1 /\ a * 1 = a
      BY <1>1, <1>2
    <3> QED BY <1>3, <2>2, <3>1
  <2> QED BY <1>1, <2>1, <2>2
<1>5. \A p, m \in Nat : m = p + p \/ m = p + p + a => p <= m \div 2
  OBVIOUS
<1> QED BY <1>1, <1>3, <1>4, <1>5

LEMMA ProductGrows ==
  ASSUME NEW x \in Nat, NEW y \in Nat, NEW h \in Nat, x < y, h > 0
  PROVE  x * h \in Nat /\ y * h \in Nat /\ x * h < y * h
<1>1. PICK d \in Nat : y = x + d /\ d > 0
  <2>1. y - x \in Nat /\ y = x + (y - x) /\ y - x > 0
    OBVIOUS
  <2> QED BY <2>1
<1>2. (x + d) * h = x * h + d * h /\ x * h \in Nat /\ d * h \in Nat
  OBVIOUS
<1>3. d * h > 0
  BY <1>1
<1> QED BY <1>1, <1>2, <1>3

\* bmpSize is three bytes for each group of four bytes of all lines.
LEMMA SizeOfCopy ==
  ASSUME NEW m, m.width \in Nat, m.height \in Nat, m.depth \in Nat
  PROVE  LET line == (m.width * m.depth + 31) \div 32
         IN  /\ line \in Nat /\ bytesPerLine(m) = line * 4
             /\ byteCount(m) \div 4 = line * m.height /\ line * m.height \in Nat
<1> DEFINE line == (m.width * m.depth + 31) \div 32
<1>1. line \in Nat
  <2>1. \A w, d \in Nat : (w * d + 31) \div 32 \in Nat
    OBVIOUS
  <2> QED BY <2>1
<1>2. bytesPerLine(m) = line * 4
  BY DEF bytesPerLine
<1> HIDE DEF line
<1>3. \A a, b \in Nat : (a * 4) * b = (a * b) * 4 /\ a * b \in Nat
  OBVIOUS
<1>4. \A n \in Nat : (n * 4) \div 4 = n
  OBVIOUS
<1>5. byteCount(m) = (line * m.height) * 4 /\ line * m.height \in Nat
  BY <1>1, <1>2, <1>3 DEF byteCount
<1>6. byteCount(m) \div 4 = line * m.height
  BY <1>4, <1>5
<1> QED BY <1>1, <1>2, <1>5, <1>6 DEF line

\* The planes that getFaceInputImg describes never overlap, in any format and for
\* any width and height, and that of the format that is passed lies in the copy just
\* when a line has four bytes for each pixel.
THEOREM PlanesOfAnyPicture == PictureSpec => []PlanesFit
<1>1. ASSUME PictureInv PROVE PlanesFit
  <2> DEFINE w == img.width
             h == img.height
             planes == inputImg.planes
  <2>1. /\ w \in Nat /\ h \in Nat /\ w > 0 /\ h > 0 /\ img.depth \in Nat
    <3>1. img \in [depth : Depths, width : 1 .. MaxSide, height : 1 .. MaxSide]
      BY <1>1 DEF PictureInv
    <3>2. img.depth \in Nat
      BY <3>1 DEF Depths
    <3>3. img.width \in Nat /\ img.height \in Nat /\ img.width > 0 /\ img.height > 0
      BY <3>1, BytesNat
    <3> QED BY <3>2, <3>3
  <2>2. CASE inputImg = NotDescribed
    BY <2>2 DEF NotDescribed, PlanesFit
  <2>3. ASSUME NEW format \in Formats,
               inputImg = [format |-> format, planes |-> getFaceInputImg(w, h, format)]
        PROVE  PlanesFit
    <3> HIDE DEF w, h
    <3>1. w * h \in Nat /\ w \div 2 \in Nat /\ h \div 2 \in Nat
      BY <2>1
    <3>2. inputImg.format = format /\ planes = getFaceInputImg(w, h, format)
      BY <2>3
    <3>3. \A k \in 1 .. Len(planes) - 1 : PlaneEnd(planes[k]) <= planes[k + 1].at
      <4>1. CASE format = "I420"
        <5>1. /\ (w \div 2) * (h \div 2) \in Nat
              /\ (w \div 2) * (h \div 2) <= ((w \div 2) * h) \div 2
              /\ (w \div 2) * h \in Nat
          BY <2>1, <3>1, HalfOfProduct
        <5>2. planes = <<Plane(0, w, h), Plane(w * h, w \div 2, h \div 2),
                         Plane(w * h + ((w \div 2) * h) \div 2, w \div 2, h \div 2)>>
          BY <3>2, <4>1 DEF getFaceInputImg
        <5> HIDE DEF planes
        <5>3. Len(planes) = 3 /\ \A k \in 1 .. 2 : k = 1 \/ k = 2
          BY <5>2
        <5>4. PlaneEnd(planes[1]) <= planes[2].at
          BY <3>1, <5>2 DEF PlaneEnd, Plane
        <5>5. PlaneEnd(planes[2]) <= planes[3].at
          <6>1. PlaneEnd(planes[2]) = w * h + (w \div 2) * (h \div 2)
            BY <5>2 DEF PlaneEnd, Plane
          <6>2. planes[3].at = w * h + ((w \div 2) * h) \div 2
            BY <5>2 DEF Plane
          <6>3. \A x, y, z \in Nat : y <= z => x + y <= x + z
            OBVIOUS
          <6>4. ((w \div 2) * h) \div 2 \in Nat
            BY <5>1
          <6> QED BY <3>1, <5>1, <6>1, <6>2, <6>3, <6>4
        <5> QED BY <5>3, <5>4, <5>5
      <4>2. CASE format \in {"NV12", "NV21", "LPI422H"}
        <5>1. planes[1] = Plane(0, w, h) /\ planes[2].at = w * h /\ Len(planes) = 2
          BY <3>2, <4>2 DEF getFaceInputImg, Plane
        <5> HIDE DEF planes
        <5> QED BY <3>1, <5>1 DEF PlaneEnd, Plane
      <4>3. CASE format = "I422H"
        <5>1. planes = <<Plane(0, w, h), Plane(w * h, w \div 2, h),
                         Plane(w * h + (w \div 2) * h, w \div 2, h)>>
          BY <3>2, <4>3 DEF getFaceInputImg
        <5> HIDE DEF planes
        <5>2. (w \div 2) * h \in Nat
          BY <2>1, <3>1
        <5>3. Len(planes) = 3 /\ \A k \in 1 .. 2 : k = 1 \/ k = 2
          BY <5>1
        <5>4. PlaneEnd(planes[1]) <= planes[2].at
          BY <3>1, <5>1 DEF PlaneEnd, Plane
        <5>5. PlaneEnd(planes[2]) <= planes[3].at
          BY <3>1, <5>1, <5>2 DEF PlaneEnd, Plane
        <5> QED BY <5>3, <5>4, <5>5
      <4>4. CASE format \in {"YUYV", "RGB24_B8G8R8"}
        <5>1. Len(planes) = 1
          BY <3>2, <4>4 DEF getFaceInputImg
        <5> QED BY <5>1
      <4>5. CASE format = "unsupported"
        <5>1. Len(planes) = 0
          BY <3>2, <4>5 DEF getFaceInputImg
        <5> QED BY <5>1
      <4> QED BY <4>1, <4>2, <4>3, <4>4, <4>5 DEF Formats
    <3>4. ASSUME format = "RGB24_B8G8R8"
          PROVE  /\ PlaneEnd(planes[1]) <= bmpSize <=> bytesPerLine(img) >= 4 * w
                 /\ img.depth = 32 => PlaneEnd(planes[1]) = bmpSize
      <4> DEFINE line == (w * img.depth + 31) \div 32
      <4>1. PlaneEnd(planes[1]) = (w * h) * 3
        <5>1. PlaneEnd(planes[1]) = 0 + (w * 3) * h
          BY <3>2, <3>4 DEF getFaceInputImg, PlaneEnd, Plane
        <5>2. \A a, b \in Nat : 0 + (a * 3) * b = (a * b) * 3
          OBVIOUS
        <5> QED BY <2>1, <5>1, <5>2
      <4>2. bmpSize = (line * h) * 3 /\ line \in Nat /\ line * h \in Nat /\ bytesPerLine(img) = line * 4
        BY <2>1, SizeOfCopy DEF bmpSize, w, h
      <4>3. ASSUME img.depth = 32 PROVE line = w
        <5>1. \A a \in Nat : (a * 32 + 31) \div 32 = a
          OBVIOUS
        <5> QED BY <2>1, <4>3, <5>1
      <4> HIDE DEF line, planes
      <4>4. line < w => line * h < w * h
        BY <2>1, <4>2, ProductGrows
      <4>5. w < line => w * h < line * h
        BY <2>1, <4>2, ProductGrows
      <4>6. w * h <= line * h <=> w <= line
        <5>1. \A a, b \in Nat : a < b \/ a = b \/ b < a
          OBVIOUS
        <5>2. \A x, y \in Nat : x < y => ~(y <= x) /\ x <= y
          OBVIOUS
        <5>3. line < w \/ line = w \/ w < line
          BY <2>1, <4>2, <5>1
        <5> QED BY <2>1, <3>1, <4>2, <4>4, <4>5, <5>2, <5>3
      <4>7. \A a, b, x, y \in Nat : (x <= y <=> a <= b) => (x * 3 <= y * 3 <=> b * 4 >= 4 * a)
        OBVIOUS
      <4>8. PlaneEnd(planes[1]) <= bmpSize <=> bytesPerLine(img) >= 4 * w
        BY <2>1, <3>1, <4>1, <4>2, <4>6, <4>7
      <4>9. ASSUME img.depth = 32 PROVE PlaneEnd(planes[1]) = bmpSize
        BY <4>1, <4>2, <4>3, <4>9
      <4> QED BY <4>8, <4>9
    <3> QED BY <3>2, <3>3, <3>4 DEF PlanesFit, w
  <2> QED BY <1>1, <2>2, <2>3 DEF PictureInv
<1> QED BY <1>1, PictureInvariant, PTL

-----------------------------------------------------------------------------
(***************************************************************************)
(* LogText.  A line is flattened from its items; for the order of texts,   *)
(* SameUpTo and Ahead say what memcmp found.                               *)
(***************************************************************************)
\* What of the items of a line is in the buffer.
TakenItems(items, which) == [k \in 1 .. Len(items) |-> IF k \in which THEN items[k] ELSE <<>>]

LogInv ==
  /\ data_ \in Seq(Nat)
  /\ logged \in Seq(Seq(Nat))
  /\ taken \subseteq 1 .. Len(logged)
  /\ data_ = FlattenSeq(TakenItems(logged, taken))
  /\ Len(data_) < SIZE
  /\ piece \in [ptr : Nat, length : Nat]
  /\ piece.ptr + piece.length <= Len(data_)

LEMMA TakenSeq ==
  ASSUME NEW items \in Seq(Seq(Nat)), NEW which
  PROVE  LET t == TakenItems(items, which)
         IN  /\ t \in Seq(Seq(Nat)) /\ Len(t) = Len(items)
             /\ \A k \in 1 .. Len(items) : t[k] = IF k \in which THEN items[k] ELSE <<>>
<1> DEFINE t == TakenItems(items, which)
           n == Len(items)
<1>1. n \in Nat /\ <<>> \in Seq(Nat) /\ \A k \in 1 .. n : items[k] \in Seq(Nat)
  BY LenProperties, ElementOfSeq, EmptySeq
<1> HIDE DEF n
<1>2. t = [k \in 1 .. n |-> IF k \in which THEN items[k] ELSE <<>>]
  BY DEF TakenItems, n
<1> HIDE DEF t
<1>3. t \in [1 .. n -> Seq(Nat)]
  BY <1>1, <1>2
<1>4. t \in Seq(Seq(Nat)) /\ Len(t) = n
  BY <1>1, <1>3
<1> QED BY <1>2, <1>4 DEF t, n

LEMMA AppendedItem ==
  ASSUME NEW items \in Seq(Seq(Nat)), NEW which, which \subseteq 1 .. Len(items),
         NEW text \in Seq(Nat)
  PROVE  LET more == Append(items, text)
         IN  /\ FlattenSeq(TakenItems(more, which)) = FlattenSeq(TakenItems(items, which)) \o <<>>
             /\ FlattenSeq(TakenItems(more, which \cup {Len(items) + 1}))
                  = FlattenSeq(TakenItems(items, which)) \o text
<1> DEFINE n == Len(items)
           more == Append(items, text)
           old == TakenItems(items, which)
<1>1. /\ n \in Nat /\ more \in Seq(Seq(Nat)) /\ Len(more) = n + 1 /\ more[n + 1] = text
      /\ \A k \in 1 .. n : more[k] = items[k]
  BY AppendProperties, LenProperties
<1>2. <<>> \in Seq(Nat)
  BY EmptySeq
<1>3. /\ old \in Seq(Seq(Nat)) /\ Len(old) = n
      /\ \A k \in 1 .. n : old[k] = IF k \in which THEN items[k] ELSE <<>>
  BY TakenSeq
<1> HIDE DEF old, n, more
<1>4. ASSUME NEW set, NEW x \in Seq(Nat), \A k \in 1 .. n : k \in set <=> k \in which,
             x = IF n + 1 \in set THEN text ELSE <<>>
      PROVE  TakenItems(more, set) = Append(old, x)
  <2> DEFINE u == TakenItems(more, set)
             v == Append(old, x)
  <2>1. /\ u \in Seq(Seq(Nat)) /\ Len(u) = n + 1
        /\ \A k \in 1 .. n + 1 : u[k] = IF k \in set THEN more[k] ELSE <<>>
    <3>1. more \in Seq(Seq(Nat)) /\ Len(more) = n + 1
      BY <1>1
    <3>2. /\ u \in Seq(Seq(Nat)) /\ Len(u) = Len(more)
          /\ \A k \in 1 .. Len(more) : u[k] = IF k \in set THEN more[k] ELSE <<>>
      BY <3>1, TakenSeq, Zenon
    <3> QED BY <3>1, <3>2, Zenon
  <2>2. /\ v \in Seq(Seq(Nat)) /\ Len(v) = n + 1 /\ v[n + 1] = x
        /\ \A k \in 1 .. n : v[k] = old[k]
    <3>1. old \in Seq(Seq(Nat)) /\ Len(old) = n
      BY <1>3
    <3> QED BY <3>1, AppendProperties
  <2> HIDE DEF u, v
  <2>3. ASSUME NEW k \in 1 .. n + 1 PROVE u[k] = v[k]
    <3>1. CASE k \in 1 .. n
      BY <1>1, <1>3, <1>4, <2>1, <2>2, <3>1
    <3>2. CASE k = n + 1
      BY <1>1, <1>4, <2>1, <2>2, <3>2
    <3> QED BY <1>1, <3>1, <3>2
  <2>4. u = v
    BY <2>1, <2>2, <2>3, SeqEqual
  <2> QED BY <2>4 DEF u, v
<1>5. ~(n + 1 \in which) /\ \A k \in 1 .. n : k # n + 1
  BY <1>1 DEF n
<1>6. TakenItems(more, which) = Append(old, <<>>)
  BY <1>2, <1>4, <1>5
<1>7. TakenItems(more, which \cup {n + 1}) = Append(old, text)
  <2>1. \A k \in 1 .. n : k \in which \cup {n + 1} <=> k \in which
    BY <1>5
  <2>2. n + 1 \in which \cup {n + 1}
    OBVIOUS
  <2> QED BY <1>4, <2>1, <2>2
<1>8. /\ FlattenSeq(Append(old, <<>>)) = FlattenSeq(old) \o <<>>
      /\ FlattenSeq(Append(old, text)) = FlattenSeq(old) \o text
  BY <1>2, <1>3, FlattenAppend
<1> QED BY <1>6, <1>7, <1>8 DEF old, more, n

LEMMA LogNextInv == ASSUME LogInv, [LogNext]_logVars PROVE LogInv'
<1>1. /\ data_ \in Seq(Nat) /\ Len(data_) \in Nat /\ logged \in Seq(Seq(Nat))
      /\ Len(logged) \in Nat /\ SIZE \in Nat /\ piece \in [ptr : Nat, length : Nat]
      /\ piece.ptr \in Nat /\ piece.length \in Nat
      /\ taken \subseteq 1 .. Len(logged) /\ Len(data_) < SIZE
      /\ piece.ptr + piece.length <= Len(data_)
  BY LogAssumption, LenProperties DEF LogInv, LogAssumption
<1>2. ASSUME NEW v \in Values, appendText(Streamed(v)) PROVE LogInv'
  <2> DEFINE text == Streamed(v)
  <2>1. text \in Seq(Nat) /\ Len(text) \in Nat
    BY LogAssumption, LenProperties DEF LogAssumption, Items
  <2> HIDE DEF text
  <2>2. /\ logged' = Append(logged, text) /\ piece' = piece
        /\ IF Fits(text)
           THEN data_' = data_ \o text /\ taken' = taken \cup {Len(logged) + 1}
           ELSE UNCHANGED <<data_, taken>>
    BY <1>2 DEF appendText, text
  <2>3. /\ FlattenSeq(TakenItems(Append(logged, text), taken)) = data_ \o <<>>
        /\ FlattenSeq(TakenItems(Append(logged, text), taken \cup {Len(logged) + 1})) = data_ \o text
    BY <1>1, <2>1, AppendedItem DEF LogInv
  <2>4. /\ Append(logged, text) \in Seq(Seq(Nat))
        /\ Len(Append(logged, text)) = Len(logged) + 1
    BY <1>1, <2>1, AppendProperties
  <2>5. taken \subseteq 1 .. Len(logged) + 1 /\ taken \cup {Len(logged) + 1} \subseteq 1 .. Len(logged) + 1
    <3> DEFINE n == Len(logged)
    <3>1. n \in Nat /\ taken \subseteq 1 .. n
      BY <1>1
    <3> HIDE DEF n
    <3>2. n + 1 \in 1 .. n + 1 /\ \A k \in 1 .. n : k \in 1 .. n + 1
      BY <3>1
    <3>3. taken \subseteq 1 .. n + 1 /\ taken \cup {n + 1} \subseteq 1 .. n + 1
      BY <3>1, <3>2
    <3> QED BY <3>3 DEF n
  <2>6. CASE Fits(text)
    <3>1. data_ \o text \in Seq(Nat) /\ Len(data_ \o text) = Len(data_) + Len(text)
      BY <1>1, <2>1, ConcatProperties
    <3>2. Len(data_) + Len(text) < SIZE /\ piece.ptr + piece.length <= Len(data_) + Len(text)
      BY <1>1, <2>1, <2>6 DEF Fits, avail
    <3> QED BY <1>1, <2>2, <2>3, <2>4, <2>5, <2>6, <3>1, <3>2 DEF LogInv
  <2>7. CASE ~Fits(text)
    <3>1. data_ \o <<>> = data_
      BY <1>1, ConcatEmptySeq
    <3> QED BY <1>1, <2>2, <2>3, <2>4, <2>5, <2>7, <3>1 DEF LogInv
  <2> QED BY <2>6, <2>7
<1>3. CASE resetBuffer
  <2>1. TakenItems(<<>>, {}) = <<>> /\ FlattenSeq(<<>>) = <<>>
    BY DEF TakenItems, FlattenSeq
  <2>2. /\ <<>> \in Seq(Nat) /\ <<>> \in Seq(Seq(Nat)) /\ Len(<<>>) = 0 /\ 0 < SIZE
        /\ {} \subseteq 1 .. Len(<<>>)
    <3>1. SIZE \in Nat \ {0}
      BY LogAssumption DEF LogAssumption
    <3> QED BY <3>1, EmptySeq
  <2>3. StringPiece(0, 0) \in [ptr : Nat, length : Nat]
        /\ StringPiece(0, 0).ptr + StringPiece(0, 0).length <= 0
    BY DEF StringPiece
  <2> QED BY <1>3, <2>1, <2>2, <2>3 DEF resetBuffer, LogInv
<1>4. CASE LookAtAll
  <2>1. wholePiece \in [ptr : Nat, length : Nat]
        /\ wholePiece.ptr + wholePiece.length <= Len(data_)
    BY <1>1 DEF wholePiece, StringPiece
  <2> QED BY <1>4, <2>1 DEF LookAtAll, LogInv
<1>5. ASSUME NEW n \in 0 .. piece.length, remove_prefix(n) PROVE LogInv'
  <2>1. StringPiece(piece.ptr + n, piece.length - n) \in [ptr : Nat, length : Nat]
        /\ (piece.ptr + n) + (piece.length - n) <= Len(data_)
    BY <1>1 DEF StringPiece
  <2> QED BY <1>5, <2>1 DEF remove_prefix, LogInv, StringPiece
<1>6. ASSUME NEW n \in 0 .. piece.length, remove_suffix(n) PROVE LogInv'
  <2>1. piece' = [ptr |-> piece.ptr, length |-> piece.length - n]
    BY <1>1, <1>6 DEF remove_suffix
  <2>2. piece.length - n \in Nat /\ piece.ptr + (piece.length - n) <= Len(data_)
    BY <1>1
  <2> QED BY <1>1, <1>6, <2>1, <2>2 DEF remove_suffix, LogInv
<1>7. CASE UNCHANGED logVars
  BY <1>7 DEF logVars, LogInv
<1> QED BY <1>2, <1>3, <1>4, <1>5, <1>6, <1>7 DEF LogNext

LEMMA LogInvariant == LogSpec => []LogInv
<1>1. ASSUME LogInit PROVE LogInv
  <2>1. TakenItems(<<>>, {}) = <<>> /\ FlattenSeq(<<>>) = <<>>
    BY DEF TakenItems, FlattenSeq
  <2>2. /\ <<>> \in Seq(Nat) /\ <<>> \in Seq(Seq(Nat)) /\ Len(<<>>) = 0 /\ 0 < SIZE
        /\ {} \subseteq 1 .. Len(<<>>)
    <3>1. SIZE \in Nat \ {0}
      BY LogAssumption DEF LogAssumption
    <3> QED BY <3>1, EmptySeq
  <2> QED BY <1>1, <2>1, <2>2 DEF LogInit, LogInv, wholePiece, StringPiece
<1> QED BY <1>1, LogNextInv, PTL DEF LogSpec

\* Both constructors of SourceFile cut a path behind its last slash.
LEMMA NamesOfFiles ==
  ASSUME NEW path \in Seq(Nat)
  PROVE  LET name == Name(path, SourceFile(path))
         IN  /\ SourceFile(path) = SourceFileOfPointer(path)
             /\ Slash \notin Range(name)
             /\ IsSuffix(name, path)
<1> DEFINE at == strrchr(path, Slash)
           n == Len(path)
           rest == SubSeq(path, at + 1, n)
           At == {k \in DOMAIN path : path[k] = Slash}
<1>1. n \in Nat /\ DOMAIN path = 1 .. n
  BY LenProperties
<1>2. at \in 0 .. n /\ \A k \in 1 .. n : path[k] = Slash => k <= at
  <2>1. at = IF At = {} THEN 0 ELSE CHOOSE x \in At : \A y \in At : x >= y
    BY DEF strrchr, Max
  <2>2. CASE At = {}
    BY <1>1, <2>1, <2>2
  <2>3. CASE At # {}
    <3>1. At \subseteq 0 .. n /\ At \subseteq 1 .. n
      BY <1>1
    <3>2. \A k \in 1 .. n : path[k] = Slash => k \in At
      BY <1>1
    <3> HIDE DEF At, at, n
    <3>3. \E x \in At : \A y \in At : x >= y
      BY <1>1, <2>3, <3>1, LargestNumber
    <3>4. at \in At /\ \A y \in At : at >= y
      BY <2>1, <2>3, <3>3
    <3> QED BY <1>1, <3>1, <3>2, <3>4
  <2> QED BY <2>2, <2>3
<1> HIDE DEF at
<1>3. rest \in Seq(Nat) /\ Len(rest) = n - at /\ \A k \in 1 .. n - at : rest[k] = path[at + k]
  <2>1. at \in Nat /\ at <= n /\ n <= Len(path)
    BY <1>1, <1>2
  <2> HIDE DEF n
  <2> QED BY <1>1, <2>1, Cut
<1>4. SourceFile(path) = [data |-> at, size |-> n - at]
      /\ SourceFileOfPointer(path) = [data |-> at, size |-> n - at]
  BY <1>3 DEF SourceFile, SourceFileOfPointer, at
<1>5. Name(path, SourceFile(path)) = rest
  <2>1. at + (n - at) = n
    BY <1>1, <1>2
  <2>2. SourceFile(path).data = at /\ SourceFile(path).size = n - at
    BY <1>4
  <2> HIDE DEF n
  <2> QED BY <2>1, <2>2 DEF Name
<1> HIDE DEF rest, n
<1>6. Slash \notin Range(rest)
  <2>1. Range(rest) = {rest[k] : k \in 1 .. n - at}
    BY <1>3, LenProperties DEF Range
  <2>2. ASSUME NEW k \in 1 .. n - at PROVE rest[k] # Slash
    <3>1. at + k \in 1 .. n /\ ~(at + k <= at)
      BY <1>1, <1>2
    <3> QED BY <1>2, <1>3, <3>1
  <2> QED BY <2>1, <2>2
<1>7. IsSuffix(rest, path)
  <2> DEFINE x == Reverse(rest)
             y == Reverse(path)
             head == SubSeq(y, 1, n - at)
  <2>1. /\ x \in Seq(Nat) /\ Len(x) = n - at
        /\ \A k \in 1 .. n - at : x[k] = rest[(n - at - k) + 1]
    BY <1>3, SwappedIsReverse DEF Reverse
  <2>2. y \in Seq(Nat) /\ Len(y) = n /\ \A k \in 1 .. n : y[k] = path[(n - k) + 1]
    BY <1>1, SwappedIsReverse DEF Reverse, n
  <2> HIDE DEF x, y
  <2>3. head \in Seq(Nat) /\ Len(head) = n - at /\ \A k \in 1 .. n - at : head[k] = y[k]
    <3> DEFINE size_ == n - at
    <3>1. size_ \in Nat /\ size_ <= Len(y)
      BY <1>1, <1>2, <2>2
    <3> HIDE DEF size_
    <3>2. SubSeq(y, 1, size_) \in Seq(Nat) /\ Len(SubSeq(y, 1, size_)) = size_
          /\ \A k \in 1 .. size_ : SubSeq(y, 1, size_)[k] = y[k]
      BY <2>2, <3>1, CutFront
    <3> QED BY <3>2 DEF size_
  <2>4. \A k \in 1 .. n - at : /\ k \in 1 .. n /\ (n - at - k) + 1 \in 1 .. n - at
                               /\ at + ((n - at - k) + 1) = (n - k) + 1
    BY <1>1, <1>2
  <2> HIDE DEF head
  <2>5. ASSUME NEW k \in 1 .. n - at PROVE x[k] = head[k]
    <3>1. head[k] = path[(n - k) + 1]
      BY <2>2, <2>3, <2>4
    <3>2. x[k] = rest[(n - at - k) + 1]
      BY <2>1
    <3>3. rest[(n - at - k) + 1] = path[at + ((n - at - k) + 1)]
      BY <1>3, <2>4
    <3> QED BY <2>4, <3>1, <3>2, <3>3
  <2>6. x = head
    BY <2>1, <2>3, <2>5, SeqEqual
  <2>7. SubSeq(x, 1, Len(x)) = x
    BY <2>1, SubSeqFull
  <2>8. Len(x) <= Len(y) /\ SubSeq(y, 1, Len(x)) = head
    BY <1>1, <1>2, <2>1, <2>2 DEF head
  <2>9. IsPrefix(x, y)
    BY <2>6, <2>7, <2>8 DEF IsPrefix
  <2> QED BY <2>9 DEF IsSuffix, x, y
<1> QED BY <1>4, <1>5, <1>6, <1>7

\* A line of the log is the items that fitted, whole and in order, whatever was
\* dropped; a source file's name is what stands behind its last slash; and no piece
\* reaches beyond the line, for a buffer and texts of any sizes.
THEOREM LinesAreOfWholeItems == LogSpec => []LineOfWholeItems
<1>1. ASSUME LogInv PROVE LineOfWholeItems
  <2>1. ASSUME NEW v \in Values, v.type \in {"file", "file pointer"}
        PROVE  /\ Slash \notin Range(Streamed(v))
               /\ IsSuffix(Streamed(v), v.value)
               /\ SourceFile(v.value) = SourceFileOfPointer(v.value)
    <3>1. v.value \in Seq(Nat)
      BY <2>1, LogAssumption DEF LogAssumption
    <3>2. SourceFile(v.value) = SourceFileOfPointer(v.value)
      BY <3>1, NamesOfFiles
    <3>3. Streamed(v) = Name(v.value, SourceFile(v.value))
      BY <2>1, <3>2 DEF Streamed
    <3> QED BY <3>1, <3>2, <3>3, NamesOfFiles
  <2>2. piece.ptr >= 0 /\ piece.length >= 0
    BY <1>1 DEF LogInv
  <2> QED BY <1>1, <2>1, <2>2 DEF LogInv, LineOfWholeItems, TakenItems
<1> QED BY <1>1, LogInvariant, PTL

\* x and y have the same first n characters; x comes before y at place f.
SameUpTo(x, y, n) == \A k \in 1 .. n : x[k] = y[k]
Ahead(x, y, f) == SameUpTo(x, y, f - 1) /\ x[f] < y[f]

\* Never both, and never at two places.
LEMMA OnePlaceDecides ==
  ASSUME NEW x \in Seq(Nat), NEW y \in Seq(Nat), NEW n \in Nat, n <= Len(x), n <= Len(y)
  PROVE  /\ \A f, g \in 1 .. n : ~(Ahead(x, y, f) /\ Ahead(y, x, g))
         /\ \A f \in 1 .. n : Ahead(x, y, f) => ~SameUpTo(x, y, n)
<1>1. \A k \in 1 .. n : x[k] \in Nat /\ y[k] \in Nat
  <2>1. Len(x) \in Nat /\ Len(y) \in Nat
    BY LenProperties
  <2>2. \A k \in 1 .. n : k \in 1 .. Len(x) /\ k \in 1 .. Len(y)
    BY <2>1
  <2> QED BY <2>2, ElementOfSeq
<1>2. ASSUME NEW f \in 1 .. n, NEW g \in 1 .. n, Ahead(x, y, f), Ahead(y, x, g) PROVE FALSE
  <2>0. x[f] \in Nat /\ y[f] \in Nat /\ x[g] \in Nat /\ y[g] \in Nat
    BY <1>1
  <2>1. CASE f < g
    <3>1. f \in 1 .. g - 1
      BY <2>1
    <3>2. x[f] < y[f] /\ y[f] = x[f]
      BY <1>2, <3>1 DEF Ahead, SameUpTo
    <3> QED BY <2>0, <3>2
  <2>2. CASE g < f
    <3>1. g \in 1 .. f - 1
      BY <2>2
    <3>2. y[g] < x[g] /\ x[g] = y[g]
      BY <1>2, <3>1 DEF Ahead, SameUpTo
    <3> QED BY <2>0, <3>2
  <2>3. CASE f = g
    <3>1. x[f] < y[f] /\ y[f] < x[f]
      BY <1>2, <2>3 DEF Ahead
    <3> QED BY <2>0, <3>1
  <2> QED BY <2>1, <2>2, <2>3
<1>3. ASSUME NEW f \in 1 .. n, Ahead(x, y, f), SameUpTo(x, y, n) PROVE FALSE
  BY <1>1, <1>3 DEF Ahead, SameUpTo
<1> QED BY <1>2, <1>3

LEMMA MemcmpIs ==
  ASSUME NEW x \in Seq(Nat), NEW y \in Seq(Nat), NEW n \in Nat, n <= Len(x), n <= Len(y)
  PROVE  LET r == memcmp(x, y, n)
         IN  /\ r \in {-1, 0, 1}
             /\ r = 0 <=> SameUpTo(x, y, n)
             /\ r = -1 <=> \E f \in 1 .. n : Ahead(x, y, f)
             /\ r = 1 <=> \E f \in 1 .. n : Ahead(y, x, f)
<1> DEFINE Differ == {k \in 1 .. n : x[k] # y[k]}
           First == CHOOSE k \in Differ : \A j \in Differ : k <= j
           r == memcmp(x, y, n)
<1>1. \A k \in 1 .. n : x[k] \in Nat /\ y[k] \in Nat
  <2>1. Len(x) \in Nat /\ Len(y) \in Nat
    BY LenProperties
  <2>2. \A k \in 1 .. n : k \in 1 .. Len(x) /\ k \in 1 .. Len(y)
    BY <2>1
  <2> QED BY <2>2, ElementOfSeq
<1>2. r = IF Differ = {} THEN 0 ELSE IF x[First] < y[First] THEN -1 ELSE 1
  BY DEF memcmp
<1>3. /\ \A f, g \in 1 .. n : ~(Ahead(x, y, f) /\ Ahead(y, x, g))
      /\ \A f \in 1 .. n : Ahead(x, y, f) => ~SameUpTo(x, y, n)
      /\ \A f \in 1 .. n : Ahead(y, x, f) => ~SameUpTo(x, y, n)
  BY OnePlaceDecides DEF SameUpTo
<1> HIDE DEF r
<1> SUFFICES /\ r \in {-1, 0, 1}
             /\ r = 0 <=> SameUpTo(x, y, n)
             /\ r = -1 <=> \E f \in 1 .. n : Ahead(x, y, f)
             /\ r = 1 <=> \E f \in 1 .. n : Ahead(y, x, f)
  BY DEF r
<1>4. CASE Differ = {}
  <2>1. SameUpTo(x, y, n) /\ r = 0
    BY <1>2, <1>4 DEF SameUpTo
  <2> QED BY <1>3, <2>1
<1>5. CASE Differ # {}
  <2>1. First \in Differ /\ \A j \in Differ : First <= j
    <3>1. Differ \subseteq Nat
      OBVIOUS
    <3> HIDE DEF Differ
    <3> QED BY <1>5, <3>1, LeastNumber
  <2> DEFINE f == First
  <2> HIDE DEF First
  <2>2. f \in 1 .. n /\ x[f] # y[f] /\ x[f] \in Nat /\ y[f] \in Nat
    BY <1>1, <2>1
  <2>3. \A k \in 1 .. f - 1 : x[k] = y[k]
    <3>1. \A k \in 1 .. f - 1 : k \in 1 .. n /\ ~(f <= k)
      BY <2>2
    <3> QED BY <2>1, <3>1
  <2>4. ~SameUpTo(x, y, n)
    BY <2>2 DEF SameUpTo
  <2>5. CASE x[f] < y[f]
    <3>1. Ahead(x, y, f) /\ r = -1
      BY <1>2, <1>5, <2>3, <2>5 DEF Ahead, SameUpTo
    <3> QED BY <1>3, <2>2, <2>4, <3>1
  <2>6. CASE ~(x[f] < y[f])
    <3>1. y[f] < x[f]
      BY <2>2, <2>6
    <3>2. Ahead(y, x, f) /\ r = 1
      BY <1>2, <1>5, <2>3, <2>6, <3>1 DEF Ahead, SameUpTo
    <3> QED BY <1>3, <2>2, <2>4, <3>2
  <2> QED BY <2>5, <2>6
<1> QED BY <1>4, <1>5

\* The order of texts: x comes before y where they first differ, or is a prefix.
NotAfter(x, y) ==
  \/ \E f \in 1 .. Shorter(x, y) : Ahead(x, y, f)
  \/ Len(x) <= Len(y) /\ SameUpTo(x, y, Len(x))

LEMMA ShorterIs ==
  ASSUME NEW x \in Seq(Nat), NEW y \in Seq(Nat)
  PROVE  /\ Shorter(x, y) \in Nat /\ Shorter(x, y) <= Len(x) /\ Shorter(x, y) <= Len(y)
         /\ Shorter(x, y) = Shorter(y, x) /\ Len(x) \in Nat /\ Len(y) \in Nat
         /\ Len(x) <= Len(y) => Shorter(x, y) = Len(x)
         /\ \A f \in 1 .. Shorter(x, y) : f \in Nat /\ f >= 1 /\ f <= Len(x) /\ f <= Len(y)
<1>1. Len(x) \in Nat /\ Len(y) \in Nat
  BY LenProperties
<1>2. /\ Shorter(x, y) \in Nat /\ Shorter(x, y) <= Len(x) /\ Shorter(x, y) <= Len(y)
      /\ Shorter(x, y) = Shorter(y, x)
      /\ Len(x) <= Len(y) => Shorter(x, y) = Len(x)
  BY <1>1 DEF Shorter
<1>3. \A n, a, b \in Nat : n <= a /\ n <= b =>
        \A f \in 1 .. n : f \in Nat /\ f >= 1 /\ f <= a /\ f <= b
  OBVIOUS
<1> QED BY <1>1, <1>2, <1>3

LEMMA SameUpToLess ==
  ASSUME NEW x, NEW y, NEW n \in Nat, NEW m \in Int, m <= n, SameUpTo(x, y, n)
  PROVE  SameUpTo(x, y, m) /\ \A k \in Nat : k >= 1 /\ k <= n => x[k] = y[k]
BY DEF SameUpTo

LEMMA LessEqualIs ==
  ASSUME NEW x \in Seq(Nat), NEW y \in Seq(Nat)
  PROVE  LessEqual(x, y) <=> NotAfter(x, y)
<1> DEFINE r == memcmp(x, y, Shorter(x, y))
<1>1. /\ r \in {-1, 0, 1}
      /\ r = 0 <=> SameUpTo(x, y, Shorter(x, y))
      /\ r = -1 <=> \E f \in 1 .. Shorter(x, y) : Ahead(x, y, f)
  BY ShorterIs, MemcmpIs, SMTT(30)
<1> HIDE DEF r
<1>2. r < 0 <=> r = -1
  BY <1>1
<1>3. LessEqual(x, y) <=> r < 0 \/ (r = 0 /\ Len(x) <= Len(y))
  BY DEF LessEqual, r
<1>4. Len(x) <= Len(y) => Shorter(x, y) = Len(x)
  BY ShorterIs
<1> QED BY <1>1, <1>2, <1>3, <1>4 DEF NotAfter

LEMMA NotAfterTransitive ==
  ASSUME NEW x \in Seq(Nat), NEW y \in Seq(Nat), NEW z \in Seq(Nat),
         NotAfter(x, y), NotAfter(y, z)
  PROVE  NotAfter(x, z)
<1>1. /\ Len(x) \in Nat /\ Len(y) \in Nat /\ Len(z) \in Nat
      /\ \A f \in 1 .. Shorter(x, y) : f \in Nat /\ f >= 1 /\ f <= Len(x) /\ f <= Len(y)
      /\ \A f \in 1 .. Shorter(y, z) : f \in Nat /\ f >= 1 /\ f <= Len(y) /\ f <= Len(z)
  BY ShorterIs
<1>2. \A f \in Nat : f >= 1 /\ f <= Len(x) /\ f <= Len(z) => f \in 1 .. Shorter(x, z)
  BY <1>1 DEF Shorter
<1>3. /\ \A k \in Nat : k >= 1 /\ k <= Len(x) => x[k] \in Nat
      /\ \A k \in Nat : k >= 1 /\ k <= Len(y) => y[k] \in Nat
      /\ \A k \in Nat : k >= 1 /\ k <= Len(z) => z[k] \in Nat
  <2>1. \A n \in Nat : \A k \in Nat : k >= 1 /\ k <= n => k \in 1 .. n
    OBVIOUS
  <2> QED BY <1>1, <2>1, ElementOfSeq
<1>4. ASSUME NEW f \in Nat, f >= 1, f <= Len(x), f <= Len(y), f <= Len(z),
             SameUpTo(x, y, f - 1), SameUpTo(y, z, f - 1),
             x[f] <= y[f], y[f] <= z[f], x[f] # y[f] \/ y[f] # z[f]
      PROVE  NotAfter(x, z)
  <2>1. x[f] \in Nat /\ y[f] \in Nat /\ z[f] \in Nat
    BY <1>3, <1>4
  <2>2. x[f] < z[f]
    <3>1. \A a, b, c \in Nat : a <= b /\ b <= c /\ (a # b \/ b # c) => a < c
      OBVIOUS
    <3>2. x[f] <= y[f] /\ y[f] <= z[f] /\ (x[f] # y[f] \/ y[f] # z[f])
      BY <1>4
    <3> QED BY <2>1, <3>1, <3>2
  <2>3. Ahead(x, z, f)
    BY <1>4, <2>2 DEF Ahead, SameUpTo
  <2>4. f \in 1 .. Shorter(x, z)
    BY <1>2, <1>4
  <2> QED BY <2>3, <2>4 DEF NotAfter
<1>5. ASSUME NEW f \in 1 .. Shorter(x, y), Ahead(x, y, f),
             NEW g \in 1 .. Shorter(y, z), Ahead(y, z, g)
      PROVE  NotAfter(x, z)
  <2>1. f \in Nat /\ f >= 1 /\ f <= Len(x) /\ f <= Len(y)
    BY <1>1
  <2>2. g \in Nat /\ g >= 1 /\ g <= Len(y) /\ g <= Len(z)
    BY <1>1
  <2>3. /\ SameUpTo(x, y, f - 1) /\ SameUpTo(y, z, g - 1)
        /\ x[f] < y[f] /\ y[g] < z[g]
    BY <1>5 DEF Ahead
  <2>4. /\ x[f] \in Nat /\ y[f] \in Nat /\ y[g] \in Nat /\ z[g] \in Nat
    BY <1>3, <2>1, <2>2
  <2>5. CASE f < g
    <3>1. g - 1 \in Nat /\ f - 1 \in Int /\ f - 1 <= g - 1 /\ f <= g - 1 /\ f <= Len(z)
      BY <1>1, <2>1, <2>2, <2>5
    <3>2. SameUpTo(y, z, f - 1) /\ y[f] = z[f]
      BY <2>1, <2>3, <3>1, SameUpToLess
    <3>3. x[f] <= y[f] /\ y[f] <= z[f] /\ x[f] # y[f]
      <4>1. \A a, b \in Nat : a < b => a <= b /\ b <= b /\ a # b
        OBVIOUS
      <4>2. x[f] <= y[f] /\ y[f] <= y[f] /\ x[f] # y[f]
        BY <2>3, <2>4, <4>1
      <4> QED BY <3>2, <4>2
    <3> QED BY <1>4, <2>1, <2>3, <3>1, <3>2, <3>3
  <2>6. CASE g < f
    <3>1. f - 1 \in Nat /\ g - 1 \in Int /\ g - 1 <= f - 1 /\ g <= f - 1 /\ g <= Len(x)
      BY <1>1, <2>1, <2>2, <2>6
    <3>2. SameUpTo(x, y, g - 1) /\ x[g] = y[g]
      BY <2>2, <2>3, <3>1, SameUpToLess
    <3>3. x[g] <= y[g] /\ y[g] <= z[g] /\ y[g] # z[g]
      <4>1. \A a, b \in Nat : a < b => a <= a /\ a <= b /\ a # b
        OBVIOUS
      <4>2. y[g] <= y[g] /\ y[g] <= z[g] /\ y[g] # z[g]
        BY <2>3, <2>4, <4>1
      <4> QED BY <3>2, <4>2
    <3> QED BY <1>4, <2>2, <2>3, <3>1, <3>2, <3>3
  <2>7. CASE f = g
    <3>1. x[f] <= y[f] /\ y[f] <= z[f] /\ x[f] # y[f]
      <4>1. \A a, b, c \in Nat : a < b /\ b < c => a <= b /\ b <= c /\ a # b
        OBVIOUS
      <4>2. x[f] < y[f] /\ y[f] < z[f] /\ z[f] \in Nat
        BY <2>3, <2>4, <2>7
      <4> QED BY <2>4, <4>1, <4>2
    <3> QED BY <1>4, <2>1, <2>2, <2>3, <2>7, <3>1
  <2> QED BY <2>1, <2>2, <2>5, <2>6, <2>7
<1>6. ASSUME NEW f \in 1 .. Shorter(x, y), Ahead(x, y, f),
             Len(y) <= Len(z), SameUpTo(y, z, Len(y))
      PROVE  NotAfter(x, z)
  <2>1. f \in Nat /\ f >= 1 /\ f <= Len(x) /\ f <= Len(y)
    BY <1>1
  <2>2. f <= Len(z) /\ f - 1 <= Len(y) /\ f - 1 \in Int
    BY <1>1, <1>6, <2>1
  <2>3. SameUpTo(x, y, f - 1) /\ x[f] < y[f]
    BY <1>6 DEF Ahead
  <2>4. SameUpTo(y, z, f - 1) /\ y[f] = z[f]
    BY <1>1, <1>6, <2>1, <2>2, SameUpToLess
  <2>5. x[f] <= y[f] /\ y[f] <= z[f] /\ x[f] # y[f]
    <3>1. x[f] \in Nat /\ y[f] \in Nat
      BY <1>3, <2>1
    <3> QED BY <2>3, <2>4, <3>1
  <2> QED BY <1>4, <2>1, <2>2, <2>3, <2>4, <2>5
<1>7. ASSUME Len(x) <= Len(y), SameUpTo(x, y, Len(x)),
             NEW f \in 1 .. Shorter(y, z), Ahead(y, z, f)
      PROVE  NotAfter(x, z)
  <2>1. f \in Nat /\ f >= 1 /\ f <= Len(y) /\ f <= Len(z)
    BY <1>1
  <2>2. SameUpTo(y, z, f - 1) /\ y[f] < z[f]
    BY <1>7 DEF Ahead
  <2>3. CASE f <= Len(x)
    <3>1. f - 1 <= Len(x) /\ f - 1 \in Int
      BY <1>1, <2>1, <2>3
    <3>2. SameUpTo(x, y, f - 1) /\ x[f] = y[f]
      BY <1>1, <1>7, <2>1, <2>3, <3>1, SameUpToLess
    <3>3. x[f] <= y[f] /\ y[f] <= z[f] /\ y[f] # z[f]
      <4>1. y[f] \in Nat /\ z[f] \in Nat
        BY <1>3, <2>1
      <4> QED BY <2>2, <3>2, <4>1
    <3> QED BY <1>4, <2>1, <2>2, <2>3, <3>2, <3>3
  <2>4. CASE Len(x) < f
    <3>1. Len(x) <= Len(z) /\ Len(x) <= f - 1 /\ f - 1 \in Nat
      BY <1>1, <2>1, <2>4
    <3>2. SameUpTo(y, z, Len(x))
      BY <1>1, <2>2, <3>1, SameUpToLess
    <3>3. SameUpTo(x, z, Len(x))
      BY <1>7, <3>2 DEF SameUpTo
    <3> QED BY <3>1, <3>3 DEF NotAfter
  <2> QED BY <1>1, <2>1, <2>3, <2>4
<1>8. ASSUME Len(x) <= Len(y), SameUpTo(x, y, Len(x)), Len(y) <= Len(z), SameUpTo(y, z, Len(y))
      PROVE  NotAfter(x, z)
  <2>1. Len(x) <= Len(z)
    BY <1>1, <1>8
  <2>2. SameUpTo(y, z, Len(x))
    BY <1>1, <1>8, SameUpToLess
  <2>3. SameUpTo(x, z, Len(x))
    BY <1>8, <2>2 DEF SameUpTo
  <2> QED BY <2>1, <2>3 DEF NotAfter
<1> QED BY <1>5, <1>6, <1>7, <1>8 DEF NotAfter

\* What OneOrder says of one pair of texts.
LEMMA OrderOfTwo ==
  ASSUME NEW x \in Seq(Nat), NEW y \in Seq(Nat)
  PROVE  /\ compare(x, y) = -compare(y, x)
         /\ compare(x, y) = 0 <=> Equals(x, y)
         /\ Equals(x, y) <=> x = y
         /\ Less(x, y) <=> compare(x, y) < 0
         /\ LessEqual(x, y) <=> compare(x, y) <= 0
         /\ starts_with(x, y) <=> IsPrefix(y, x)
         /\ starts_with(x, y) => LessEqual(y, x)
<1> DEFINE m == Shorter(x, y)
           r == memcmp(x, y, m)
           q == memcmp(y, x, m)
<1>1. m \in Nat /\ m <= Len(x) /\ m <= Len(y) /\ m = Shorter(y, x)
      /\ Len(x) \in Nat /\ Len(y) \in Nat /\ (Len(x) <= Len(y) => m = Len(x))
      /\ (Len(y) <= Len(x) => m = Len(y))
  BY ShorterIs
<1> HIDE DEF m
<1>2. /\ r \in {-1, 0, 1} /\ q \in {-1, 0, 1}
      /\ r = 0 <=> SameUpTo(x, y, m)
      /\ q = 0 <=> SameUpTo(x, y, m)
      /\ r = -1 <=> q = 1
      /\ r = 1 <=> q = -1
  <2>1. SameUpTo(y, x, m) <=> SameUpTo(x, y, m)
    BY DEF SameUpTo
  <2>2. /\ r \in {-1, 0, 1}
        /\ r = 0 <=> SameUpTo(x, y, m)
        /\ r = -1 <=> \E f \in 1 .. m : Ahead(x, y, f)
        /\ r = 1 <=> \E f \in 1 .. m : Ahead(y, x, f)
    BY <1>1, MemcmpIs
  <2>3. /\ q \in {-1, 0, 1}
        /\ q = 0 <=> SameUpTo(y, x, m)
        /\ q = -1 <=> \E f \in 1 .. m : Ahead(y, x, f)
        /\ q = 1 <=> \E f \in 1 .. m : Ahead(x, y, f)
    BY <1>1, MemcmpIs
  <2> QED BY <2>1, <2>2, <2>3
<1>3. /\ compare(x, y) = IF r # 0 THEN r
                         ELSE IF Len(x) < Len(y) THEN -1 ELSE IF Len(x) > Len(y) THEN 1 ELSE 0
      /\ compare(y, x) = IF q # 0 THEN q
                         ELSE IF Len(y) < Len(x) THEN -1 ELSE IF Len(y) > Len(x) THEN 1 ELSE 0
      /\ Less(x, y) <=> r < 0 \/ (r = 0 /\ Len(x) < Len(y))
      /\ LessEqual(x, y) <=> r < 0 \/ (r = 0 /\ Len(x) <= Len(y))
  BY <1>1 DEF compare, Less, LessEqual, m
<1>4. Equals(x, y) <=> Len(x) = Len(y) /\ r = 0
  <2>1. Len(x) = Len(y) => m = Len(x)
    BY <1>1
  <2> QED BY <2>1 DEF Equals
<1>5. starts_with(x, y) <=> Len(y) <= Len(x) /\ SameUpTo(x, y, Len(y))
  <2>1. Len(x) >= Len(y) => (memcmp(x, y, Len(y)) = 0 <=> SameUpTo(x, y, Len(y)))
    <3>1. Len(x) >= Len(y) => Len(y) <= Len(x) /\ Len(y) <= Len(y)
      BY <1>1
    <3> QED BY <1>1, <3>1, MemcmpIs
  <2>2. Len(x) >= Len(y) <=> Len(y) <= Len(x)
    BY <1>1
  <2> QED BY <2>1, <2>2 DEF starts_with
<1>6. Len(y) <= Len(x) => m = Len(y)
  BY <1>1
<1> HIDE DEF r, q
<1>7. compare(x, y) = -compare(y, x)
  BY <1>1, <1>2, <1>3
<1>8. /\ compare(x, y) = 0 <=> Equals(x, y)
      /\ Less(x, y) <=> compare(x, y) < 0
      /\ LessEqual(x, y) <=> compare(x, y) <= 0
  BY <1>1, <1>2, <1>3, <1>4
<1>9. Equals(x, y) <=> x = y
  <2>1. ASSUME Equals(x, y) PROVE x = y
    <3>1. Len(x) = Len(y) /\ m = Len(x) /\ SameUpTo(x, y, m)
      BY <1>1, <1>2, <1>4, <2>1
    <3>2. \A k \in 1 .. Len(x) : x[k] = y[k]
      BY <3>1 DEF SameUpTo
    <3> QED BY <3>1, <3>2, SeqEqual
  <2>2. x = y => SameUpTo(x, y, m) /\ Len(x) = Len(y)
    BY DEF SameUpTo
  <2> QED BY <1>2, <1>4, <2>1, <2>2
<1>10. starts_with(x, y) <=> IsPrefix(y, x)
  <2>1. ASSUME Len(y) <= Len(x)
        PROVE  SubSeq(y, 1, Len(y)) = SubSeq(x, 1, Len(y)) <=> SameUpTo(x, y, Len(y))
    <3> DEFINE n == Len(y)
               head == SubSeq(x, 1, n)
    <3>1. n \in Nat /\ n <= Len(x) /\ Len(y) = n
      BY <1>1, <2>1
    <3>2. SubSeq(y, 1, n) = y
      BY SubSeqFull
    <3> HIDE DEF n
    <3>3. head \in Seq(Nat) /\ Len(head) = n /\ \A k \in 1 .. n : head[k] = x[k]
      BY <3>1, CutFront
    <3> HIDE DEF head
    <3>4. SameUpTo(x, y, n) => y = head
      <4>1. SameUpTo(x, y, n) => \A k \in 1 .. n : y[k] = head[k]
        BY <3>3 DEF SameUpTo
      <4> QED BY <3>1, <3>3, <4>1, SeqEqual
    <3>5. y = head => SameUpTo(x, y, n)
      BY <3>3 DEF SameUpTo
    <3> QED BY <3>2, <3>4, <3>5 DEF n, head
  <2> QED BY <1>5, <2>1 DEF IsPrefix
<1>11. ASSUME starts_with(x, y) PROVE LessEqual(y, x)
  <2>1. Len(y) <= Len(x) /\ m = Len(y) /\ SameUpTo(x, y, m)
    BY <1>1, <1>5, <1>11
  <2>2. q = 0
    BY <1>2, <2>1
  <2> QED BY <1>1, <2>1, <2>2 DEF LessEqual, m, q
<1> QED BY <1>7, <1>8, <1>9, <1>10, <1>11

\* StringPiece's comparisons agree and make one total order, for any texts.
THEOREM PiecesAreOrdered == LogSpec => []OneOrder
<1>1. ASSUME LogInv PROVE OneOrder
  <2> DEFINE x == as_string(piece)
  <2>1. x \in Seq(Nat)
    <3> DEFINE from == piece.ptr
               to == piece.ptr + piece.length
    <3>1. data_ \in Seq(Nat) /\ from \in Nat /\ to \in Nat /\ from <= to /\ to <= Len(data_)
      BY <1>1 DEF LogInv
    <3> HIDE DEF from, to
    <3>2. SubSeq(data_, from + 1, to) \in Seq(Nat)
      BY <3>1, Cut
    <3> QED BY <3>2 DEF as_string, from, to
  <2>2. \A y \in Items : y \in Seq(Nat)
    BY LogAssumption DEF LogAssumption
  <2> HIDE DEF x
  <2>3. ASSUME NEW y \in Items, NEW z \in Items, LessEqual(y, x), LessEqual(x, z)
        PROVE  LessEqual(y, z)
    <3>1. NotAfter(y, x) /\ NotAfter(x, z)
      BY <2>1, <2>2, <2>3, LessEqualIs
    <3>2. NotAfter(y, z)
      BY <2>1, <2>2, <3>1, NotAfterTransitive
    <3> QED BY <2>2, <3>2, LessEqualIs
  <2>4. \A y \in Items :
          /\ compare(x, y) = -compare(y, x)
          /\ compare(x, y) = 0 <=> Equals(x, y)
          /\ Equals(x, y) <=> x = y
          /\ Less(x, y) <=> compare(x, y) < 0
          /\ LessEqual(x, y) <=> compare(x, y) <= 0
          /\ starts_with(x, y) <=> IsPrefix(y, x)
          /\ starts_with(x, y) => LessEqual(y, x)
    BY <2>1, <2>2, OrderOfTwo
  <2> QED BY <2>3, <2>4 DEF OneOrder, x
<1> QED BY <1>1, LogInvariant, PTL
=============================================================================
