------------------------------ MODULE MCParts ------------------------------
(***************************************************************************)
(* The parts that one thread uses at a time, in one instance: a Buffer,    *)
(* the engines that are started and stopped, a picture on its way to the   *)
(* SDK, a connection's HTTP requests and a logger's line.  They have       *)
(* nothing to do with each other, so that each behaviour is about one of   *)
(* them and the others stay as they are.                                   *)
(***************************************************************************)
EXTENDS BufferQueue, FaceEngine, Picture, HttpSession, LogText

VARIABLE part

allVars == <<part, bufferVars, engineVars, pictureVars, httpVars, logVars>>

\* Bytes to append, the two of an end of line (8, 9) among them.
SomeData == {<<>>, <<1>>, <<8, 9>>, <<1, 8>>}
SomeEnds == {<<9>>, <<8, 9>>}

Lines == [field : {"Host"}, text : {<<" ", "h", " ", "x", " ">>, <<"y">>}]
           \cup [field : {"Empty"}, text : {<<" ">>}]

SomeRequests ==
  [method : {"GET", "PUT", "BREW"}, version : {"kHttp10", "kHttp11"}, path : {"/"},
   query : {"", "?q"}, lines : SeqOf(Lines, 2)]

SomeValues ==
  {[type |-> "bool", value |-> FALSE], [type |-> "char", value |-> 3],
   [type |-> "null pointer", value |-> 0], [type |-> "text", value |-> <<3, 4>>],
   [type |-> "text", value |-> <<3, 4, 3>>],
   [type |-> "file", value |-> <<5, 3, 5, 4>>], [type |-> "file pointer", value |-> <<4>>]}

NullText == <<6, 7>>

MCInit ==
  /\ part \in {"buffer", "engines", "picture", "http", "log"}
  /\ BufferInit
  /\ EngineInit
  /\ PictureInit
  /\ part # "picture" => img = [depth |-> 32, width |-> 1, height |-> 1]
  /\ HttpInit
  /\ part # "http" => coming = CHOOSE r \in Requests : TRUE
  /\ LogInit

\* A picture that is described is done with.
Rest ==
  /\ part = "picture"
  /\ inputImg # NotDescribed
  /\ UNCHANGED <<bufferVars, engineVars, pictureVars, httpVars, logVars>>

MCNext ==
  /\ UNCHANGED part
  /\ \/ part = "buffer" /\ BufferNext /\ UNCHANGED <<engineVars, pictureVars, httpVars, logVars>>
     \/ part = "engines" /\ EngineNext /\ UNCHANGED <<bufferVars, pictureVars, httpVars, logVars>>
     \/ part = "picture" /\ PictureNext /\ UNCHANGED <<bufferVars, engineVars, httpVars, logVars>>
     \/ part = "http" /\ HttpNext /\ UNCHANGED <<bufferVars, engineVars, pictureVars, logVars>>
     \/ part = "log" /\ LogNext /\ UNCHANGED <<bufferVars, engineVars, pictureVars, httpVars>>
     \/ Rest

MCSpec == MCInit /\ [][MCNext]_allVars
=============================================================================
