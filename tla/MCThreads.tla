----------------------------- MODULE MCThreads -----------------------------
(***************************************************************************)
(* What muduo gives to threads, in one instance: the queues in a pipeline, *)
(* onConnection, the objects of a process and of its threads, and weak     *)
(* callbacks.  They have nothing to do with each other, so that each       *)
(* behaviour is about one of them and the others stay as they are.         *)
(***************************************************************************)
EXTENDS Pipeline, Connections, LocalObjects, WeakCallback

VARIABLE part

allVars == <<part, pipeVars, connVars, objectVars, weakVars>>

MCInit ==
  /\ part \in {"pipeline", "connections", "singleton", "locals", "weak"}
  /\ PipeInit
  /\ ConnInit
  /\ ObjectsInit
  /\ WeakInit
  /\ part # "singleton" => no_destroy

\* When all items are through, all connections have come and gone, or all threads
\* are over, there is nothing left to do.
Rest ==
  /\ \/ /\ part = "pipeline" /\ counter = MaxItems
        /\ inQueue = <<>> /\ outQueue = <<>> /\ \A t \in Threads : carried[t] = 0
     \/ part = "connections" /\ \A c \in Conns : told[c] = "down"
     \/ part = "locals" /\ \A t \in Users : ending[t] = "over"
  /\ UNCHANGED <<pipeVars, connVars, objectVars, weakVars>>

MCNext ==
  /\ UNCHANGED part
  /\ \/ part = "pipeline" /\ PipeNext /\ UNCHANGED <<connVars, objectVars, weakVars>>
     \/ part = "connections" /\ ConnNext /\ UNCHANGED <<pipeVars, objectVars, weakVars>>
     \/ part = "singleton" /\ OnceNext /\ UNCHANGED <<pipeVars, connVars, weakVars>>
     \/ part = "locals" /\ LocalNext /\ UNCHANGED <<pipeVars, connVars, weakVars>>
     \/ part = "weak" /\ WeakNext /\ UNCHANGED <<pipeVars, connVars, objectVars>>
     \/ Rest

MCSpec == MCInit /\ [][MCNext]_allVars /\ (part = "pipeline" => PipeFairness)
=============================================================================
