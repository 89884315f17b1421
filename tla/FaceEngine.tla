----------------------------- MODULE FaceEngine -----------------------------
(***************************************************************************)
(* The life of the ARCFaceEngine objects (arcfaceengine.cpp) as            *)
(* ARCFaceEngines starts and stops them.  An engine has two halves, face   *)
(* detection (FD) and face recognition (FR): each a handle of the SDK and  *)
(* a work buffer.                                                          *)
(***************************************************************************)
EXTENDS Integers

CONSTANTS
  Pool,        \* the engines
  MaxStarts    \* bound on the calls of startEngines

VARIABLES
  engines,   \* per engine: its halves
  onStack,   \* per engine: how often its index is on Enginespoll
  last       \* the last call and what it returned

engineVars == <<engines, onStack, last>>

\* Of a half: whether it has a handle, its buffer pointer ("dangling" after the
\* buffer it points at was freed), and how many blocks were allocated and not freed.
NewHalf == [handle |-> FALSE, buffer |-> "null", blocks |-> 0]

NewEngine == [FD |-> NewHalf, FR |-> NewHalf]

-----------------------------------------------------------------------------
\* malloc, and free on a path that keeps the pointer.
Allocated(half) == [handle |-> half.handle, buffer |-> "live", blocks |-> half.blocks + 1]
Freed(half) == [handle |-> half.handle, buffer |-> "dangling", blocks |-> half.blocks - 1]

\* What happens to a half that is started: there is no memory, the SDK refuses
\* (and gives no handle), or all is well.
Fates == {"no memory", "refused", "well"}

Started(half, fate) ==
  IF fate = "no memory" THEN half
  ELSE IF fate = "refused" THEN Freed(Allocated(half))
  ELSE [Allocated(half) EXCEPT !.handle = TRUE]

\* The check at the beginning of InitEngine; the mutant's looks at the handles only.
MayRunByHandles(e) == e.FD.handle \/ e.FR.handle

MayRun(e) == e.FD.handle \/ e.FR.handle \/ e.FD.buffer # "null" \/ e.FR.buffer # "null"

\* FR is started after FD, and FD is not stopped if FR fails.
InitEngine(e, fate) ==
  IF MayRun(e) THEN [engine |-> e, ret |-> -1]
  ELSE IF fate.FD # "well" THEN [engine |-> [e EXCEPT !.FD = Started(@, fate.FD)], ret |-> -1]
  ELSE [engine |-> [FD |-> Started(e.FD, fate.FD), FR |-> Started(e.FR, fate.FR)],
        ret |-> IF fate.FR = "well" THEN 0 ELSE -1]

\* The SDK refuses to stop a half without a handle, and any half if it likes to;
\* the half stays then as it is.  The mutant frees the buffer before it asks.
StoppedFirst(half, willing) ==
  [half EXCEPT !.handle = @ /\ ~willing,
               !.buffer = "null",
               !.blocks = IF half.buffer = "null" THEN @ ELSE @ - 1]

Stopped(half, willing) ==
  IF half.handle /\ willing
  THEN [handle |-> FALSE, buffer |-> "null", blocks |-> half.blocks - 1]
  ELSE half

UninitialEngine(e, willing) ==
  [engine |-> [FD |-> Stopped(e.FD, willing.FD), FR |-> Stopped(e.FR, willing.FR)],
   ret |-> IF e.FD.handle /\ e.FR.handle /\ willing.FD /\ willing.FR THEN 0 ELSE -1]

-----------------------------------------------------------------------------
EngineInit ==
  /\ engines = [i \in Pool |-> NewEngine]
  /\ onStack = [i \in Pool |-> 0]
  /\ last = [call |-> "none", ret |-> 0]

\* The results of all engines, or-ed.
Result(results) == IF \A i \in Pool : results[i].ret = 0 THEN 0 ELSE -1

\* Each index is pushed, whatever became of its engine; stopEngines leaves the stack.
startEngines ==
  /\ \A i \in Pool : onStack[i] < MaxStarts
  /\ onStack' = [i \in Pool |-> onStack[i] + 1]
  /\ \E fate \in [Pool -> [FD : Fates, FR : Fates]] :
       LET results == [i \in Pool |-> InitEngine(engines[i], fate[i])]
       IN  /\ engines' = [i \in Pool |-> results[i].engine]
           /\ last' = [call |-> "startEngines", ret |-> Result(results)]

stopEngines ==
  /\ UNCHANGED onStack
  /\ \E willing \in [Pool -> [FD : BOOLEAN, FR : BOOLEAN]] :
       LET results == [i \in Pool |-> UninitialEngine(engines[i], willing[i])]
       IN  /\ engines' = [i \in Pool |-> results[i].engine]
           /\ last' = [call |-> "stopEngines", ret |-> Result(results)]

EngineNext == startEngines \/ stopEngines

EngineSpec == EngineInit /\ [][EngineNext]_engineVars

-----------------------------------------------------------------------------
Halves == {engines[i].FD : i \in Pool} \cup {engines[i].FR : i \in Pool}

\* However often engines are started and stopped, and whatever fails in between,
\* a started half has its buffer, and no buffer is leaked or freed twice.  A result
\* of 0 is true: all engines run, or every one is as it was made and can be started
\* again.
BuffersRight ==
  /\ \A half \in Halves :
       /\ half.handle <=> half.buffer = "live"
       /\ half.blocks = IF half.buffer = "live" THEN 1 ELSE 0
  /\ last = [call |-> "startEngines", ret |-> 0]
       => \A half \in Halves : half.handle
  /\ last = [call |-> "stopEngines", ret |-> 0]
       => \A i \in Pool : engines[i] = NewEngine

\* An engine that the SDK once refused to start, in either half, never runs
\* again: the dangling pointer it keeps makes InitEngine think it may be running.
\* Yet its index is on the stack, and requests are given that engine like any other.
Refused(i) == engines[i].FD.buffer = "dangling" \/ engines[i].FR.buffer = "dangling"

Runs(i) == engines[i].FD.handle /\ engines[i].FR.handle

OutForGood(i) == [](Refused(i) => [](~Runs(i) /\ onStack[i] # 0))

RefusedForGood == \A i \in Pool : OutForGood(i)
=============================================================================
