------------------------------ MODULE Pipeline ------------------------------
(***************************************************************************)
(* Threads that use muduo's queues together: producers number their items  *)
(* with an AtomicInteger (Atomic.h) and put them in a BlockingQueue,       *)
(* relays take them from there and put them in a BoundedBlockingQueue, and *)
(* consumers take them from that one.                                      *)
(***************************************************************************)
EXTENDS Naturals, Sequences, FiniteSets, SequencesExt, Mutex

CONSTANTS
  Producers, Relays, Consumers,  \* threads
  Capacity,                      \* of the bounded queue
  MaxItems,                      \* bound on the items of a run
  MaxSpurious                    \* bound on its spurious wakeups

Threads == Producers \cup Relays \cup Consumers

ASSUME PipelineAssumption ==
  /\ IsFiniteSet(Threads)
  /\ NoThread \notin Threads
  /\ Producers \cap Relays = {} /\ Producers \cap Consumers = {} /\ Relays \cap Consumers = {}
  /\ Capacity \in Nat \ {0} /\ MaxItems \in Nat /\ MaxSpurious \in Nat

VARIABLES
  counter,      \* the AtomicInteger's value_
  carried,      \* the item each thread has in hand, 0 if none
  received,     \* the items that consumers have taken
  spurious,     \* spurious wakeups so far
  inMutex, inNotEmpty, inQueue, inAt, inItem,
  outMutex, outNotEmpty, outNotFull, outQueue, outAt, outItem

In == INSTANCE BlockingQueue
        WITH mutex <- inMutex, notEmpty <- inNotEmpty, queue <- inQueue, at <- inAt, item <- inItem

Out == INSTANCE BoundedBlockingQueue
         WITH mutex <- outMutex, notEmpty <- outNotEmpty, notFull <- outNotFull,
              queue <- outQueue, at <- outAt, item <- outItem

inVars == <<inMutex, inNotEmpty, inQueue, inAt, inItem>>
outVars == <<outMutex, outNotEmpty, outNotFull, outQueue, outAt, outItem>>
ownVars == <<counter, carried, received, spurious>>
pipeVars == <<ownVars, inVars, outVars>>

-----------------------------------------------------------------------------
\* AtomicIntegerT: what a call returns, and the value that it leaves in memory.
getAndAdd(value, x) == [returns |-> value, leaves |-> value + x]
addAndGet(value, x) == [getAndAdd(value, x) EXCEPT !.returns = @ + x]

PipeInit ==
  /\ counter = 0
  /\ carried = [t \in Threads |-> 0]
  /\ received = <<>>
  /\ spurious = 0
  /\ In!QueueInit(0)
  /\ Out!QueueInit(0)

\* incrementAndGet.
Number(t) ==
  /\ carried[t] = 0
  /\ counter < MaxItems
  /\ counter' = addAndGet(counter, 1).leaves
  /\ carried' = [carried EXCEPT ![t] = addAndGet(counter, 1).returns]
  /\ UNCHANGED <<received, spurious, inVars, outVars>>

\* A thread at work in one of the queues.
PutIn(t) ==
  /\ UNCHANGED <<counter, received, spurious, outVars>>
  /\ \/ carried[t] # 0 /\ In!BeginPut(t, carried[t]) /\ UNCHANGED carried
     \/ In!put(t) /\ carried' = [carried EXCEPT ![t] = 0]

TakeIn(t) ==
  /\ UNCHANGED <<counter, received, spurious, outVars>>
  /\ \/ carried[t] = 0 /\ In!BeginTake(t) /\ UNCHANGED carried
     \/ (In!WaitNotEmpty(t) \/ In!WakeUp(t)) /\ UNCHANGED carried
     \/ In!take(t) /\ carried' = [carried EXCEPT ![t] = Head(inQueue)]

PutOut(t) ==
  /\ UNCHANGED <<counter, received, spurious, inVars>>
  /\ \/ carried[t] # 0 /\ Out!BeginPut(t, carried[t]) /\ UNCHANGED carried
     \/ (Out!WaitNotFull(t) \/ Out!WakeUp(t)) /\ UNCHANGED carried
     \/ Out!put(t) /\ carried' = [carried EXCEPT ![t] = 0]

TakeOut(t) ==
  /\ UNCHANGED <<counter, carried, spurious, inVars>>
  /\ \/ (Out!BeginTake(t) \/ Out!WaitNotEmpty(t) \/ Out!WakeUp(t)) /\ UNCHANGED received
     \/ Out!take(t) /\ received' = Append(received, Head(outQueue))

WakeForNothing(t) ==
  /\ spurious < MaxSpurious
  /\ spurious' = spurious + 1
  /\ \/ In!SpuriousWakeUp(t) /\ UNCHANGED outVars
     \/ Out!SpuriousWakeUp(t) /\ UNCHANGED inVars
  /\ UNCHANGED <<counter, carried, received>>

Work(t) ==
  \/ t \in Producers /\ PutIn(t)
  \/ t \in Relays /\ (TakeIn(t) \/ PutOut(t))
  \/ t \in Consumers /\ TakeOut(t)

PipeNext ==
  \/ \E t \in Producers : Number(t)
  \/ \E t \in Threads : Work(t) \/ WakeForNothing(t)

PipeSpec == PipeInit /\ [][PipeNext]_pipeVars

\* Threads keep running, and get a mutex that stays free.
PipeFairness == \A t \in Threads : WF_pipeVars(Work(t))

-----------------------------------------------------------------------------
\* Both queues' mutexes are owned by whoever is inside, and holder_ says so, also
\* after a wait.
HoldersRight == In!MutexKept /\ Out!MutexKept

\* Neither queue leaves a thread asleep that an element or a free place is for.
NobodyForgotten == In!NoLostWakeup /\ Out!NoLostWakeup

Times(n, s) == Cardinality({i \in DOMAIN s : s[i] = n})

\* Every item is in one place: none is lost, doubled, or overwritten in the
\* circular buffer, whoever waits and wakes in between.
OnePlace ==
  \A n \in 1 .. MaxItems :
    Cardinality({t \in Threads : carried[t] = n}) + Times(n, inQueue)
      + Times(n, outQueue) + Times(n, received) = (IF n <= counter THEN 1 ELSE 0)

\* Every item arrives: again and again all that were numbered have been received.
Delivered == []<>(Len(received) = counter)
=============================================================================
