--------------------------- MODULE PipelineProofs ---------------------------
(***************************************************************************)
(* Proofs about Pipeline, for any threads, items and capacity.  InInv and  *)
(* OutInv are about one queue each: its types, its mutex, and that nobody  *)
(* is forgotten, which is inductive given that who waits for a condition   *)
(* is where it says.  HandsOK ties what a thread carries to where it is in *)
(* a queue: a thread that is putting puts what it carries, one that is     *)
(* taking has its hands free.  OnePlace follows by counting.               *)
(***************************************************************************)
EXTENDS Pipeline, SequenceTheorems, FiniteSetTheorems, TLAPS

Holders == Threads \cup {NoThread}

InTypeOK ==
  /\ inMutex \in [owner : Holders, holder : Holders]
  /\ inNotEmpty \subseteq Threads
  /\ inQueue \in Seq(Nat)
  /\ inAt \in [Threads -> {"out", "put", "take", "wait"}]
  /\ inItem \in [Threads -> Nat]

OutTypeOK ==
  /\ outMutex \in [owner : Holders, holder : Holders]
  /\ outNotEmpty \subseteq Threads /\ outNotFull \subseteq Threads
  /\ outQueue \in Seq(Nat)
  /\ outAt \in [Threads -> {"out", "put", "take", "waitFull", "waitEmpty"}]
  /\ outItem \in [Threads -> Nat]

InInv == InTypeOK /\ In!MutexKept /\ In!NoLostWakeup
OutInv == OutTypeOK /\ Out!MutexKept /\ Out!NoLostWakeup

OwnTypeOK ==
  /\ counter \in Nat
  /\ carried \in [Threads -> Nat]
  /\ received \in Seq(Nat)

HandsOK ==
  \A t \in Threads :
    /\ inAt[t] = "put" => t \in Producers /\ carried[t] # 0 /\ inItem[t] = carried[t]
    /\ inAt[t] \in {"take", "wait"} => t \in Relays /\ carried[t] = 0
    /\ outAt[t] \in {"put", "waitFull"} =>
         t \in Relays /\ carried[t] # 0 /\ outItem[t] = carried[t]
    /\ outAt[t] \in {"take", "waitEmpty"} => t \in Consumers

PipeInv == InInv /\ OutInv /\ OwnTypeOK /\ HandsOK /\ OnePlace

-----------------------------------------------------------------------------
\* A mutex when it was locked, and when it was given up.
LEMMA MutexValues ==
  ASSUME NEW m \in [owner : Holders, holder : Holders]
  PROVE  /\ \A t \in Threads :
              [[m EXCEPT !.owner = t] EXCEPT !.holder = t] = [owner |-> t, holder |-> t]
         /\ [[m EXCEPT !.holder = NoThread] EXCEPT !.owner = NoThread] =
              [owner |-> NoThread, holder |-> NoThread]
<1>1. NoThread \in Holders /\ Threads \subseteq Holders
  BY DEF Holders
<1>2. ASSUME NEW t \in Threads
      PROVE  [[m EXCEPT !.owner = t] EXCEPT !.holder = t] = [owner |-> t, holder |-> t]
  <2>1. [m EXCEPT !.owner = t] = [owner |-> t, holder |-> m.holder]
    OBVIOUS
  <2>2. [[owner |-> t, holder |-> m.holder] EXCEPT !.holder = t] = [owner |-> t, holder |-> t]
    OBVIOUS
  <2> QED BY <2>1, <2>2
<1>3. [[m EXCEPT !.holder = NoThread] EXCEPT !.owner = NoThread] =
        [owner |-> NoThread, holder |-> NoThread]
  <2>1. [m EXCEPT !.holder = NoThread] = [owner |-> m.owner, holder |-> NoThread]
    OBVIOUS
  <2>2. [[owner |-> m.owner, holder |-> NoThread] EXCEPT !.owner = NoThread] =
          [owner |-> NoThread, holder |-> NoThread]
    OBVIOUS
  <2> QED BY <2>1, <2>2
<1> QED BY <1>2, <1>3

LEMMA InCardinality == \A S : In!Cardinality(S) = Cardinality(S)
BY DEF In!Cardinality, Cardinality

LEMMA HolderTypes ==
  ASSUME NEW t \in Holders
  PROVE  [owner |-> t, holder |-> t] \in [owner : Holders, holder : Holders]
OBVIOUS

\* A set of threads with one more, and with one less.
LEMMA CountThreads ==
  ASSUME IsFiniteSet(Threads), NEW S \in SUBSET Threads
  PROVE  /\ Cardinality(S) \in Nat
         /\ \A t \in Threads \ S : Cardinality(S \cup {t}) = Cardinality(S) + 1
         /\ \A t \in S : Cardinality(S \ {t}) = Cardinality(S) - 1
         /\ \A T \in SUBSET Threads : S \subseteq T => Cardinality(S) <= Cardinality(T)
<1>1. IsFiniteSet(S) /\ \A T \in SUBSET Threads : IsFiniteSet(T)
  BY FS_Subset
<1>2. \A T \in SUBSET Threads : S \subseteq T => Cardinality(S) <= Cardinality(T)
  BY <1>1, FS_Subset
<1> QED BY <1>1, <1>2, FS_CardinalityType, FS_AddElement, FS_RemoveElement

\* A queue with one element more, and without its first.
LEMMA QueueTypes ==
  ASSUME NEW s \in Seq(Nat)
  PROVE  /\ Len(s) \in Nat
         /\ s = <<>> <=> Len(s) = 0
         /\ \A x \in Nat : Append(s, x) \in Seq(Nat) /\ Len(Append(s, x)) = Len(s) + 1
         /\ s # <<>> => /\ Head(s) \in Nat /\ Tail(s) \in Seq(Nat)
                        /\ Len(Tail(s)) = Len(s) - 1
BY AppendProperties, HeadTailProperties, LenProperties, EmptySeq

-----------------------------------------------------------------------------
(***************************************************************************)
(* The BlockingQueue.                                                      *)
(***************************************************************************)
LEMMA InBegin ==
  ASSUME PipelineAssumption, InInv, NEW t \in Threads,
         In!BeginTake(t) \/ \E x \in Nat : In!BeginPut(t, x)
  PROVE  InInv'
<1> USE DEF InInv, InTypeOK
<1>1. PICK to \in {"put", "take"} :
        /\ inAt[t] = "out" /\ inMutex.owner = NoThread
        /\ inAt' = [inAt EXCEPT ![t] = to]
        /\ inMutex' = [[inMutex EXCEPT !.owner = t] EXCEPT !.holder = t]
        /\ UNCHANGED <<inNotEmpty, inQueue>>
  BY DEF In!BeginTake, In!BeginPut, In!CanLock, In!lock, In!assignHolder
<1>2. inMutex' = [owner |-> t, holder |-> t] /\ inMutex.holder = NoThread
  BY <1>1, MutexValues DEF In!MutexKept
<1>3. InTypeOK'
  <2>1. inItem' \in [Threads -> Nat]
    BY DEF In!BeginTake, In!BeginPut
  <2> QED BY <1>1, <1>2, <2>1, HolderTypes DEF Holders
<1>4. In!MutexKept'
  BY <1>1, <1>2, PipelineAssumption DEF In!MutexKept, In!isLockedByThisThread, PipelineAssumption
<1>5. In!NoLostWakeup'
  <2>1. In!Looking \subseteq In!Looking' /\ In!Looking' \subseteq Threads
    BY <1>1 DEF In!Looking
  <2>2. Cardinality(In!Looking) <= Cardinality(In!Looking')
    BY <2>1, CountThreads DEF PipelineAssumption
  <2>3. Cardinality(In!Looking) \in Nat /\ Cardinality(In!Looking') \in Nat /\ Len(inQueue) \in Nat
    BY <2>1, CountThreads, QueueTypes DEF PipelineAssumption
  <2> QED BY <1>1, <2>2, <2>3, InCardinality DEF In!NoLostWakeup
<1> QED BY <1>3, <1>4, <1>5

\* Who pushes an element wakes one that waits, if any does: one more is looking.
LEMMA InPut ==
  ASSUME PipelineAssumption, InInv, NEW t \in Threads, In!put(t)
  PROVE  InInv'
<1> USE DEF InInv, InTypeOK
<1>1. /\ inAt[t] = "put" /\ inAt' = [inAt EXCEPT ![t] = "out"]
      /\ inMutex' = [[inMutex EXCEPT !.holder = NoThread] EXCEPT !.owner = NoThread]
      /\ inQueue' = Append(inQueue, inItem[t])
      /\ IF inNotEmpty = {} THEN inNotEmpty' = {}
         ELSE \E w \in inNotEmpty : inNotEmpty' = inNotEmpty \ {w}
      /\ UNCHANGED inItem
  BY DEF In!put, In!Push, In!notify, In!unlock, In!unassignHolder
<1>2. inMutex' = [owner |-> NoThread, holder |-> NoThread] /\ inMutex.holder = t
  BY <1>1, MutexValues DEF In!MutexKept, In!isLockedByThisThread
<1>3. inQueue' \in Seq(Nat) /\ Len(inQueue') = Len(inQueue) + 1 /\ Len(inQueue) \in Nat
  BY <1>1, QueueTypes
<1>4. InTypeOK'
  BY <1>1, <1>2, <1>3, HolderTypes DEF Holders
<1>5. In!MutexKept'
  BY <1>1, <1>2, PipelineAssumption DEF In!MutexKept, In!isLockedByThisThread, PipelineAssumption
<1>6. In!NoLostWakeup'
  <2>1. CASE inNotEmpty = {}
    BY <1>1, <2>1, InCardinality DEF In!NoLostWakeup
  <2>2. ASSUME NEW w \in inNotEmpty, inNotEmpty' = inNotEmpty \ {w} PROVE In!NoLostWakeup'
    <3>1. w \in Threads /\ inAt[w] = "wait" /\ w # t
      BY <1>1 DEF In!MutexKept
    <3>2. In!Looking' = In!Looking \cup {w} /\ w \in Threads \ In!Looking
      BY <1>1, <2>2, <3>1 DEF In!Looking
    <3>3. /\ Cardinality(In!Looking') = Cardinality(In!Looking) + 1
          /\ Cardinality(In!Looking) \in Nat
      <4>1. In!Looking \in SUBSET Threads
        BY DEF In!Looking
      <4> QED BY <3>2, <4>1, CountThreads DEF PipelineAssumption
    <3>4. Len(inQueue) <= Cardinality(In!Looking)
      BY InCardinality DEF In!NoLostWakeup
    <3> QED BY <1>3, <3>3, <3>4, InCardinality DEF In!NoLostWakeup
  <2> QED BY <1>1, <2>1, <2>2
<1> QED BY <1>4, <1>5, <1>6

\* Who finds an element takes one, and is not looking any more.
LEMMA InTake ==
  ASSUME PipelineAssumption, InInv, NEW t \in Threads, In!take(t)
  PROVE  InInv'
<1> USE DEF InInv, InTypeOK
<1>1. /\ inAt[t] = "take" /\ inAt' = [inAt EXCEPT ![t] = "out"]
      /\ inMutex' = [[inMutex EXCEPT !.holder = NoThread] EXCEPT !.owner = NoThread]
      /\ inQueue # <<>> /\ inQueue' = Tail(inQueue)
      /\ inItem' = [inItem EXCEPT ![t] = Head(inQueue)]
      /\ UNCHANGED inNotEmpty
  BY DEF In!take, In!unlock, In!unassignHolder
<1>2. inMutex' = [owner |-> NoThread, holder |-> NoThread] /\ inMutex.holder = t
  BY <1>1, MutexValues DEF In!MutexKept, In!isLockedByThisThread
<1>3. /\ inQueue' \in Seq(Nat) /\ Len(inQueue') = Len(inQueue) - 1
      /\ Len(inQueue) \in Nat /\ Head(inQueue) \in Nat
  BY <1>1, QueueTypes
<1>4. InTypeOK'
  BY <1>1, <1>2, <1>3, HolderTypes DEF Holders
<1>5. In!MutexKept'
  BY <1>1, <1>2, PipelineAssumption DEF In!MutexKept, In!isLockedByThisThread, PipelineAssumption
<1>6. In!NoLostWakeup'
  <2>1. In!Looking' = In!Looking \ {t} /\ t \in In!Looking
    BY <1>1 DEF In!Looking
  <2>2. /\ Cardinality(In!Looking') = Cardinality(In!Looking) - 1
        /\ Cardinality(In!Looking) \in Nat
    <3>1. In!Looking \in SUBSET Threads
      BY DEF In!Looking
    <3> QED BY <2>1, <3>1, CountThreads DEF PipelineAssumption
  <2> QED BY <1>1, <1>3, <2>2, InCardinality DEF In!NoLostWakeup
<1> QED BY <1>4, <1>5, <1>6

\* Waiting, waking up, and waking up for nothing.
LEMMA InWait ==
  ASSUME PipelineAssumption, InInv, NEW t \in Threads, In!WaitNotEmpty(t)
  PROVE  InInv'
<1> USE DEF InInv, InTypeOK
<1>1. /\ inAt[t] = "take" /\ inAt' = [inAt EXCEPT ![t] = "wait"]
      /\ inMutex' = [[inMutex EXCEPT !.holder = NoThread] EXCEPT !.owner = NoThread]
      /\ inQueue = <<>> /\ inNotEmpty' = inNotEmpty \cup {t}
      /\ UNCHANGED <<inQueue, inItem>>
  BY DEF In!WaitNotEmpty, In!Waiting, In!unlock, In!unassignHolder
<1>2. inMutex' = [owner |-> NoThread, holder |-> NoThread] /\ inMutex.holder = t
  BY <1>1, MutexValues DEF In!MutexKept, In!isLockedByThisThread
<1>3. InTypeOK'
  BY <1>1, <1>2, HolderTypes DEF Holders
<1>4. In!MutexKept'
  BY <1>1, <1>2, PipelineAssumption DEF In!MutexKept, In!isLockedByThisThread, PipelineAssumption
<1>5. In!NoLostWakeup'
  <2>1. In!Looking' \in SUBSET Threads /\ Len(inQueue') = 0
    BY <1>1, QueueTypes DEF In!Looking
  <2>2. Cardinality(In!Looking') \in Nat
    BY <2>1, CountThreads DEF PipelineAssumption
  <2> QED BY <2>1, <2>2, InCardinality DEF In!NoLostWakeup
<1> QED BY <1>3, <1>4, <1>5

LEMMA InWake ==
  ASSUME PipelineAssumption, InInv, NEW t \in Threads, In!WakeUp(t)
  PROVE  InInv'
<1> USE DEF InInv, InTypeOK
<1>1. /\ inAt[t] = "wait" /\ inAt' = [inAt EXCEPT ![t] = "take"]
      /\ t \notin inNotEmpty /\ inMutex.owner = NoThread
      /\ inMutex' = [[inMutex EXCEPT !.owner = t] EXCEPT !.holder = t]
      /\ UNCHANGED <<inQueue, inItem, inNotEmpty>>
  BY DEF In!WakeUp, In!CanLock, In!Woken, In!assignHolder
<1>2. inMutex' = [owner |-> t, holder |-> t] /\ inMutex.holder = NoThread
  BY <1>1, MutexValues DEF In!MutexKept
<1>3. InTypeOK'
  BY <1>1, <1>2, HolderTypes DEF Holders
<1>4. In!MutexKept'
  BY <1>1, <1>2, PipelineAssumption DEF In!MutexKept, In!isLockedByThisThread, PipelineAssumption
<1>5. In!Looking' = In!Looking
  BY <1>1 DEF In!Looking
<1> QED BY <1>1, <1>3, <1>4, <1>5, InCardinality DEF In!NoLostWakeup

LEMMA InSpurious ==
  ASSUME PipelineAssumption, InInv, NEW t \in Threads, In!SpuriousWakeUp(t)
  PROVE  InInv'
<1> USE DEF InInv, InTypeOK
<1>1. /\ inNotEmpty' = inNotEmpty \ {t} /\ t \in inNotEmpty
      /\ UNCHANGED <<inMutex, inQueue, inAt, inItem>>
  BY DEF In!SpuriousWakeUp
<1>2. InTypeOK' /\ In!MutexKept'
  BY <1>1 DEF In!MutexKept, In!isLockedByThisThread
<1>3. In!NoLostWakeup'
  <2>1. In!Looking \subseteq In!Looking' /\ In!Looking' \subseteq Threads
    BY <1>1 DEF In!Looking
  <2>2. /\ Cardinality(In!Looking) <= Cardinality(In!Looking')
        /\ Cardinality(In!Looking) \in Nat /\ Cardinality(In!Looking') \in Nat
        /\ Len(inQueue) \in Nat
    BY <2>1, CountThreads, QueueTypes DEF PipelineAssumption
  <2> QED BY <1>1, <2>2, InCardinality DEF In!NoLostWakeup
<1> QED BY <1>2, <1>3

-----------------------------------------------------------------------------
(***************************************************************************)
(* The BoundedBlockingQueue.  Who waits for room and who waits for an      *)
(* element are counted alike: a step on one side wakes the other.          *)
(***************************************************************************)
LEMMA OutCardinality == \A S : Out!Cardinality(S) = Cardinality(S)
BY DEF Out!Cardinality, Cardinality

LEMMA OutCounts ==
  ASSUME PipelineAssumption, OutTypeOK
  PROVE  /\ Out!LookingForRoom \in SUBSET Threads /\ Out!LookingForElements \in SUBSET Threads
         /\ Cardinality(Out!LookingForRoom) \in Nat
         /\ Cardinality(Out!LookingForElements) \in Nat
         /\ Len(outQueue) \in Nat /\ Capacity \in Nat
<1>1. Out!LookingForRoom \in SUBSET Threads /\ Out!LookingForElements \in SUBSET Threads
  BY DEF Out!LookingForRoom, Out!LookingForElements
<1> QED BY <1>1, CountThreads, QueueTypes DEF PipelineAssumption, OutTypeOK

\* Nobody is forgotten if as many look as before, for what is there as before.
LEMMA OutForgotten ==
  ASSUME PipelineAssumption, OutTypeOK, OutTypeOK', Out!NoLostWakeup,
         Len(outQueue') = Len(outQueue),
         outNotEmpty' \subseteq outNotEmpty, outNotFull' \subseteq outNotFull,
         Out!LookingForRoom \subseteq Out!LookingForRoom',
         Out!LookingForElements \subseteq Out!LookingForElements'
  PROVE  Out!NoLostWakeup'
<1>1. /\ Cardinality(Out!LookingForRoom) <= Cardinality(Out!LookingForRoom')
      /\ Cardinality(Out!LookingForElements) <= Cardinality(Out!LookingForElements')
  <2>1. Out!LookingForRoom' \in SUBSET Threads /\ Out!LookingForElements' \in SUBSET Threads
    BY DEF Out!LookingForRoom, Out!LookingForElements
  <2> QED BY <2>1, OutCounts, CountThreads DEF PipelineAssumption
<1>2. Cardinality(Out!LookingForRoom') \in Nat /\ Cardinality(Out!LookingForElements') \in Nat
  <2>1. Out!LookingForRoom' \in SUBSET Threads /\ Out!LookingForElements' \in SUBSET Threads
    BY DEF Out!LookingForRoom, Out!LookingForElements
  <2> QED BY <2>1, CountThreads DEF PipelineAssumption
<1> QED BY <1>1, <1>2, OutCounts, OutCardinality DEF Out!NoLostWakeup

LEMMA OutBegin ==
  ASSUME PipelineAssumption, OutInv, NEW t \in Threads,
         Out!BeginTake(t) \/ \E x \in Nat : Out!BeginPut(t, x)
  PROVE  OutInv'
<1> USE DEF OutInv, OutTypeOK
<1>1. PICK to \in {"put", "take"} :
        /\ outAt[t] = "out" /\ outMutex.owner = NoThread
        /\ outAt' = [outAt EXCEPT ![t] = to]
        /\ outMutex' = [[outMutex EXCEPT !.owner = t] EXCEPT !.holder = t]
        /\ UNCHANGED <<outNotEmpty, outNotFull, outQueue>>
  BY DEF Out!BeginTake, Out!BeginPut, Out!CanLock, Out!lock, Out!assignHolder
<1>2. outMutex' = [owner |-> t, holder |-> t] /\ outMutex.holder = NoThread
  BY <1>1, MutexValues DEF Out!MutexKept
<1>3. OutTypeOK'
  <2>1. outItem' \in [Threads -> Nat]
    BY DEF Out!BeginTake, Out!BeginPut
  <2> QED BY <1>1, <1>2, <2>1, HolderTypes DEF Holders
<1>4. Out!MutexKept'
  BY <1>1, <1>2, PipelineAssumption DEF Out!MutexKept, Out!isLockedByThisThread, PipelineAssumption
<1>5. /\ Out!LookingForRoom \subseteq Out!LookingForRoom'
      /\ Out!LookingForElements \subseteq Out!LookingForElements'
  BY <1>1 DEF Out!LookingForRoom, Out!LookingForElements
<1>6. Out!NoLostWakeup'
  BY <1>1, <1>3, <1>5, OutForgotten
<1> QED BY <1>3, <1>4, <1>6

LEMMA OutWake ==
  ASSUME PipelineAssumption, OutInv, NEW t \in Threads, Out!WakeUp(t)
  PROVE  OutInv'
<1> USE DEF OutInv, OutTypeOK
<1>1. /\ outAt[t] \in {"waitFull", "waitEmpty"}
      /\ outAt' = [outAt EXCEPT ![t] = IF outAt[t] = "waitFull" THEN "put" ELSE "take"]
      /\ t \notin outNotFull \cup outNotEmpty /\ outMutex.owner = NoThread
      /\ outMutex' = [[outMutex EXCEPT !.owner = t] EXCEPT !.holder = t]
      /\ UNCHANGED <<outQueue, outItem, outNotEmpty, outNotFull>>
  BY DEF Out!WakeUp, Out!CanLock, Out!Woken, Out!assignHolder
<1>2. outMutex' = [owner |-> t, holder |-> t] /\ outMutex.holder = NoThread
  BY <1>1, MutexValues DEF Out!MutexKept
<1>3. OutTypeOK'
  BY <1>1, <1>2, HolderTypes DEF Holders
<1>4. Out!MutexKept'
  BY <1>1, <1>2, PipelineAssumption DEF Out!MutexKept, Out!isLockedByThisThread, PipelineAssumption
<1>5. /\ Out!LookingForRoom \subseteq Out!LookingForRoom'
      /\ Out!LookingForElements \subseteq Out!LookingForElements'
  BY <1>1 DEF Out!LookingForRoom, Out!LookingForElements
<1>6. Out!NoLostWakeup'
  BY <1>1, <1>3, <1>5, OutForgotten
<1> QED BY <1>3, <1>4, <1>6

LEMMA OutSpurious ==
  ASSUME PipelineAssumption, OutInv, NEW t \in Threads, Out!SpuriousWakeUp(t)
  PROVE  OutInv'
<1> USE DEF OutInv, OutTypeOK
<1>1. /\ outNotEmpty' = outNotEmpty \ {t} /\ outNotFull' = outNotFull \ {t}
      /\ UNCHANGED <<outMutex, outQueue, outAt, outItem>>
  BY DEF Out!SpuriousWakeUp
<1>2. OutTypeOK' /\ Out!MutexKept'
  BY <1>1 DEF Out!MutexKept, Out!isLockedByThisThread
<1>3. /\ Out!LookingForRoom \subseteq Out!LookingForRoom'
      /\ Out!LookingForElements \subseteq Out!LookingForElements'
  BY <1>1 DEF Out!LookingForRoom, Out!LookingForElements
<1>4. Out!NoLostWakeup'
  BY <1>1, <1>2, <1>3, OutForgotten
<1> QED BY <1>2, <1>4

\* Who waits for room leaves none, and who waits for an element leaves none: so the
\* one who begins to wait is not wanted, and the others look as they did.
LEMMA OutWait ==
  ASSUME PipelineAssumption, OutInv, NEW t \in Threads, Out!WaitNotFull(t) \/ Out!WaitNotEmpty(t)
  PROVE  OutInv'
<1> USE DEF OutInv, OutTypeOK
<1>1. PICK to \in {"waitFull", "waitEmpty"} :
        /\ outAt[t] = IF to = "waitFull" THEN "put" ELSE "take"
        /\ outAt' = [outAt EXCEPT ![t] = to]
        /\ outMutex' = [[outMutex EXCEPT !.holder = NoThread] EXCEPT !.owner = NoThread]
        /\ UNCHANGED <<outQueue, outItem>>
        /\ IF to = "waitFull"
           THEN /\ Len(outQueue) = Capacity
                /\ outNotFull' = outNotFull \cup {t} /\ UNCHANGED outNotEmpty
           ELSE /\ outQueue = <<>>
                /\ outNotEmpty' = outNotEmpty \cup {t} /\ UNCHANGED outNotFull
  BY DEF Out!WaitNotFull, Out!WaitNotEmpty, Out!full, Out!Waiting, Out!unlock, Out!unassignHolder
<1>2. outMutex' = [owner |-> NoThread, holder |-> NoThread] /\ outMutex.holder = t
  BY <1>1, MutexValues DEF Out!MutexKept, Out!isLockedByThisThread
<1>3. OutTypeOK'
  BY <1>1, <1>2, HolderTypes DEF Holders
<1>4. Out!MutexKept'
  <2>1. /\ outMutex'.holder = outMutex'.owner
        /\ \A u \in Threads : outAt'[u] \notin {"put", "take"} /\ outMutex'.holder # u
    BY <1>1, <1>2, PipelineAssumption DEF Out!MutexKept, Out!isLockedByThisThread, PipelineAssumption
  <2>2. /\ outNotFull' \subseteq {u \in Threads : outAt'[u] = "waitFull"}
        /\ outNotEmpty' \subseteq {u \in Threads : outAt'[u] = "waitEmpty"}
    BY <1>1 DEF Out!MutexKept
  <2> QED BY <2>1, <2>2 DEF Out!MutexKept, Out!isLockedByThisThread
<1>5. Out!NoLostWakeup'
  <2>1. /\ Cardinality(Out!LookingForRoom) \in Nat /\ Cardinality(Out!LookingForElements) \in Nat
        /\ Cardinality(Out!LookingForRoom') \in Nat /\ Cardinality(Out!LookingForElements') \in Nat
    <3>1. Out!LookingForRoom' \in SUBSET Threads /\ Out!LookingForElements' \in SUBSET Threads
      BY DEF Out!LookingForRoom, Out!LookingForElements
    <3> QED BY <3>1, OutCounts, CountThreads DEF PipelineAssumption
  <2>2. Len(outQueue') = Len(outQueue) /\ Len(outQueue) \in Nat /\ Capacity \in Nat
    BY <1>1, OutCounts
  <2>3. CASE to = "waitFull"
    <3>1. Out!LookingForElements' = Out!LookingForElements /\ outNotEmpty' = outNotEmpty
      BY <1>1, <2>3 DEF Out!LookingForElements
    <3>2. Capacity - Len(outQueue) = 0
      BY <1>1, <2>2, <2>3
    <3> QED BY <2>1, <2>2, <3>1, <3>2, OutCardinality DEF Out!NoLostWakeup
  <2>4. CASE to = "waitEmpty"
    <3>1. Out!LookingForRoom' = Out!LookingForRoom /\ outNotFull' = outNotFull
      BY <1>1, <2>4 DEF Out!LookingForRoom
    <3>2. Len(outQueue) = 0
      BY <1>1, <2>4, QueueTypes
    <3> QED BY <2>1, <2>2, <3>1, <3>2, OutCardinality DEF Out!NoLostWakeup
  <2> QED BY <2>3, <2>4
<1> QED BY <1>3, <1>4, <1>5

\* There is one element more, and one more looking for it if any waited; one place
\* less, and one less looking for room.
LEMMA OutPut ==
  ASSUME PipelineAssumption, OutInv, NEW t \in Threads, Out!put(t)
  PROVE  OutInv'
<1> USE DEF OutInv, OutTypeOK
<1>1. /\ outAt[t] = "put" /\ outAt' = [outAt EXCEPT ![t] = "out"]
      /\ outMutex' = [[outMutex EXCEPT !.holder = NoThread] EXCEPT !.owner = NoThread]
      /\ outQueue' = Append(outQueue, outItem[t])
      /\ IF outNotEmpty = {} THEN outNotEmpty' = {}
         ELSE \E w \in outNotEmpty : outNotEmpty' = outNotEmpty \ {w}
      /\ UNCHANGED <<outNotFull, outItem>>
  BY DEF Out!put, Out!PushedBack, Out!notify, Out!unlock, Out!unassignHolder
<1>2. outMutex' = [owner |-> NoThread, holder |-> NoThread] /\ outMutex.holder = t
  BY <1>1, MutexValues DEF Out!MutexKept, Out!isLockedByThisThread
<1>3. outQueue' \in Seq(Nat) /\ Len(outQueue') = Len(outQueue) + 1 /\ Len(outQueue) \in Nat
  BY <1>1, QueueTypes
<1>4. OutTypeOK'
  BY <1>1, <1>2, <1>3, HolderTypes DEF Holders
<1>5. Out!MutexKept'
  BY <1>1, <1>2, PipelineAssumption DEF Out!MutexKept, Out!isLockedByThisThread, PipelineAssumption
<1>6. outNotFull' # {} => Capacity - Len(outQueue') <= Cardinality(Out!LookingForRoom')
  <2>1. Out!LookingForRoom' = Out!LookingForRoom \ {t} /\ t \in Out!LookingForRoom
    BY <1>1 DEF Out!LookingForRoom
  <2>2. Cardinality(Out!LookingForRoom') = Cardinality(Out!LookingForRoom) - 1
    BY <2>1, OutCounts, CountThreads DEF PipelineAssumption
  <2> QED BY <1>1, <1>3, <2>2, OutCounts, OutCardinality DEF Out!NoLostWakeup
<1>7. outNotEmpty' # {} => Len(outQueue') <= Cardinality(Out!LookingForElements')
  <2>1. CASE outNotEmpty = {}
    BY <1>1, <2>1
  <2>2. ASSUME NEW w \in outNotEmpty, outNotEmpty' = outNotEmpty \ {w}
        PROVE  Len(outQueue') <= Cardinality(Out!LookingForElements')
    <3>1. w \in Threads /\ outAt[w] = "waitEmpty" /\ w # t
      BY <1>1 DEF Out!MutexKept
    <3>2. /\ Out!LookingForElements' = Out!LookingForElements \cup {w}
          /\ w \in Threads \ Out!LookingForElements
      BY <1>1, <2>2, <3>1 DEF Out!LookingForElements
    <3>3. Cardinality(Out!LookingForElements') = Cardinality(Out!LookingForElements) + 1
      BY <3>2, OutCounts, CountThreads DEF PipelineAssumption
    <3>4. Len(outQueue) <= Cardinality(Out!LookingForElements)
      BY OutCardinality DEF Out!NoLostWakeup
    <3> QED BY <1>3, <3>3, <3>4, OutCounts
  <2> QED BY <1>1, <2>1, <2>2
<1>8. Out!NoLostWakeup'
  BY <1>6, <1>7, OutCardinality DEF Out!NoLostWakeup
<1> QED BY <1>4, <1>5, <1>8

LEMMA OutTake ==
  ASSUME PipelineAssumption, OutInv, NEW t \in Threads, Out!take(t)
  PROVE  OutInv'
<1> USE DEF OutInv, OutTypeOK
<1>1. /\ outAt[t] = "take" /\ outAt' = [outAt EXCEPT ![t] = "out"]
      /\ outMutex' = [[outMutex EXCEPT !.holder = NoThread] EXCEPT !.owner = NoThread]
      /\ outQueue # <<>> /\ outQueue' = Tail(outQueue)
      /\ outItem' = [outItem EXCEPT ![t] = Head(outQueue)]
      /\ IF outNotFull = {} THEN outNotFull' = {}
         ELSE \E w \in outNotFull : outNotFull' = outNotFull \ {w}
      /\ UNCHANGED outNotEmpty
  BY DEF Out!take, Out!notify, Out!unlock, Out!unassignHolder
<1>2. outMutex' = [owner |-> NoThread, holder |-> NoThread] /\ outMutex.holder = t
  BY <1>1, MutexValues DEF Out!MutexKept, Out!isLockedByThisThread
<1>3. /\ outQueue' \in Seq(Nat) /\ Len(outQueue') = Len(outQueue) - 1
      /\ Len(outQueue) \in Nat /\ Head(outQueue) \in Nat
  BY <1>1, QueueTypes
<1>4. OutTypeOK'
  BY <1>1, <1>2, <1>3, HolderTypes DEF Holders
<1>5. Out!MutexKept'
  BY <1>1, <1>2, PipelineAssumption DEF Out!MutexKept, Out!isLockedByThisThread, PipelineAssumption
<1>6. outNotEmpty' # {} => Len(outQueue') <= Cardinality(Out!LookingForElements')
  <2>1. /\ Out!LookingForElements' = Out!LookingForElements \ {t}
        /\ t \in Out!LookingForElements
    BY <1>1 DEF Out!LookingForElements
  <2>2. Cardinality(Out!LookingForElements') = Cardinality(Out!LookingForElements) - 1
    BY <2>1, OutCounts, CountThreads DEF PipelineAssumption
  <2> QED BY <1>1, <1>3, <2>2, OutCounts, OutCardinality DEF Out!NoLostWakeup
<1>7. outNotFull' # {} => Capacity - Len(outQueue') <= Cardinality(Out!LookingForRoom')
  <2>1. CASE outNotFull = {}
    BY <1>1, <2>1
  <2>2. ASSUME NEW w \in outNotFull, outNotFull' = outNotFull \ {w}
        PROVE  Capacity - Len(outQueue') <= Cardinality(Out!LookingForRoom')
    <3>1. w \in Threads /\ outAt[w] = "waitFull" /\ w # t
      BY <1>1 DEF Out!MutexKept
    <3>2. /\ Out!LookingForRoom' = Out!LookingForRoom \cup {w}
          /\ w \in Threads \ Out!LookingForRoom
      BY <1>1, <2>2, <3>1 DEF Out!LookingForRoom
    <3>3. Cardinality(Out!LookingForRoom') = Cardinality(Out!LookingForRoom) + 1
      BY <3>2, OutCounts, CountThreads DEF PipelineAssumption
    <3>4. Capacity - Len(outQueue) <= Cardinality(Out!LookingForRoom)
      BY OutCardinality DEF Out!NoLostWakeup
    <3> QED BY <1>3, <3>3, <3>4, OutCounts
  <2> QED BY <1>1, <2>1, <2>2
<1>8. Out!NoLostWakeup'
  BY <1>6, <1>7, OutCardinality DEF Out!NoLostWakeup
<1> QED BY <1>4, <1>5, <1>8

-----------------------------------------------------------------------------
(***************************************************************************)
(* What a step does to the items.                                          *)
(***************************************************************************)
Numbered(t) ==
  /\ carried[t] = 0 /\ counter' = counter + 1
  /\ carried' = [carried EXCEPT ![t] = counter + 1]
  /\ UNCHANGED <<inQueue, outQueue, received>>

PutToIn(t) ==
  /\ inQueue' = Append(inQueue, carried[t]) /\ carried' = [carried EXCEPT ![t] = 0]
  /\ UNCHANGED <<counter, outQueue, received>>

TakenFromIn(t) ==
  /\ inQueue # <<>> /\ carried[t] = 0
  /\ inQueue' = Tail(inQueue) /\ carried' = [carried EXCEPT ![t] = Head(inQueue)]
  /\ UNCHANGED <<counter, outQueue, received>>

PutToOut(t) ==
  /\ outQueue' = Append(outQueue, carried[t]) /\ carried' = [carried EXCEPT ![t] = 0]
  /\ UNCHANGED <<counter, inQueue, received>>

TakenFromOut ==
  /\ outQueue # <<>>
  /\ outQueue' = Tail(outQueue) /\ received' = Append(received, Head(outQueue))
  /\ UNCHANGED <<counter, carried, inQueue>>

ItemsStay == UNCHANGED <<counter, carried, inQueue, outQueue, received>>

\* Either queue, when a thread does something in it and when none does.
LEMMA InSame == ASSUME InInv, UNCHANGED inVars PROVE InInv'
BY DEF InInv, InTypeOK, In!MutexKept, In!isLockedByThisThread, In!NoLostWakeup, In!Looking, inVars

LEMMA OutSame == ASSUME OutInv, UNCHANGED outVars PROVE OutInv'
BY DEF OutInv, OutTypeOK, Out!MutexKept, Out!isLockedByThisThread, Out!NoLostWakeup,
   Out!LookingForRoom, Out!LookingForElements, outVars

LEMMA QueuesNext ==
  ASSUME PipelineAssumption, PipeInv, [PipeNext]_pipeVars
  PROVE  InInv' /\ OutInv'
<1>0. InInv /\ OutInv /\ carried \in [Threads -> Nat]
  BY DEF PipeInv, OwnTypeOK
<1>1. CASE UNCHANGED pipeVars \/ \E t \in Producers : Number(t)
  BY <1>0, <1>1, InSame, OutSame DEF pipeVars, Number
<1>2. ASSUME NEW t \in Threads, PutIn(t) \/ TakeIn(t) PROVE InInv' /\ OutInv'
  <2>1. InInv'
    <3>1. carried[t] \in Nat
      BY <1>0
    <3> QED BY <1>0, <1>2, <3>1, InBegin, InPut, InTake, InWait, InWake DEF PutIn, TakeIn
  <2>2. UNCHANGED outVars
    BY <1>2 DEF PutIn, TakeIn
  <2> QED BY <1>0, <2>1, <2>2, OutSame
<1>3. ASSUME NEW t \in Threads, PutOut(t) \/ TakeOut(t) PROVE InInv' /\ OutInv'
  <2>1. OutInv'
    <3>1. carried[t] \in Nat
      BY <1>0
    <3> QED BY <1>0, <1>3, <3>1, OutBegin, OutPut, OutTake, OutWait, OutWake DEF PutOut, TakeOut
  <2>2. UNCHANGED inVars
    BY <1>3 DEF PutOut, TakeOut
  <2> QED BY <1>0, <2>1, <2>2, InSame
<1>4. ASSUME NEW t \in Threads, WakeForNothing(t) PROVE InInv' /\ OutInv'
  <2>1. CASE In!SpuriousWakeUp(t) /\ UNCHANGED outVars
    BY <1>0, <2>1, InSpurious, OutSame
  <2>2. CASE Out!SpuriousWakeUp(t) /\ UNCHANGED inVars
    BY <1>0, <2>2, OutSpurious, InSame
  <2> QED BY <1>4, <2>1, <2>2 DEF WakeForNothing
<1> QED BY <1>1, <1>2, <1>3, <1>4 DEF PipeNext, Work

LEMMA ItemsMove ==
  ASSUME PipelineAssumption, PipeInv, [PipeNext]_pipeVars
  PROVE  \/ ItemsStay \/ TakenFromOut
         \/ \E t \in Threads : Numbered(t) \/ PutToIn(t) \/ TakenFromIn(t) \/ PutToOut(t)
<1>0. HandsOK
  BY DEF PipeInv
<1>1. CASE UNCHANGED pipeVars
  BY <1>1 DEF pipeVars, ownVars, inVars, outVars, ItemsStay
<1>2. ASSUME NEW t \in Producers, Number(t) PROVE Numbered(t) /\ t \in Threads
  BY <1>2 DEF Number, Numbered, getAndAdd, addAndGet, inVars, outVars, Threads
<1>3. ASSUME NEW t \in Threads, PutIn(t) PROVE ItemsStay \/ PutToIn(t)
  <2>1. CASE In!BeginPut(t, carried[t]) /\ UNCHANGED carried
    BY <1>3, <2>1 DEF PutIn, In!BeginPut, outVars, ItemsStay
  <2>2. CASE In!put(t) /\ carried' = [carried EXCEPT ![t] = 0]
    BY <1>0, <1>3, <2>2 DEF PutIn, In!put, In!Push, outVars, HandsOK, PutToIn
  <2> QED BY <1>3, <2>1, <2>2 DEF PutIn
<1>4. ASSUME NEW t \in Threads, TakeIn(t) PROVE ItemsStay \/ TakenFromIn(t)
  <2>1. CASE (In!BeginTake(t) \/ In!WaitNotEmpty(t) \/ In!WakeUp(t)) /\ UNCHANGED carried
    BY <1>4, <2>1 DEF TakeIn, In!BeginTake, In!WaitNotEmpty, In!WakeUp, outVars, ItemsStay
  <2>2. CASE In!take(t) /\ carried' = [carried EXCEPT ![t] = Head(inQueue)]
    BY <1>0, <1>4, <2>2 DEF TakeIn, In!take, outVars, HandsOK, TakenFromIn
  <2> QED BY <1>4, <2>1, <2>2 DEF TakeIn
<1>5. ASSUME NEW t \in Threads, PutOut(t) PROVE ItemsStay \/ PutToOut(t)
  <2>1. CASE /\ Out!BeginPut(t, carried[t]) \/ Out!WaitNotFull(t) \/ Out!WakeUp(t)
             /\ UNCHANGED carried
    BY <1>5, <2>1 DEF PutOut, Out!BeginPut, Out!WaitNotFull, Out!WakeUp, inVars, ItemsStay
  <2>2. CASE Out!put(t) /\ carried' = [carried EXCEPT ![t] = 0]
    BY <1>0, <1>5, <2>2 DEF PutOut, Out!put, Out!PushedBack, inVars, HandsOK, PutToOut
  <2> QED BY <1>5, <2>1, <2>2 DEF PutOut
<1>6. ASSUME NEW t \in Threads, TakeOut(t) PROVE ItemsStay \/ TakenFromOut
  <2>1. CASE (Out!BeginTake(t) \/ Out!WaitNotEmpty(t) \/ Out!WakeUp(t)) /\ UNCHANGED received
    BY <1>6, <2>1 DEF TakeOut, Out!BeginTake, Out!WaitNotEmpty, Out!WakeUp, inVars, ItemsStay
  <2>2. CASE Out!take(t) /\ received' = Append(received, Head(outQueue))
    BY <1>6, <2>2 DEF TakeOut, Out!take, inVars, TakenFromOut
  <2> QED BY <1>6, <2>1, <2>2 DEF TakeOut
<1>7. ASSUME NEW t \in Threads, WakeForNothing(t) PROVE ItemsStay
  BY <1>7 DEF WakeForNothing, In!SpuriousWakeUp, Out!SpuriousWakeUp, inVars, outVars, ItemsStay
<1> QED BY <1>1, <1>2, <1>3, <1>4, <1>5, <1>6, <1>7 DEF PipeNext, Work

LEMMA OwnTypesNext ==
  ASSUME PipelineAssumption, PipeInv, [PipeNext]_pipeVars
  PROVE  OwnTypeOK'
<1>0. OwnTypeOK /\ inQueue \in Seq(Nat) /\ outQueue \in Seq(Nat)
  BY DEF PipeInv, InInv, InTypeOK, OutInv, OutTypeOK
<1>1. /\ inQueue # <<>> => Head(inQueue) \in Nat
      /\ outQueue # <<>> => Append(received, Head(outQueue)) \in Seq(Nat)
  BY <1>0, QueueTypes DEF OwnTypeOK
<1>2. CASE ItemsStay \/ TakenFromOut
  BY <1>0, <1>1, <1>2 DEF OwnTypeOK, ItemsStay, TakenFromOut
<1>3. ASSUME NEW t \in Threads, Numbered(t) \/ PutToIn(t) \/ TakenFromIn(t) \/ PutToOut(t)
      PROVE  OwnTypeOK'
  BY <1>0, <1>1, <1>3 DEF OwnTypeOK, Numbered, PutToIn, TakenFromIn, PutToOut
<1> QED BY <1>2, <1>3, ItemsMove

-----------------------------------------------------------------------------
\* A thread in the middle of put still carries what it puts, and one in the middle of
\* take carries nothing: only its own steps change what it carries.
LEMMA HandsNext ==
  ASSUME PipelineAssumption, PipeInv, [PipeNext]_pipeVars
  PROVE  HandsOK'
<1>0. /\ HandsOK /\ carried \in [Threads -> Nat] /\ counter \in Nat
      /\ inAt \in [Threads -> {"out", "put", "take", "wait"}]
      /\ inItem \in [Threads -> Nat] /\ outItem \in [Threads -> Nat]
      /\ outAt \in [Threads -> {"out", "put", "take", "waitFull", "waitEmpty"}]
  BY DEF PipeInv, OwnTypeOK, InInv, InTypeOK, OutInv, OutTypeOK
<1>1. CASE UNCHANGED pipeVars
  BY <1>0, <1>1 DEF pipeVars, ownVars, inVars, outVars, HandsOK
<1>2. ASSUME NEW t \in Producers, Number(t) PROVE HandsOK'
  <2>1. t \in Threads /\ t \notin Relays
    BY PipelineAssumption DEF PipelineAssumption, Threads
  <2>2. UNCHANGED <<inAt, inItem, outAt, outItem>>
    BY <1>2 DEF Number, inVars, outVars
  <2>3. inAt[t] = "out" /\ outAt[t] \notin {"put", "waitFull"}
    BY <1>0, <1>2, <2>1 DEF Number, HandsOK
  <2>4. \A u \in Threads : u # t => carried'[u] = carried[u]
    BY <1>0, <1>2 DEF Number
  <2> QED BY <1>0, <2>1, <2>2, <2>3, <2>4 DEF HandsOK
<1>3. ASSUME NEW t \in Producers, PutIn(t) PROVE HandsOK'
  <2>0. t \in Threads /\ t \notin Relays /\ UNCHANGED <<outAt, outItem>>
    BY <1>3, PipelineAssumption DEF PipelineAssumption, Threads, PutIn, outVars
  <2>1. CASE carried[t] # 0 /\ In!BeginPut(t, carried[t]) /\ UNCHANGED carried
    BY <1>0, <2>0, <2>1 DEF In!BeginPut, HandsOK
  <2>2. CASE In!put(t) /\ carried' = [carried EXCEPT ![t] = 0]
    BY <1>0, <2>0, <2>2 DEF In!put, HandsOK
  <2> QED BY <1>3, <2>1, <2>2 DEF PutIn
<1>4. ASSUME NEW t \in Relays, TakeIn(t) PROVE HandsOK'
  <2>0. t \in Threads /\ t \notin Producers /\ UNCHANGED <<outAt, outItem>>
    BY <1>4, PipelineAssumption DEF PipelineAssumption, Threads, TakeIn, outVars
  <2>1. CASE carried[t] = 0 /\ In!BeginTake(t) /\ UNCHANGED carried
    BY <1>0, <2>0, <2>1 DEF In!BeginTake, HandsOK
  <2>2. CASE (In!WaitNotEmpty(t) \/ In!WakeUp(t)) /\ UNCHANGED carried
    BY <1>0, <2>0, <2>2 DEF In!WaitNotEmpty, In!WakeUp, HandsOK
  <2>3. CASE In!take(t) /\ carried' = [carried EXCEPT ![t] = Head(inQueue)]
    <3>1. inAt[t] = "take" /\ inAt' = [inAt EXCEPT ![t] = "out"] /\ carried[t] = 0
      BY <1>0, <2>0, <2>3 DEF In!take, HandsOK
    <3>2. outAt[t] \notin {"put", "waitFull"}
      BY <1>0, <2>0, <3>1 DEF HandsOK
    <3>3. \A u \in Threads : u # t => /\ inAt'[u] = inAt[u] /\ inItem'[u] = inItem[u]
                                      /\ carried'[u] = carried[u]
      BY <1>0, <2>3 DEF In!take
    <3> QED BY <1>0, <2>0, <3>1, <3>2, <3>3 DEF HandsOK
  <2> QED BY <1>4, <2>1, <2>2, <2>3 DEF TakeIn
<1>5. ASSUME NEW t \in Relays, PutOut(t) PROVE HandsOK'
  <2>0. t \in Threads /\ t \notin Consumers /\ UNCHANGED <<inAt, inItem>>
    BY <1>5, PipelineAssumption DEF PipelineAssumption, Threads, PutOut, inVars
  <2>1. CASE carried[t] # 0 /\ Out!BeginPut(t, carried[t]) /\ UNCHANGED carried
    BY <1>0, <2>0, <2>1 DEF Out!BeginPut, HandsOK
  <2>2. CASE (Out!WaitNotFull(t) \/ Out!WakeUp(t)) /\ UNCHANGED carried
    BY <1>0, <2>0, <2>2 DEF Out!WaitNotFull, Out!WakeUp, HandsOK
  <2>3. CASE Out!put(t) /\ carried' = [carried EXCEPT ![t] = 0]
    <3>1. outAt[t] = "put" /\ outAt' = [outAt EXCEPT ![t] = "out"] /\ carried[t] # 0
          /\ UNCHANGED outItem
      BY <1>0, <2>0, <2>3 DEF Out!put, HandsOK
    <3>2. inAt[t] = "out"
      BY <1>0, <2>0, <3>1, PipelineAssumption DEF HandsOK, PipelineAssumption
    <3> QED BY <1>0, <2>0, <2>3, <3>1, <3>2 DEF HandsOK
  <2> QED BY <1>5, <2>1, <2>2, <2>3 DEF PutOut
<1>6. ASSUME NEW t \in Consumers, TakeOut(t) PROVE HandsOK'
  <2>0. t \in Threads /\ t \notin Relays /\ UNCHANGED <<inAt, inItem, carried>>
    BY <1>6, PipelineAssumption DEF PipelineAssumption, Threads, TakeOut, inVars
  <2>1. outAt[t] \notin {"put", "waitFull"}
    BY <1>0, <2>0 DEF HandsOK
  <2>2. /\ outAt'[t] \in {"out", "take", "waitEmpty"}
        /\ \A u \in Threads : u # t => outAt'[u] = outAt[u] /\ outItem'[u] = outItem[u]
    BY <1>0, <1>6, <2>0, <2>1 DEF TakeOut, Out!BeginTake, Out!WaitNotEmpty, Out!WakeUp, Out!take
  <2> QED BY <1>0, <2>0, <2>2 DEF HandsOK
<1>7. ASSUME NEW t \in Threads, WakeForNothing(t) PROVE HandsOK'
  <2>1. UNCHANGED <<carried, inAt, inItem, outAt, outItem>>
    BY <1>7 DEF WakeForNothing, In!SpuriousWakeUp, Out!SpuriousWakeUp, inVars, outVars
  <2> QED BY <1>0, <2>1 DEF HandsOK
<1> QED BY <1>1, <1>2, <1>3, <1>4, <1>5, <1>6, <1>7 DEF PipeNext, Work

-----------------------------------------------------------------------------
(***************************************************************************)
(* Counting the places of an item.                                         *)
(***************************************************************************)
IsOne(x, n) == IF x = n THEN 1 ELSE 0

Hands(f, n) == {t \in Threads : f[t] = n}

\* A sequence with one element more, and without its first.
LEMMA TimesInSeq ==
  ASSUME NEW s \in Seq(Nat), NEW n \in Nat
  PROVE  /\ Times(n, s) \in Nat
         /\ \A x \in Nat : Times(n, Append(s, x)) = Times(n, s) + IsOne(x, n)
         /\ s # <<>> => Times(n, s) = Times(n, Tail(s)) + IsOne(Head(s), n)
<1> DEFINE At(u) == {i \in DOMAIN u : u[i] = n}
<1>1. \A u \in Seq(Nat) : IsFiniteSet(At(u)) /\ Cardinality(At(u)) \in Nat /\ At(u) \subseteq 1 .. Len(u)
  <2> SUFFICES ASSUME NEW u \in Seq(Nat)
               PROVE  IsFiniteSet(At(u)) /\ Cardinality(At(u)) \in Nat /\ At(u) \subseteq 1 .. Len(u)
    OBVIOUS
  <2>1. At(u) \in SUBSET (1 .. Len(u)) /\ Len(u) \in Nat
    BY LenProperties
  <2>2. IsFiniteSet(1 .. Len(u))
    BY <2>1, FS_Interval
  <2> QED BY <2>1, <2>2, FS_Subset, FS_CardinalityType
<1>2. \A u : Times(n, u) = Cardinality(At(u))
  BY DEF Times
<1>3. Len(s) \in Nat /\ DOMAIN s = 1 .. Len(s)
  BY LenProperties
<1>4. ASSUME NEW x \in Nat PROVE Times(n, Append(s, x)) = Times(n, s) + IsOne(x, n)
  <2>1. /\ DOMAIN Append(s, x) = 1 .. Len(s) + 1
        /\ \A i \in 1 .. Len(s) : Append(s, x)[i] = s[i]
        /\ Append(s, x)[Len(s) + 1] = x
    BY AppendProperties, LenProperties
  <2>2. At(Append(s, x)) = IF x = n THEN At(s) \cup {Len(s) + 1} ELSE At(s)
    BY <1>3, <2>1
  <2>3. Len(s) + 1 \notin At(s)
    BY <1>3
  <2> HIDE DEF At
  <2> QED BY <1>1, <1>2, <2>2, <2>3, FS_AddElement DEF IsOne
<1>5. ASSUME s # <<>> PROVE Times(n, s) = Times(n, Tail(s)) + IsOne(Head(s), n)
  <2>1. /\ Len(s) >= 1 /\ DOMAIN Tail(s) = 1 .. Len(s) - 1 /\ Head(s) = s[1] /\ Tail(s) \in Seq(Nat)
        /\ \A i \in 1 .. Len(s) - 1 : Tail(s)[i] = s[i + 1]
    BY <1>3, <1>5, HeadTailProperties, EmptySeq, LenProperties
  <2> DEFINE Later == {i \in 2 .. Len(s) : s[i] = n}
  <2>2. At(s) = (IF Head(s) = n THEN Later \cup {1} ELSE Later) /\ 1 \notin Later
    BY <1>3, <2>1
  <2>3. IsFiniteSet(Later) /\ Cardinality(Later) = Cardinality(At(Tail(s)))
    <3> DEFINE up == [i \in At(Tail(s)) |-> i + 1]
    <3>1. \A i \in At(Tail(s)) : i \in 1 .. Len(s) - 1 /\ s[i + 1] = n
      BY <2>1
    <3>2. up \in [At(Tail(s)) -> Later]
      BY <1>3, <3>1
    <3>3. \A i, j \in At(Tail(s)) : up[i] = up[j] => i = j
      BY <3>1
    <3>4. \A k \in Later : k - 1 \in At(Tail(s)) /\ up[k - 1] = k
      BY <1>3, <2>1
    <3>5. up \in Bijection(At(Tail(s)), Later)
      <4> HIDE DEF up, Later, At
      <4> QED BY <3>2, <3>3, <3>4 DEF Bijection, Injection, Surjection, IsInjective
    <3>6. ExistsBijection(At(Tail(s)), Later)
      BY <3>5 DEF ExistsBijection
    <3> HIDE DEF up, Later, At
    <3> QED BY <1>1, <2>1, <3>6, FS_Bijection
  <2> HIDE DEF At, Later
  <2> QED BY <1>1, <1>2, <2>1, <2>2, <2>3, FS_AddElement, FS_CardinalityType DEF IsOne
<1> QED BY <1>1, <1>2, <1>4, <1>5

\* A thread has something else in hand.
LEMMA HandMoves ==
  ASSUME IsFiniteSet(Threads), NEW f \in [Threads -> Nat], NEW g \in [Threads -> Nat],
         NEW t \in Threads, \A u \in Threads : u # t => g[u] = f[u], NEW n \in Nat
  PROVE  /\ Cardinality(Hands(f, n)) \in Nat /\ Cardinality(Hands(g, n)) \in Nat
         /\ Cardinality(Hands(g, n)) + IsOne(f[t], n) = Cardinality(Hands(f, n)) + IsOne(g[t], n)
<1> DEFINE rest == Hands(f, n) \ {t}
<1>1. /\ Hands(f, n) = IF f[t] = n THEN rest \cup {t} ELSE rest
      /\ Hands(g, n) = IF g[t] = n THEN rest \cup {t} ELSE rest
      /\ rest \in SUBSET Threads /\ t \in Threads \ rest
  BY DEF Hands
<1> HIDE DEF rest
<1>2. Cardinality(rest) \in Nat /\ Cardinality(rest \cup {t}) = Cardinality(rest) + 1
  BY <1>1, CountThreads
<1> QED BY <1>1, <1>2 DEF IsOne

\* The places of item n: in a hand, in either queue, or received.
Places(n, f, p, q, r) == Cardinality(Hands(f, n)) + Times(n, p) + Times(n, q) + Times(n, r)

\* What is moved leaves one place for another; what is numbered comes to one.
LEMMA PlacesMove ==
  ASSUME IsFiniteSet(Threads), carried \in [Threads -> Nat], NEW t \in Threads,
         inQueue \in Seq(Nat), outQueue \in Seq(Nat), received \in Seq(Nat),
         NEW n \in Nat, n # 0
  PROVE  /\ carried[t] = 0 => \A x \in Nat :
              Places(n, [carried EXCEPT ![t] = x], inQueue, outQueue, received) =
                Places(n, carried, inQueue, outQueue, received) + IsOne(x, n)
         /\ Places(n, [carried EXCEPT ![t] = 0], Append(inQueue, carried[t]), outQueue, received) =
              Places(n, carried, inQueue, outQueue, received)
         /\ Places(n, [carried EXCEPT ![t] = 0], inQueue, Append(outQueue, carried[t]), received) =
              Places(n, carried, inQueue, outQueue, received)
         /\ carried[t] = 0 /\ inQueue # <<>> =>
              Places(n, [carried EXCEPT ![t] = Head(inQueue)], Tail(inQueue), outQueue, received) =
                Places(n, carried, inQueue, outQueue, received)
<1> DEFINE h == Cardinality(Hands(carried, n))
           a == Times(n, inQueue)
           b == Times(n, outQueue)
           c == Times(n, received)
           one == IsOne(carried[t], n)
<1>1. a \in Nat /\ b \in Nat /\ c \in Nat
  BY TimesInSeq
<1>2. h \in Nat
  BY CountThreads DEF Hands
<1>3. Places(n, carried, inQueue, outQueue, received) = h + a + b + c
  BY DEF Places
<1>4. ASSUME NEW x \in Nat
      PROVE  \E k \in Nat : /\ Cardinality(Hands([carried EXCEPT ![t] = x], n)) = k
                            /\ k + one = h + IsOne(x, n)
  <2> DEFINE g == [carried EXCEPT ![t] = x]
  <2>1. g \in [Threads -> Nat]
    OBVIOUS
  <2>2. g[t] = x /\ \A u \in Threads : u # t => g[u] = carried[u]
    OBVIOUS
  <2> HIDE DEF g
  <2>3. /\ Cardinality(Hands(g, n)) \in Nat
        /\ Cardinality(Hands(g, n)) + IsOne(carried[t], n) = h + IsOne(g[t], n)
    BY <2>1, <2>2, HandMoves
  <2>4. \E k \in Nat : Cardinality(Hands(g, n)) = k /\ k + one = h + IsOne(x, n)
    BY <2>2, <2>3
  <2> QED BY <2>4 DEF g
<1>5. /\ Times(n, Append(inQueue, carried[t])) = a + one
      /\ Times(n, Append(outQueue, carried[t])) = b + one
  BY TimesInSeq, ZenonT(30)
<1>6. one \in Nat /\ (carried[t] = 0 => one = 0)
  BY DEF IsOne
<1>7. ASSUME carried[t] = 0, NEW x \in Nat
      PROVE  Places(n, [carried EXCEPT ![t] = x], inQueue, outQueue, received) =
               h + a + b + c + IsOne(x, n)
  <2> DEFINE new == IsOne(x, n)
  <2>1. PICK k \in Nat : /\ Cardinality(Hands([carried EXCEPT ![t] = x], n)) = k
                         /\ k + one = h + new
    BY <1>4
  <2>2. Places(n, [carried EXCEPT ![t] = x], inQueue, outQueue, received) = k + a + b + c
    BY <2>1 DEF Places
  <2>3. new \in Nat
    BY DEF IsOne
  <2> HIDE DEF h, a, b, c, one, new
  <2>4. k = h + new
    BY <1>2, <1>6, <1>7, <2>1, <2>3
  <2>5. k + a + b + c = h + a + b + c + new
    BY <1>1, <1>2, <2>3, <2>4
  <2> QED BY <2>2, <2>5 DEF new
<1>8. PICK k \in Nat : /\ Cardinality(Hands([carried EXCEPT ![t] = 0], n)) = k
                       /\ k + one = h
  <2>1. IsOne(0, n) = 0
    BY DEF IsOne
  <2>2. PICK k \in Nat : /\ Cardinality(Hands([carried EXCEPT ![t] = 0], n)) = k
                         /\ k + one = h + IsOne(0, n)
    BY <1>4
  <2> HIDE DEF h, one
  <2>3. k + one = h
    BY <1>2, <2>1, <2>2
  <2> QED BY <2>2, <2>3
<1>9. Places(n, [carried EXCEPT ![t] = 0], Append(inQueue, carried[t]), outQueue, received) =
        h + a + b + c
  <2>1. Places(n, [carried EXCEPT ![t] = 0], Append(inQueue, carried[t]), outQueue, received) =
          k + (a + one) + b + c
    BY <1>5, <1>8 DEF Places
  <2> HIDE DEF h, a, b, c, one
  <2>2. k + (a + one) + b + c = h + a + b + c
    BY <1>1, <1>2, <1>6, <1>8
  <2> QED BY <2>1, <2>2
<1>10. Places(n, [carried EXCEPT ![t] = 0], inQueue, Append(outQueue, carried[t]), received) =
         h + a + b + c
  <2>1. Places(n, [carried EXCEPT ![t] = 0], inQueue, Append(outQueue, carried[t]), received) =
          k + a + (b + one) + c
    BY <1>5, <1>8 DEF Places
  <2> HIDE DEF h, a, b, c, one
  <2>2. k + a + (b + one) + c = h + a + b + c
    BY <1>1, <1>2, <1>6, <1>8
  <2> QED BY <2>1, <2>2
<1>11. ASSUME carried[t] = 0, inQueue # <<>>
       PROVE  Places(n, [carried EXCEPT ![t] = Head(inQueue)], Tail(inQueue), outQueue, received) =
                h + a + b + c
  <2> DEFINE new == IsOne(Head(inQueue), n)
             rest == Times(n, Tail(inQueue))
  <2>1. Head(inQueue) \in Nat /\ Tail(inQueue) \in Seq(Nat)
    BY <1>11, QueueTypes
  <2>2. rest \in Nat /\ a = rest + new
    BY <1>11, <2>1, TimesInSeq
  <2>3. PICK m \in Nat : /\ Cardinality(Hands([carried EXCEPT ![t] = Head(inQueue)], n)) = m
                         /\ m + one = h + new
    BY <1>4, <2>1
  <2>4. Places(n, [carried EXCEPT ![t] = Head(inQueue)], Tail(inQueue), outQueue, received) =
          m + rest + b + c
    BY <2>3 DEF Places
  <2>5. new \in Nat
    BY DEF IsOne
  <2> HIDE DEF h, a, b, c, one, new, rest
  <2>6. m = h + new
    BY <1>2, <1>6, <1>11, <2>3, <2>5
  <2>7. m + rest + b + c = h + a + b + c
    BY <1>1, <1>2, <2>2, <2>5, <2>6
  <2> QED BY <2>4, <2>7
<1> HIDE DEF h, a, b, c
<1> QED BY <1>3, <1>7, <1>9, <1>10, <1>11

LEMMA PlacesTaken ==
  ASSUME IsFiniteSet(Threads), carried \in [Threads -> Nat], inQueue \in Seq(Nat),
         outQueue \in Seq(Nat), received \in Seq(Nat), NEW n \in Nat, outQueue # <<>>
  PROVE  Places(n, carried, inQueue, Tail(outQueue), Append(received, Head(outQueue))) =
           Places(n, carried, inQueue, outQueue, received)
<1> DEFINE h == Cardinality(Hands(carried, n))
           a == Times(n, inQueue)
           c == Times(n, received)
           rest == Times(n, Tail(outQueue))
           one == IsOne(Head(outQueue), n)
<1>1. a \in Nat /\ c \in Nat
  BY TimesInSeq
<1>2. h \in Nat
  BY CountThreads DEF Hands
<1>3. Head(outQueue) \in Nat /\ Tail(outQueue) \in Seq(Nat)
  BY QueueTypes
<1>4. rest \in Nat /\ Times(n, outQueue) = rest + one
  BY <1>3, TimesInSeq
<1>5. Times(n, Append(received, Head(outQueue))) = c + one
  BY <1>3, TimesInSeq
<1>6. /\ Places(n, carried, inQueue, Tail(outQueue), Append(received, Head(outQueue))) =
           h + a + rest + (c + one)
      /\ Places(n, carried, inQueue, outQueue, received) = h + a + (rest + one) + c
  BY <1>4, <1>5 DEF Places
<1>7. one \in Nat
  BY DEF IsOne
<1> HIDE DEF h, a, c, rest, one
<1>8. h + a + rest + (c + one) = h + a + (rest + one) + c
  BY <1>1, <1>2, <1>4, <1>7
<1> QED BY <1>6, <1>8

LEMMA OnePlaceNext ==
  ASSUME PipelineAssumption, PipeInv, [PipeNext]_pipeVars
  PROVE  OnePlace'
<1>1. /\ carried \in [Threads -> Nat] /\ counter \in Nat /\ received \in Seq(Nat)
      /\ inQueue \in Seq(Nat) /\ outQueue \in Seq(Nat) /\ IsFiniteSet(Threads)
  BY DEF PipeInv, OwnTypeOK, InInv, InTypeOK, OutInv, OutTypeOK, PipelineAssumption
<1> SUFFICES ASSUME NEW n \in 1 .. MaxItems
             PROVE  Places(n, carried', inQueue', outQueue', received') =
                      IF n <= counter' THEN 1 ELSE 0
  BY DEF OnePlace, Places, Hands
<1>2. Places(n, carried, inQueue, outQueue, received) = IF n <= counter THEN 1 ELSE 0
  BY DEF PipeInv, OnePlace, Places, Hands
<1>3. n \in Nat /\ n # 0
  BY PipelineAssumption DEF PipelineAssumption
<1>4. CASE ItemsStay
  BY <1>2, <1>4 DEF ItemsStay
<1>5. CASE TakenFromOut
  <2>1. Places(n, carried, inQueue, Tail(outQueue), Append(received, Head(outQueue))) =
          Places(n, carried, inQueue, outQueue, received)
    BY <1>1, <1>3, <1>5, PlacesTaken DEF TakenFromOut
  <2> QED BY <1>2, <1>5, <2>1 DEF TakenFromOut
<1>6. ASSUME NEW t \in Threads, Numbered(t)
      PROVE  Places(n, carried', inQueue', outQueue', received') =
               IF n <= counter' THEN 1 ELSE 0
  <2>1. carried[t] = 0 /\ counter + 1 \in Nat
    BY <1>1, <1>6 DEF Numbered
  <2>2. Places(n, [carried EXCEPT ![t] = counter + 1], inQueue, outQueue, received) =
          Places(n, carried, inQueue, outQueue, received) + IsOne(counter + 1, n)
    BY <1>1, <1>3, <2>1, PlacesMove
  <2>3. (IF n <= counter THEN 1 ELSE 0) + IsOne(counter + 1, n) = IF n <= counter + 1 THEN 1 ELSE 0
    BY <1>1, <1>3 DEF IsOne
  <2> QED BY <1>2, <1>6, <2>2, <2>3 DEF Numbered
<1>7. ASSUME NEW t \in Threads, PutToIn(t)
      PROVE  Places(n, carried', inQueue', outQueue', received') =
               IF n <= counter' THEN 1 ELSE 0
  <2>1. Places(n, [carried EXCEPT ![t] = 0], Append(inQueue, carried[t]), outQueue, received) =
          Places(n, carried, inQueue, outQueue, received)
    BY <1>1, <1>3, PlacesMove
  <2> QED BY <1>2, <1>7, <2>1 DEF PutToIn
<1>8. ASSUME NEW t \in Threads, PutToOut(t)
      PROVE  Places(n, carried', inQueue', outQueue', received') =
               IF n <= counter' THEN 1 ELSE 0
  <2>1. Places(n, [carried EXCEPT ![t] = 0], inQueue, Append(outQueue, carried[t]), received) =
          Places(n, carried, inQueue, outQueue, received)
    BY <1>1, <1>3, PlacesMove
  <2> QED BY <1>2, <1>8, <2>1 DEF PutToOut
<1>9. ASSUME NEW t \in Threads, TakenFromIn(t)
      PROVE  Places(n, carried', inQueue', outQueue', received') =
               IF n <= counter' THEN 1 ELSE 0
  <2>1. carried[t] = 0 /\ inQueue # <<>>
    BY <1>9 DEF TakenFromIn
  <2>2. Places(n, [carried EXCEPT ![t] = Head(inQueue)], Tail(inQueue), outQueue, received) =
          Places(n, carried, inQueue, outQueue, received)
    BY <1>1, <1>3, <2>1, PlacesMove
  <2> QED BY <1>2, <1>9, <2>2 DEF TakenFromIn
<1> QED BY <1>4, <1>5, <1>6, <1>7, <1>8, <1>9, ItemsMove

-----------------------------------------------------------------------------
LEMMA PipeInitInv == ASSUME PipelineAssumption, PipeInit PROVE PipeInv
<1>1. InInv
  <2>1. InTypeOK /\ inNotEmpty = {} /\ inMutex = [owner |-> NoThread, holder |-> NoThread]
    BY DEF PipeInit, In!QueueInit, In!Free, InTypeOK, Holders
  <2>2. In!MutexKept
    BY <2>1 DEF PipeInit, In!QueueInit, In!MutexKept, In!isLockedByThisThread, PipelineAssumption
  <2> QED BY <2>1, <2>2 DEF InInv, In!NoLostWakeup
<1>2. OutInv
  <2>1. /\ OutTypeOK /\ outNotEmpty = {} /\ outNotFull = {}
        /\ outMutex = [owner |-> NoThread, holder |-> NoThread]
    BY DEF PipeInit, Out!QueueInit, Out!Free, OutTypeOK, Holders
  <2>2. Out!MutexKept
    BY <2>1 DEF PipeInit, Out!QueueInit, Out!MutexKept, Out!isLockedByThisThread, PipelineAssumption
  <2> QED BY <2>1, <2>2 DEF OutInv, Out!NoLostWakeup
<1>3. OwnTypeOK /\ HandsOK
  BY DEF PipeInit, In!QueueInit, Out!QueueInit, OwnTypeOK, HandsOK
<1>4. OnePlace
  <2> SUFFICES ASSUME NEW n \in 1 .. MaxItems
               PROVE  Cardinality({t \in Threads : carried[t] = n}) + Times(n, inQueue)
                        + Times(n, outQueue) + Times(n, received) = (IF n <= counter THEN 1 ELSE 0)
    BY DEF OnePlace
  <2>1. n \in Nat /\ n # 0 /\ ~(n <= counter)
    BY DEF PipeInit, PipelineAssumption
  <2>2. {t \in Threads : carried[t] = n} = {}
    BY <2>1 DEF PipeInit
  <2>3. Times(n, <<>>) = 0
    <3>1. {i \in DOMAIN <<>> : <<>>[i] = n} = {}
      OBVIOUS
    <3> QED BY <3>1, FS_EmptySet DEF Times
  <2>4. inQueue = <<>> /\ outQueue = <<>> /\ received = <<>>
    BY DEF PipeInit, In!QueueInit, Out!QueueInit
  <2>5. Cardinality({t \in Threads : carried[t] = n}) = 0
    BY <2>2, FS_EmptySet
  <2> QED BY <2>1, <2>3, <2>4, <2>5
<1> QED BY <1>1, <1>2, <1>3, <1>4 DEF PipeInv

LEMMA PipeInvariant == PipeSpec => []PipeInv
<1>1. PipeInv /\ [PipeNext]_pipeVars => PipeInv'
  BY PipelineAssumption, QueuesNext, OwnTypesNext, HandsNext, OnePlaceNext DEF PipeInv
<1> QED BY <1>1, PipelineAssumption, PipeInitInv, PTL DEF PipeSpec

-----------------------------------------------------------------------------
\* However many threads use either queue, whoever is inside owns the mutex, alone, and
\* holder_ says so: isLockedByThisThread is right also after a wait.
THEOREM QueueMutexesKept == PipeSpec => []HoldersRight
<1>1. PipeInv => HoldersRight
  BY DEF PipeInv, InInv, OutInv, HoldersRight
<1> QED BY <1>1, PipeInvariant, PTL

\* notify() wakes one, but enough: while anybody sleeps in take or put, somebody is on
\* the way for each element there is and for each free place, spurious wakeups or not.
THEOREM QueuesForgetNobody == PipeSpec => []NobodyForgotten
<1>1. PipeInv => NobodyForgotten
  BY DEF PipeInv, InInv, OutInv, NobodyForgotten
<1> QED BY <1>1, PipeInvariant, PTL

\* An item that was numbered is in one place, a hand, a queue or with its consumer,
\* and in that one once, for any number of threads and places.
THEOREM ItemsInOnePlace == PipeSpec => []OnePlace
<1>1. PipeInv => OnePlace
  BY DEF PipeInv
<1> QED BY <1>1, PipeInvariant, PTL
=============================================================================
