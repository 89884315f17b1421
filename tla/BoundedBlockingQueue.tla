------------------------ MODULE BoundedBlockingQueue ------------------------
(***************************************************************************)
(* muduo's BoundedBlockingQueue (BoundedBlockingQueue.h): put waits for    *)
(* room and take for an element, on two conditions of one mutex.  Steps as *)
(* in BlockingQueue.                                                       *)
(***************************************************************************)
EXTENDS Naturals, Sequences, FiniteSets, Mutex

CONSTANTS Threads, Capacity   \* capacity is at least 1

VARIABLES
  mutex,      \* mutex_
  notEmpty,   \* threads that wait for notEmpty_
  notFull,    \* threads that wait for notFull_
  queue,      \* queue_, a boost::circular_buffer
  at,         \* where each thread is: "out", "put", "take", "waitFull", "waitEmpty"
  item        \* what each thread puts, or has taken

queueVars == <<mutex, notEmpty, notFull, queue, at, item>>

QueueInit(noItem) ==
  /\ mutex = Free
  /\ notEmpty = {}
  /\ notFull = {}
  /\ queue = <<>>
  /\ at = [t \in Threads |-> "out"]
  /\ item = [t \in Threads |-> noItem]

full == Len(queue) = Capacity

\* push_back on a circular_buffer that is full overwrites the first element.
PushedBack(x) == IF full THEN Append(Tail(queue), x) ELSE Append(queue, x)

-----------------------------------------------------------------------------
BeginPut(t, x) ==
  /\ at[t] = "out"
  /\ CanLock(mutex)
  /\ mutex' = lock(mutex, t)
  /\ at' = [at EXCEPT ![t] = "put"]
  /\ item' = [item EXCEPT ![t] = x]
  /\ UNCHANGED <<notEmpty, notFull, queue>>

BeginTake(t) ==
  /\ at[t] = "out"
  /\ CanLock(mutex)
  /\ mutex' = lock(mutex, t)
  /\ at' = [at EXCEPT ![t] = "take"]
  /\ UNCHANGED <<notEmpty, notFull, queue, item>>

WaitNotFull(t) ==
  /\ at[t] = "put"
  /\ full
  /\ notFull' = notFull \cup {t}
  /\ mutex' = Waiting(mutex)
  /\ at' = [at EXCEPT ![t] = "waitFull"]
  /\ UNCHANGED <<notEmpty, queue, item>>

put(t) ==
  /\ at[t] = "put"
  /\ ~full
  /\ queue' = PushedBack(item[t])
  /\ notEmpty' \in notify(notEmpty)
  /\ mutex' = unlock(mutex)
  /\ at' = [at EXCEPT ![t] = "out"]
  /\ UNCHANGED <<notFull, item>>

WaitNotEmpty(t) ==
  /\ at[t] = "take"
  /\ queue = <<>>
  /\ notEmpty' = notEmpty \cup {t}
  /\ mutex' = Waiting(mutex)
  /\ at' = [at EXCEPT ![t] = "waitEmpty"]
  /\ UNCHANGED <<notFull, queue, item>>

\* The mutant tells nobody that there is room again.
takeTellsNobody(t) ==
  /\ at[t] = "take"
  /\ queue # <<>>
  /\ item' = [item EXCEPT ![t] = Head(queue)]
  /\ queue' = Tail(queue)
  /\ mutex' = unlock(mutex)
  /\ at' = [at EXCEPT ![t] = "out"]
  /\ UNCHANGED <<notEmpty, notFull>>

take(t) ==
  /\ at[t] = "take"
  /\ queue # <<>>
  /\ item' = [item EXCEPT ![t] = Head(queue)]
  /\ queue' = Tail(queue)
  /\ notFull' \in notify(notFull)
  /\ mutex' = unlock(mutex)
  /\ at' = [at EXCEPT ![t] = "out"]
  /\ UNCHANGED notEmpty

\* The mutant takes a notification for a promise: if, where the code has while.
WakeUpAndPut(t) ==
  /\ at[t] = "waitFull"
  /\ t \notin notFull
  /\ CanLock(mutex)
  /\ queue' = PushedBack(item[t])
  /\ notEmpty' \in notify(notEmpty)
  /\ at' = [at EXCEPT ![t] = "out"]
  /\ UNCHANGED <<mutex, notFull, item>>

WakeUp(t) ==
  /\ t \notin notFull \cup notEmpty
  /\ at[t] \in {"waitFull", "waitEmpty"}
  /\ CanLock(mutex)
  /\ mutex' = Woken(mutex, t)
  /\ at' = [at EXCEPT ![t] = IF at[t] = "waitFull" THEN "put" ELSE "take"]
  /\ UNCHANGED <<notEmpty, notFull, queue, item>>

SpuriousWakeUp(t) ==
  /\ t \in notFull \cup notEmpty
  /\ notFull' = notFull \ {t}
  /\ notEmpty' = notEmpty \ {t}
  /\ UNCHANGED <<mutex, queue, at, item>>

-----------------------------------------------------------------------------
MutexKept ==
  /\ mutex.holder = mutex.owner
  /\ \A t \in Threads : at[t] \in {"put", "take"} <=> isLockedByThisThread(mutex, t)
  /\ notFull \subseteq {t \in Threads : at[t] = "waitFull"}
  /\ notEmpty \subseteq {t \in Threads : at[t] = "waitEmpty"}

LookingForRoom ==
  {t \in Threads : at[t] = "put" \/ (at[t] = "waitFull" /\ t \notin notFull)}

LookingForElements ==
  {t \in Threads : at[t] = "take" \/ (at[t] = "waitEmpty" /\ t \notin notEmpty)}

\* While anybody waits for an element, somebody is on the way for each there
\* is; while anybody waits for room, for each free place.
NoLostWakeup ==
  /\ notEmpty # {} => Len(queue) <= Cardinality(LookingForElements)
  /\ notFull # {} => Capacity - Len(queue) <= Cardinality(LookingForRoom)
=============================================================================
