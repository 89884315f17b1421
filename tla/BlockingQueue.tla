--------------------------- MODULE BlockingQueue ---------------------------
(***************************************************************************)
(* muduo's BlockingQueue (BlockingQueue.h): put never waits, take waits    *)
(* for an element.  A step is what a thread does between two points where  *)
(* another one can run: getting the mutex, and the rest up to giving it    *)
(* up by returning or by waiting.                                          *)
(***************************************************************************)
EXTENDS Naturals, Sequences, FiniteSets, Mutex

CONSTANT Threads

VARIABLES
  mutex,      \* mutex_
  notEmpty,   \* threads that wait for notEmpty_
  queue,      \* queue_
  at,         \* where each thread is: "out", "put", "take" or "wait"
  item        \* what each thread puts, or has taken

queueVars == <<mutex, notEmpty, queue, at, item>>

QueueInit(noItem) ==
  /\ mutex = Free
  /\ notEmpty = {}
  /\ queue = <<>>
  /\ at = [t \in Threads |-> "out"]
  /\ item = [t \in Threads |-> noItem]

-----------------------------------------------------------------------------
\* A mutex is free: thread t enters put(x) or take().
BeginPut(t, x) ==
  /\ at[t] = "out"
  /\ CanLock(mutex)
  /\ mutex' = lock(mutex, t)
  /\ at' = [at EXCEPT ![t] = "put"]
  /\ item' = [item EXCEPT ![t] = x]
  /\ UNCHANGED <<notEmpty, queue>>

BeginTake(t) ==
  /\ at[t] = "out"
  /\ CanLock(mutex)
  /\ mutex' = lock(mutex, t)
  /\ at' = [at EXCEPT ![t] = "take"]
  /\ UNCHANGED <<notEmpty, queue, item>>

\* push_back and notify; the mutant notifies only when the queue was empty.
PushNotifyFirst(t) ==
  /\ queue' = Append(queue, item[t])
  /\ IF queue = <<>> THEN notEmpty' \in notify(notEmpty) ELSE UNCHANGED notEmpty

Push(t) ==
  /\ queue' = Append(queue, item[t])
  /\ notEmpty' \in notify(notEmpty)

put(t) ==
  /\ at[t] = "put"
  /\ Push(t)
  /\ mutex' = unlock(mutex)
  /\ at' = [at EXCEPT ![t] = "out"]
  /\ UNCHANGED item

\* The loop of take(): wait as long as there is nothing.
WaitNotEmpty(t) ==
  /\ at[t] = "take"
  /\ queue = <<>>
  /\ notEmpty' = notEmpty \cup {t}
  /\ mutex' = Waiting(mutex)
  /\ at' = [at EXCEPT ![t] = "wait"]
  /\ UNCHANGED <<queue, item>>

take(t) ==
  /\ at[t] = "take"
  /\ queue # <<>>
  /\ item' = [item EXCEPT ![t] = Head(queue)]
  /\ queue' = Tail(queue)
  /\ mutex' = unlock(mutex)
  /\ at' = [at EXCEPT ![t] = "out"]
  /\ UNCHANGED notEmpty

\* A thread that was notified gets the mutex back and looks again.
WakeUp(t) ==
  /\ at[t] = "wait"
  /\ t \notin notEmpty
  /\ CanLock(mutex)
  /\ mutex' = Woken(mutex, t)
  /\ at' = [at EXCEPT ![t] = "take"]
  /\ UNCHANGED <<notEmpty, queue, item>>

SpuriousWakeUp(t) ==
  /\ t \in notEmpty
  /\ notEmpty' = notEmpty \ {t}
  /\ UNCHANGED <<mutex, queue, at, item>>

-----------------------------------------------------------------------------
\* Whoever is inside owns the mutex, alone, and holder_ knows it.
MutexKept ==
  /\ mutex.holder = mutex.owner
  /\ \A t \in Threads : at[t] \in {"put", "take"} <=> isLockedByThisThread(mutex, t)
  /\ notEmpty \subseteq {t \in Threads : at[t] = "wait"}

\* Threads that will look at the queue before they wait again.
Looking == {t \in Threads : at[t] = "take" \/ (at[t] = "wait" /\ t \notin notEmpty)}

\* While anybody waits, there is somebody on the way for each element.
NoLostWakeup == notEmpty # {} => Len(queue) <= Cardinality(Looking)
=============================================================================
