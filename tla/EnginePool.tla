----------------------------- MODULE EnginePool -----------------------------
(***************************************************************************)
(* The pool of face engines of ARCFaceEngines (arcfaceengines.cpp): a      *)
(* counting semaphore, a mutex and a stack of engine indices.  A thread    *)
(* takes an index with popEngineIndex(), works with engines[index] and     *)
(* gives it back with pushEngineIndex().  The two methods are split at     *)
(* every point where another thread can run: the semaphore, the mutex, and *)
(* between top() and pop().                                                *)
(***************************************************************************)
EXTENDS Naturals, Sequences, FiniteSets

CONSTANTS
  Threads,    \* the IO threads that run message handlers
  CMAX_NUM,   \* number of engines, #define CMAX_NUM
  SEM_COUNT,  \* initial value of the semaphore, sem(10)
  Nobody      \* the mutex has no holder; a thread has no engine

\* The two tens of the source (CMAX_NUM and sem(10)) are written apart; the
\* pool only needs that the semaphore admits no more threads than engines.
ASSUME PoolAssumption ==
  /\ IsFiniteSet(Threads)
  /\ Threads # {}
  /\ CMAX_NUM \in Nat
  /\ SEM_COUNT \in 1 .. CMAX_NUM
  /\ Nobody \notin Threads
  /\ Nobody \notin Nat

Engines == 0 .. CMAX_NUM - 1

VARIABLES
  sem,             \* QSemaphore: what is available
  mutex,           \* QMutex: its holder or Nobody
  Enginespoll,     \* stack<int>, the top is the last element
  poolState,       \* where each thread is in popEngineIndex / pushEngineIndex
  curEngineIndex   \* the local of the same name, Nobody when out of scope

poolVars == <<sem, mutex, Enginespoll, poolState, curEngineIndex>>

PoolStates ==
  {"out", "admitted", "reading", "popping", "using", "pushing", "leaving"}

Top(s) == s[Len(s)]
Pop(s) == SubSeq(s, 1, Len(s) - 1)

(***************************************************************************)
(* ARCFaceEngines::startEngines has pushed 0 .. CMAX_NUM - 1, whatever     *)
(* InitEngine returned, before the server is started.                      *)
(***************************************************************************)
PoolInit ==
  /\ sem = SEM_COUNT
  /\ mutex = Nobody
  /\ Enginespoll = [i \in 1 .. CMAX_NUM |-> i - 1]
  /\ poolState = [t \in Threads |-> "out"]
  /\ curEngineIndex = [t \in Threads |-> Nobody]

\* A new process does the same again.
PoolRestart ==
  /\ sem' = SEM_COUNT
  /\ mutex' = Nobody
  /\ Enginespoll' = [i \in 1 .. CMAX_NUM |-> i - 1]
  /\ poolState' = [t \in Threads |-> "out"]
  /\ curEngineIndex' = [t \in Threads |-> Nobody]

Move(t, from, to) ==
  /\ poolState[t] = from
  /\ poolState' = [poolState EXCEPT ![t] = to]

LockMutex(t) ==
  /\ mutex = Nobody
  /\ mutex' = t

UnlockMutex == mutex' = Nobody

\* popEngineIndex: sem.acquire(1), and a mutant that forgets it.
AcquireForgotten(t) ==
  /\ Move(t, "out", "admitted")
  /\ UNCHANGED <<sem, mutex, Enginespoll, curEngineIndex>>

Acquire(t) ==
  /\ Move(t, "out", "admitted")
  /\ sem > 0
  /\ sem' = sem - 1
  /\ UNCHANGED <<mutex, Enginespoll, curEngineIndex>>

\* popEngineIndex: mutex.lock(), and a mutant that forgets it.
LockForPopForgotten(t) ==
  /\ Move(t, "admitted", "reading")
  /\ UNCHANGED <<sem, mutex, Enginespoll, curEngineIndex>>

LockForPop(t) ==
  /\ Move(t, "admitted", "reading")
  /\ LockMutex(t)
  /\ UNCHANGED <<sem, Enginespoll, curEngineIndex>>

\* popEngineIndex: curEngineIndex = Enginespoll.top(), defined on a non-empty
\* stack only (TopIsDefined says that it always is).
ReadTop(t) ==
  /\ Move(t, "reading", "popping")
  /\ Enginespoll # <<>>
  /\ curEngineIndex' = [curEngineIndex EXCEPT ![t] = Top(Enginespoll)]
  /\ UNCHANGED <<sem, mutex, Enginespoll>>

\* popEngineIndex: Enginespoll.pop(); mutex.unlock()
PopTop(t) ==
  /\ Move(t, "popping", "using")
  /\ Enginespoll # <<>>
  /\ Enginespoll' = Pop(Enginespoll)
  /\ UnlockMutex
  /\ UNCHANGED <<sem, curEngineIndex>>

\* pushEngineIndex: mutex.lock(), and a mutant that forgets it.
LockForPushForgotten(t) ==
  /\ Move(t, "using", "pushing")
  /\ UNCHANGED <<sem, mutex, Enginespoll, curEngineIndex>>

LockForPush(t) ==
  /\ Move(t, "using", "pushing")
  /\ LockMutex(t)
  /\ UNCHANGED <<sem, Enginespoll, curEngineIndex>>

\* pushEngineIndex: Enginespoll.push(curEngineIndex); mutex.unlock(); and a mutant
\* in which the pool is a queue.
PushIndexLast(t) ==
  /\ Move(t, "pushing", "leaving")
  /\ Enginespoll' = <<curEngineIndex[t]>> \o Enginespoll
  /\ curEngineIndex' = [curEngineIndex EXCEPT ![t] = Nobody]
  /\ UnlockMutex
  /\ UNCHANGED sem

PushIndex(t) ==
  /\ Move(t, "pushing", "leaving")
  /\ Enginespoll' = Append(Enginespoll, curEngineIndex[t])
  /\ curEngineIndex' = [curEngineIndex EXCEPT ![t] = Nobody]
  /\ UnlockMutex
  /\ UNCHANGED sem

\* pushEngineIndex: sem.release(1)
Release(t) ==
  /\ Move(t, "leaving", "out")
  /\ sem' = sem + 1
  /\ UNCHANGED <<mutex, Enginespoll, curEngineIndex>>

popEngineIndex(t) == Acquire(t) \/ LockForPop(t) \/ ReadTop(t) \/ PopTop(t)

pushEngineIndex(t) == LockForPush(t) \/ PushIndex(t) \/ Release(t)

PoolNext == \E t \in Threads : popEngineIndex(t) \/ pushEngineIndex(t)

PoolSpec == PoolInit /\ [][PoolNext]_poolVars

-----------------------------------------------------------------------------
In(states) == {t \in Threads : poolState[t] \in states}

\* The threads that have an engine between pop() and push().
Users == In({"using", "pushing"})

\* Types of the pool's variables.
PoolTypeOK ==
  /\ sem \in 0 .. SEM_COUNT
  /\ mutex \in Threads \cup {Nobody}
  /\ Enginespoll \in Seq(Engines)
  /\ poolState \in [Threads -> PoolStates]
  /\ curEngineIndex \in [Threads -> Engines \cup {Nobody}]

\* An ARCFaceEngine is not thread safe: no two threads ever work with the same
\* one, and an engine in use is not on the stack, so nobody else can take it.
EngineExclusive ==
  \A t \in Users :
    /\ curEngineIndex[t] \in Engines
    /\ \A i \in 1 .. Len(Enginespoll) : Enginespoll[i] # curEngineIndex[t]
    /\ \A u \in Users : curEngineIndex[u] = curEngineIndex[t] => u = t

\* stack::top() and stack::pop() are undefined on an empty stack: a thread that
\* the semaphore let in always finds an index on the stack.
TopIsDefined == In({"reading", "popping"}) # {} => Enginespoll # <<>>

\* No engine is lost or duplicated: each index is on the stack once or with one
\* thread, whatever the threads have done so far.
PoolConserved ==
  \A e \in Engines :
    \/ /\ \E i \in 1 .. Len(Enginespoll) : Enginespoll[i] = e
       /\ \A i, j \in 1 .. Len(Enginespoll) :
            Enginespoll[i] = e /\ Enginespoll[j] = e => i = j
    \/ \E t \in Users : curEngineIndex[t] = e
=============================================================================
