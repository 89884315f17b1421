------------------------------- MODULE Mutex -------------------------------
(***************************************************************************)
(* muduo's MutexLock and Condition (Mutex.h, Condition.h) as values: who   *)
(* owns the pthread mutex, what holder_ says about it, and the set of the  *)
(* threads that wait for a condition.                                      *)
(***************************************************************************)
CONSTANT NoThread

Free == [owner |-> NoThread, holder |-> NoThread]

CanLock(m) == m.owner = NoThread

assignHolder(m, t) == [m EXCEPT !.holder = t]
unassignHolder(m) == [m EXCEPT !.holder = NoThread]

isLockedByThisThread(m, t) == m.holder = t

\* Also the constructor of MutexLockGuard; and unlock its destructor.
lock(m, t) == assignHolder([m EXCEPT !.owner = t], t)
unlock(m) == [unassignHolder(m) EXCEPT !.owner = NoThread]

\* Condition::wait gives the mutex up, under an UnassignGuard, and has it again
\* when it returns, when the guard assigns the holder; the mutant has no guard.
Waiting(m) == unlock(m)

WokenWithoutGuard(m, t) == [m EXCEPT !.owner = t]

Woken(m, t) == assignHolder([m EXCEPT !.owner = t], t)

\* pthread_cond_signal: who is left waiting.  Besides, any waiting thread may
\* wake up for no reason.
notify(waiting) == IF waiting = {} THEN {{}} ELSE {waiting \ {t} : t \in waiting}
=============================================================================
