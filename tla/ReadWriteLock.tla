---------------------------- MODULE ReadWriteLock ----------------------------
(***************************************************************************)
(* QReadWriteLock, a library class, as ARCFaceFeatureDB and ARCGuestServer *)
(* use it: non recursive, several readers or one writer, and a waiting     *)
(* writer keeps new readers out.  A lock is a value; the operators give    *)
(* the conditions to wait for and the value after each call.               *)
(***************************************************************************)
Unlocked == [readers |-> {}, writers |-> {}, waiting |-> {}]

Locks(T) == [readers : SUBSET T, writers : SUBSET T, waiting : SUBSET T]

\* lockForRead() returns when these hold, with t among the readers.
ReadAllowed(l) == l.writers = {} /\ l.waiting = {}
ReadBy(l, t) == [l EXCEPT !.readers = @ \cup {t}]

\* lockForWrite() queues up, and returns when the lock is free.
QueuedBy(l, t) == [l EXCEPT !.waiting = @ \cup {t}]
WriteAllowed(l) == l.writers = {} /\ l.readers = {}
WrittenBy(l, t) == [l EXCEPT !.writers = @ \cup {t}, !.waiting = @ \ {t}]

\* unlock(), by a reader or by the writer.
ReleasedBy(l, t) == [l EXCEPT !.readers = @ \ {t}, !.writers = @ \ {t}]

\* t holds the lock or waits to write.
Involves(l, t) == t \in l.readers \cup l.writers \cup l.waiting
==============================================================================
