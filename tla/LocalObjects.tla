---------------------------- MODULE LocalObjects ----------------------------
(***************************************************************************)
(* Objects that muduo makes when they are first asked for: Singleton, one  *)
(* for the process (Singleton.h), and ThreadLocalSingleton and ThreadLocal,*)
(* one for each thread, destroyed when the thread ends.  Destructors of    *)
(* other thread-local objects may ask for them again while the thread      *)
(* ends; pthread then goes through the keys again, but not for ever.       *)
(***************************************************************************)
EXTENDS Naturals, FiniteSets

CONSTANTS
  Users,       \* the threads
  Iterations,  \* PTHREAD_DESTRUCTOR_ITERATIONS: how often pthread goes through the keys
  MaxObjects   \* bound on the objects of a thread in each class

ASSUME ObjectsAssumption == Iterations \in Nat \ {0} /\ MaxObjects \in Nat

VARIABLES
  no_destroy,  \* the class of the Singleton has a member of this name
  ponce_,      \* pthread_once: "init", "running" or "done"
  value_,      \* the Singleton's object, 0 for NULL
  made,        \* how many were made
  asking,      \* per thread: "no", "calling" or "initialising"
  got,         \* per thread: the objects it got, NULL among them
  exited,      \* the process runs its atexit handlers
  ending,      \* per thread: "no", "destructors" or "over"
  key,         \* per thread-local class and thread: what pthread keeps under pkey_
  t_value_,    \* per thread: the pointer of ThreadLocalSingleton
  serial,      \* per thread-local class and thread: how many objects were made
  alive,       \* those not deleted, <<class, thread, serial>>
  round,       \* per thread that ends: pthread's rounds through its keys
  due,         \*   the keys still to visit in this round
  late         \*   the objects made since it began to end

onceVars == <<no_destroy, ponce_, value_, made, asking, got, exited>>
localVars == <<ending, key, t_value_, serial, alive, round, due, late>>
objectVars == <<onceVars, localVars>>

NULL == 0

LocalClasses == {"ThreadLocal", "ThreadLocalSingleton"}

ObjectsInit ==
  /\ no_destroy \in BOOLEAN
  /\ ponce_ = "init"
  /\ value_ = NULL
  /\ made = 0
  /\ asking = [t \in Users |-> "no"]
  /\ got = [t \in Users |-> {}]
  /\ exited = FALSE
  /\ ending = [t \in Users |-> "no"]
  /\ key = [c \in LocalClasses |-> [t \in Users |-> 0]]
  /\ t_value_ = [t \in Users |-> 0]
  /\ serial = [c \in LocalClasses |-> [t \in Users |-> 0]]
  /\ alive = {}
  /\ round = [t \in Users |-> 0]
  /\ due = [t \in Users |-> {}]
  /\ late = [t \in Users |-> 0]

-----------------------------------------------------------------------------
Asks(t, from, to) == asking[t] = from /\ asking' = [asking EXCEPT ![t] = to]

\* Singleton::instance, up to pthread_once.
CallInstance(t) ==
  /\ Asks(t, "no", "calling")
  /\ UNCHANGED <<no_destroy, ponce_, value_, made, got, exited, localVars>>

\* pthread_once: one thread calls init, and the others wait until it is done; the
\* mutant looks at the pointer instead.
OnceByPointer(t) ==
  /\ Asks(t, "calling", "initialising")
  /\ value_ = NULL
  /\ ponce_' = "running"
  /\ UNCHANGED <<no_destroy, value_, made, got, exited, localVars>>

Once(t) ==
  /\ Asks(t, "calling", "initialising")
  /\ ponce_ = "init"
  /\ ponce_' = "running"
  /\ UNCHANGED <<no_destroy, value_, made, got, exited, localVars>>

init(t) ==
  /\ Asks(t, "initialising", "calling")
  /\ made' = made + 1
  /\ value_' = made + 1
  /\ ponce_' = "done"
  /\ UNCHANGED <<no_destroy, got, exited, localVars>>

Return(t) ==
  /\ Asks(t, "calling", "no")
  /\ ponce_ = "done"
  /\ got' = [got EXCEPT ![t] = @ \cup {value_}]
  /\ UNCHANGED <<no_destroy, ponce_, value_, made, exited, localVars>>

\* The process ends: destroy, if init registered it.
Exit ==
  /\ ~exited
  /\ exited' = TRUE
  /\ value_' = IF ponce_ = "done" /\ ~no_destroy THEN NULL ELSE value_
  /\ UNCHANGED <<no_destroy, ponce_, made, asking, got, localVars>>

instance(t) == CallInstance(t) \/ Once(t) \/ init(t) \/ Return(t)

-----------------------------------------------------------------------------
NewObject(c, t) ==
  /\ serial[c][t] < MaxObjects
  /\ serial' = [serial EXCEPT ![c][t] = @ + 1]
  /\ alive' = alive \cup {<<c, t, serial[c][t] + 1>>}
  /\ key' = [key EXCEPT ![c][t] = serial[c][t] + 1]
  /\ late' = IF ending[t] = "destructors" THEN [late EXCEPT ![t] = @ + 1] ELSE late
  /\ UNCHANGED <<round, due>>

\* ThreadLocal::value and ThreadLocalSingleton::instance, when there is none yet.
value(t) ==
  /\ ending[t] # "over"
  /\ key["ThreadLocal"][t] = 0
  /\ NewObject("ThreadLocal", t)
  /\ UNCHANGED <<onceVars, ending, t_value_>>

localInstance(t) ==
  /\ ending[t] # "over"
  /\ t_value_[t] = 0
  /\ NewObject("ThreadLocalSingleton", t)
  /\ t_value_' = [t_value_ EXCEPT ![t] = serial["ThreadLocalSingleton"][t] + 1]
  /\ UNCHANGED <<onceVars, ending>>

\* A thread ends: pthread goes through its keys.
Visits(c, t) ==
  /\ ending[t] = "destructors"
  /\ c \in due[t]
  /\ due' = [due EXCEPT ![t] = @ \ {c}]
  /\ UNCHANGED <<onceVars, ending, serial, round, late>>

EndThread(t) ==
  /\ ending[t] = "no"
  /\ ending' = [ending EXCEPT ![t] = "destructors"]
  /\ round' = [round EXCEPT ![t] = 1]
  /\ due' = [due EXCEPT ![t] = LocalClasses]
  /\ UNCHANGED <<onceVars, key, t_value_, serial, alive, late>>

NothingUnder(c, t) ==
  /\ Visits(c, t)
  /\ key[c][t] = 0
  /\ UNCHANGED <<key, alive, t_value_>>

\* It takes an object from its key and calls the destructor for it; in the
\* mutant ThreadLocalSingleton keeps the pointer to what it deleted.
destructorKeepsPointer(c, t) ==
  /\ Visits(c, t)
  /\ key[c][t] # 0
  /\ key' = [key EXCEPT ![c][t] = 0]
  /\ alive' = alive \ {<<c, t, key[c][t]>>}
  /\ UNCHANGED t_value_

destructor(c, t) ==
  /\ Visits(c, t)
  /\ key[c][t] # 0
  /\ key' = [key EXCEPT ![c][t] = 0]
  /\ alive' = alive \ {<<c, t, key[c][t]>>}
  /\ t_value_' = IF c = "ThreadLocalSingleton" THEN [t_value_ EXCEPT ![t] = 0] ELSE t_value_

\* There is another round if a key holds something again, up to the limit.
NextRound(t) ==
  /\ ending[t] = "destructors"
  /\ due[t] = {}
  /\ \E c \in LocalClasses : key[c][t] # 0
  /\ round[t] < Iterations
  /\ round' = [round EXCEPT ![t] = @ + 1]
  /\ due' = [due EXCEPT ![t] = LocalClasses]
  /\ UNCHANGED <<onceVars, ending, key, t_value_, serial, alive, late>>

ThreadOver(t) ==
  /\ ending[t] = "destructors"
  /\ due[t] = {}
  /\ (\A c \in LocalClasses : key[c][t] = 0) \/ round[t] = Iterations
  /\ ending' = [ending EXCEPT ![t] = "over"]
  /\ UNCHANGED <<onceVars, key, t_value_, serial, alive, round, due, late>>

OnceNext == Exit \/ \E t \in Users : instance(t)

LocalNext ==
  \E t \in Users :
    \/ value(t) \/ localInstance(t) \/ EndThread(t) \/ NextRound(t) \/ ThreadOver(t)
    \/ \E c \in LocalClasses : NothingUnder(c, t) \/ destructor(c, t)

ObjectsNext == OnceNext \/ LocalNext

ObjectsSpec == ObjectsInit /\ [][ObjectsNext]_objectVars

-----------------------------------------------------------------------------
\* Whoever asks the Singleton gets the one object there is, whoever else asks at the
\* same time; NULL, against which instance asserts (Singleton.h:41), only after the
\* process has begun to exit, and never if there is no_destroy.
OneInstance ==
  /\ made <= 1
  /\ \A t \in Users : got[t] \subseteq {NULL, 1}
  /\ ~exited \/ no_destroy => \A t \in Users : NULL \notin got[t]

\* A thread never has a pointer to a thread-local object that is deleted, which the
\* destructor asserts.  When it is over all its objects are deleted, however often
\* destructors ask for them again, unless they ask in every one of pthread's rounds:
\* only who makes an object for each of the rounds leaves one behind.
LocalsLiveAsLongAsThread ==
  \A t \in Users :
    /\ t_value_[t] = key["ThreadLocalSingleton"][t]
    /\ \A c \in LocalClasses :
         {n \in 1 .. MaxObjects : <<c, t, n>> \in alive} =
           IF key[c][t] = 0 THEN {} ELSE {key[c][t]}
    /\ ending[t] = "over" /\ late[t] < Iterations => \A c \in LocalClasses : key[c][t] = 0
=============================================================================
