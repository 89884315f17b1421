---------------------------- MODULE WeakCallback ----------------------------
(***************************************************************************)
(* muduo's WeakCallback (WeakCallback.h): a callback on an object that     *)
(* others own and may give up at any time, on other threads.  It keeps a   *)
(* weak_ptr and turns it into a shared_ptr for the time of the call.       *)
(***************************************************************************)
EXTENDS Naturals

CONSTANTS
  Owners,   \* each holds a shared_ptr to the object at first
  Callers   \* threads that call the callback, again and again

ASSUME WeakAssumption ==
  /\ Owners # {}
  /\ Owners \cap Callers = {}

VARIABLES
  refs,        \* the shared_ptrs to the object: of owners and of callers
  destroyed,   \* how often its destructor was called
  calling      \* per caller: "no", "locked" (it has ptr) or "running"

weakVars == <<refs, destroyed, calling>>

-----------------------------------------------------------------------------
WeakInit ==
  /\ refs = Owners
  /\ destroyed = 0
  /\ calling = [t \in Callers |-> "no"]

\* A shared_ptr goes away, and the object with the last one.
Drops(p) ==
  /\ refs' = refs \ {p}
  /\ destroyed' = IF refs = {p} THEN destroyed + 1 ELSE destroyed

\* An owner gives the object up; a caller's function may do that too.
Release(o) ==
  /\ o \in refs
  /\ Drops(o)
  /\ UNCHANGED calling

Goes(t, from, to) == calling[t] = from /\ calling' = [calling EXCEPT ![t] = to]

\* object_.lock(), and if (ptr).  An expired callback does nothing.  The mutant
\* finds the object alive but does not hold on to it.
LockWithoutHolding(t) ==
  /\ refs # {}
  /\ Goes(t, "no", "locked")
  /\ UNCHANGED <<refs, destroyed>>

Lock(t) ==
  /\ refs # {}
  /\ Goes(t, "no", "locked")
  /\ refs' = refs \cup {t}
  /\ UNCHANGED destroyed

Expired(t) ==
  /\ refs = {}
  /\ calling[t] = "no"
  /\ UNCHANGED weakVars

\* function_(ptr.get(), ...)
RunFunction(t) ==
  /\ Goes(t, "locked", "running")
  /\ UNCHANGED <<refs, destroyed>>

\* The function returns, and ptr goes out of scope.
EndCall(t) ==
  /\ Goes(t, "running", "no")
  /\ Drops(t)

call(t) == Lock(t) \/ Expired(t) \/ RunFunction(t) \/ EndCall(t)

WeakNext == (\E o \in Owners : Release(o)) \/ \E t \in Callers : call(t)

WeakSpec == WeakInit /\ [][WeakNext]_weakVars

-----------------------------------------------------------------------------
\* Whoever gives the object up, and whenever, the function never runs on an object
\* that is destroyed; the object is destroyed once, and only after the last call.
CallsLiveObject ==
  /\ \A t \in Callers : calling[t] = "running" => destroyed = 0
  /\ destroyed = IF refs = {} THEN 1 ELSE 0
=============================================================================
