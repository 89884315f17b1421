---------------------------- MODULE Connections ----------------------------
(***************************************************************************)
(* onConnection of both servers (arccompareserver.cpp, arcguestserver.cpp):*)
(* the set of the connections that are up.  An IO thread calls it when a   *)
(* connection of its own comes up and again when it goes down.  Changing a *)
(* std::set takes more than one step: another thread in between would work *)
(* on the same old tree.  Nobody takes a copy of connections_, so it is    *)
(* unique() and the list is never copied.                                  *)
(***************************************************************************)
EXTENDS Mutex

CONSTANTS IOThreads, Conns

ASSUME ConnectionsAssumption == NoThread \notin IOThreads

VARIABLES
  mutex_,         \* mutex_
  connections_,   \* the list
  told,           \* per connection: "new", "up" or "down", as onConnection was told
  owner,          \* per connection: its IO thread, NoThread before it is up
  handling,       \* per thread: the connections onConnection is called for, at most one
  tree            \* per thread: the tree it is about to change, when it holds one

connVars == <<mutex_, connections_, told, owner, handling, tree>>

NoTree == [changing |-> FALSE, old |-> {}]

ConnInit ==
  /\ mutex_ = Free
  /\ connections_ = {}
  /\ told = [c \in Conns |-> "new"]
  /\ owner = [c \in Conns |-> NoThread]
  /\ handling = [t \in IOThreads |-> {}]
  /\ tree = [t \in IOThreads |-> NoTree]

-----------------------------------------------------------------------------
\* conn->connected() is what it is told of in this call.
CallUp(t, c) ==
  /\ handling[t] = {}
  /\ told[c] = "new"
  /\ told' = [told EXCEPT ![c] = "up"]
  /\ owner' = [owner EXCEPT ![c] = t]
  /\ handling' = [handling EXCEPT ![t] = {c}]
  /\ UNCHANGED <<mutex_, connections_, tree>>

CallDown(t, c) ==
  /\ handling[t] = {}
  /\ told[c] = "up"
  /\ owner[c] = t
  /\ told' = [told EXCEPT ![c] = "down"]
  /\ handling' = [handling EXCEPT ![t] = {c}]
  /\ UNCHANGED <<mutex_, connections_, owner, tree>>

\* MutexLockGuard lock(mutex_), and the beginning of insert or erase; the mutant
\* does not take the mutex.
BeginChangeUnlocked(t) ==
  /\ handling[t] # {}
  /\ ~tree[t].changing
  /\ tree' = [tree EXCEPT ![t] = [changing |-> TRUE, old |-> connections_]]
  /\ UNCHANGED <<mutex_, connections_, told, owner, handling>>

BeginChange(t) ==
  /\ handling[t] # {}
  /\ ~tree[t].changing
  /\ CanLock(mutex_)
  /\ mutex_' = lock(mutex_, t)
  /\ tree' = [tree EXCEPT ![t] = [changing |-> TRUE, old |-> connections_]]
  /\ UNCHANGED <<connections_, told, owner, handling>>

EndChange(t) ==
  /\ tree[t].changing
  /\ \E c \in handling[t] :
       connections_' = IF told[c] = "up" THEN tree[t].old \cup {c} ELSE tree[t].old \ {c}
  /\ mutex_' = unlock(mutex_)
  /\ tree' = [tree EXCEPT ![t] = NoTree]
  /\ handling' = [handling EXCEPT ![t] = {}]
  /\ UNCHANGED <<told, owner>>

onConnection(t) ==
  \/ \E c \in Conns : CallUp(t, c) \/ CallDown(t, c)
  \/ BeginChange(t)
  \/ EndChange(t)

ConnNext == \E t \in IOThreads : onConnection(t)

ConnSpec == ConnInit /\ [][ConnNext]_connVars

-----------------------------------------------------------------------------
\* A connection that onConnection is not busy with is on the list if it is up and
\* not if it is down: no thread undoes another's change.
ListMatchesCalls ==
  \A c \in Conns :
    (\A t \in IOThreads : c \notin handling[t]) => (c \in connections_ <=> told[c] = "up")
=============================================================================
