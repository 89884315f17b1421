---------------------------- MODULE ObjectsProofs ----------------------------
(***************************************************************************)
(* Proofs about the objects that threads share: the connection list of a   *)
(* server (Connections), muduo's Singleton and thread-local objects        *)
(* (LocalObjects) and its WeakCallback, for any threads.                   *)
(***************************************************************************)
EXTENDS Connections, LocalObjects, WeakCallback, TLAPS

(***************************************************************************)
(* Connections.  The property needs the mutex: whoever changes the list    *)
(* holds it (ChangingHolds), so the tree it works on is the list itself    *)
(* (TreeCurrent); and a connection is handled by its own thread only       *)
(* (HandledByOwner).                                                       *)
(***************************************************************************)
Holders == IOThreads \cup {NoThread}

ConnTypeOK ==
  /\ mutex_ \in [owner : Holders, holder : Holders]
  /\ connections_ \in SUBSET Conns
  /\ told \in [Conns -> {"new", "up", "down"}]
  /\ owner \in [Conns -> Holders]
  /\ handling \in [IOThreads -> SUBSET Conns]
  /\ tree \in [IOThreads -> [changing : BOOLEAN, old : SUBSET Conns]]

ChangingHolds == \A t \in IOThreads : tree[t].changing => mutex_.owner = t

TreeCurrent == \A t \in IOThreads : tree[t].changing => tree[t].old = connections_

HandledByOwner ==
  \A t \in IOThreads : \A c \in handling[t] :
    /\ owner[c] = t
    /\ told[c] # "new"
    /\ handling[t] = {c}

ConnInv == ConnTypeOK /\ ChangingHolds /\ TreeCurrent /\ HandledByOwner /\ ListMatchesCalls

-----------------------------------------------------------------------------
LEMMA LockOwner ==
  ASSUME NEW H, NEW m \in [owner : H, holder : H], NEW t \in H
  PROVE  lock(m, t) \in [owner : H, holder : H] /\ lock(m, t).owner = t
<1> DEFINE m1 == [m EXCEPT !.owner = t]
<1>1. m1 \in [owner : H, holder : H] /\ m1.owner = t
  OBVIOUS
<1>2. lock(m, t) = [m1 EXCEPT !.holder = t]
  BY DEF lock, assignHolder
<1> HIDE DEF m1
<1> QED BY <1>1, <1>2

LEMMA UnlockOwner ==
  ASSUME NEW H, NEW m \in [owner : H, holder : H], NoThread \in H
  PROVE  unlock(m) \in [owner : H, holder : H]
<1> DEFINE m1 == [m EXCEPT !.holder = NoThread]
<1>1. m1 \in [owner : H, holder : H]
  OBVIOUS
<1>2. unlock(m) = [m1 EXCEPT !.owner = NoThread]
  BY DEF unlock, unassignHolder
<1> HIDE DEF m1
<1> QED BY <1>1, <1>2

-----------------------------------------------------------------------------
LEMMA ConnInitInv == ASSUME ConnInit PROVE ConnInv
<1>1. ConnTypeOK
  BY DEF ConnInit, ConnTypeOK, Free, Holders, NoTree
<1>2. ChangingHolds /\ TreeCurrent
  BY DEF ConnInit, NoTree, ChangingHolds, TreeCurrent
<1>3. HandledByOwner /\ ListMatchesCalls
  BY DEF ConnInit, HandledByOwner, ListMatchesCalls
<1> QED BY <1>1, <1>2, <1>3 DEF ConnInv

\* A connection comes up: it was new, so it is not on the list and nobody handles it.
LEMMA CallUpInv ==
  ASSUME ConnInv, NEW t \in IOThreads, NEW c \in Conns, CallUp(t, c)
  PROVE  ConnInv'
<1>1. ConnTypeOK'
  BY DEF ConnInv, ConnTypeOK, CallUp, Holders
<1>2. ChangingHolds' /\ TreeCurrent'
  BY DEF ConnInv, CallUp, ChangingHolds, TreeCurrent
<1>3. HandledByOwner'
  BY DEF ConnInv, ConnTypeOK, HandledByOwner, CallUp
<1>4. ListMatchesCalls'
  BY DEF ConnInv, ConnTypeOK, ListMatchesCalls, HandledByOwner, CallUp
<1> QED BY <1>1, <1>2, <1>3, <1>4 DEF ConnInv

\* It goes down, as its own thread is told, which handles nothing else.
LEMMA CallDownInv ==
  ASSUME ConnInv, NEW t \in IOThreads, NEW c \in Conns, CallDown(t, c)
  PROVE  ConnInv'
<1>1. ConnTypeOK'
  BY DEF ConnInv, ConnTypeOK, CallDown
<1>2. ChangingHolds' /\ TreeCurrent'
  BY DEF ConnInv, CallDown, ChangingHolds, TreeCurrent
<1>3. HandledByOwner'
  BY DEF ConnInv, ConnTypeOK, HandledByOwner, CallDown
<1>4. ListMatchesCalls'
  BY DEF ConnInv, ConnTypeOK, ListMatchesCalls, HandledByOwner, CallDown
<1> QED BY <1>1, <1>2, <1>3, <1>4 DEF ConnInv

\* Whoever begins to change the list is the only one, since it has the mutex.
LEMMA BeginChangeInv ==
  ASSUME ConnectionsAssumption, ConnInv, NEW t \in IOThreads, BeginChange(t)
  PROVE  ConnInv'
<1>1. mutex_' \in [owner : Holders, holder : Holders] /\ mutex_'.owner = t
  <2>1. mutex_ \in [owner : Holders, holder : Holders] /\ t \in Holders
    BY DEF ConnInv, ConnTypeOK, Holders
  <2>2. mutex_' = lock(mutex_, t)
    BY DEF BeginChange
  <2> QED BY <2>1, <2>2, LockOwner
<1>2. tree' = [tree EXCEPT ![t] = [changing |-> TRUE, old |-> connections_]]
  BY DEF BeginChange
<1>3. tree' \in [IOThreads -> [changing : BOOLEAN, old : SUBSET Conns]]
  BY <1>2 DEF ConnInv, ConnTypeOK
<1>4. \A u \in IOThreads : ~tree[u].changing
  BY DEF ConnInv, ChangingHolds, BeginChange, CanLock, ConnectionsAssumption
<1>5. \A u \in IOThreads : tree'[u].changing => u = t /\ tree'[u].old = connections_
  BY <1>2, <1>4 DEF ConnInv, ConnTypeOK
<1>6. UNCHANGED <<connections_, told, owner, handling>>
  BY DEF BeginChange
<1>7. ConnTypeOK' /\ ChangingHolds' /\ TreeCurrent'
  BY <1>1, <1>3, <1>5, <1>6 DEF ConnInv, ConnTypeOK, ChangingHolds, TreeCurrent, Holders
<1>8. HandledByOwner' /\ ListMatchesCalls'
  BY <1>6 DEF ConnInv, HandledByOwner, ListMatchesCalls
<1> QED BY <1>7, <1>8 DEF ConnInv

\* Its tree is the list as it still is, so the other connections stay as they are.
LEMMA EndChangeInv ==
  ASSUME ConnectionsAssumption, ConnInv, NEW t \in IOThreads, EndChange(t)
  PROVE  ConnInv'
<1>1. PICK c \in handling[t] :
        connections_' = IF told[c] = "up" THEN tree[t].old \cup {c} ELSE tree[t].old \ {c}
  BY DEF EndChange
<1>2. c \in Conns /\ handling[t] = {c} /\ told[c] \in {"up", "down"} /\ tree[t].old = connections_
  BY <1>1 DEF ConnInv, ConnTypeOK, HandledByOwner, TreeCurrent, EndChange
<1>3. mutex_' \in [owner : Holders, holder : Holders]
  BY UnlockOwner DEF ConnInv, ConnTypeOK, EndChange, Holders
<1>4. tree' = [tree EXCEPT ![t] = [changing |-> FALSE, old |-> {}]]
  BY DEF EndChange, NoTree
<1>5. tree' \in [IOThreads -> [changing : BOOLEAN, old : SUBSET Conns]]
  BY <1>4 DEF ConnInv, ConnTypeOK
<1>6. \A u \in IOThreads : tree[u].changing => u = t
  BY DEF ConnInv, ChangingHolds, EndChange
<1>7. \A u \in IOThreads : ~tree'[u].changing
  BY <1>4, <1>6 DEF ConnInv, ConnTypeOK
<1>8. handling' = [handling EXCEPT ![t] = {}] /\ UNCHANGED <<told, owner>>
  BY DEF EndChange
<1>9. ConnTypeOK'
  BY <1>1, <1>2, <1>3, <1>5, <1>8 DEF ConnInv, ConnTypeOK
<1>10. ChangingHolds' /\ TreeCurrent'
  BY <1>7 DEF ChangingHolds, TreeCurrent
<1>11. HandledByOwner'
  BY <1>8 DEF ConnInv, ConnTypeOK, HandledByOwner
<1>12. ListMatchesCalls'
  <2> SUFFICES ASSUME NEW d \in Conns, \A u \in IOThreads : d \notin handling'[u]
               PROVE  d \in connections_' <=> told'[d] = "up"
    BY DEF ListMatchesCalls
  <2>1. CASE d = c
    BY <1>1, <1>2, <1>8, <2>1
  <2>2. CASE d # c
    <3>1. \A u \in IOThreads : d \notin handling[u]
      BY <1>2, <1>8, <2>2 DEF ConnInv, ConnTypeOK
    <3> QED BY <1>1, <1>2, <1>8, <2>2, <3>1 DEF ConnInv, ListMatchesCalls
  <2> QED BY <2>1, <2>2
<1> QED BY <1>9, <1>10, <1>11, <1>12 DEF ConnInv

LEMMA ConnNextInv ==
  ASSUME ConnectionsAssumption, ConnInv, [ConnNext]_connVars
  PROVE  ConnInv'
<1>1. CASE UNCHANGED connVars
  BY <1>1 DEF connVars, ConnInv, ConnTypeOK, ChangingHolds, TreeCurrent, HandledByOwner, ListMatchesCalls
<1> QED BY <1>1, CallUpInv, CallDownInv, BeginChangeInv, EndChangeInv DEF ConnNext, onConnection

-----------------------------------------------------------------------------
\* Whichever IO threads call onConnection, none undoes the change of another: a
\* connection that none is busy with is on the list exactly if it is up.
THEOREM ConnectionsMatchCalls == ConnSpec => []ListMatchesCalls
<1>1. ConnInv => ListMatchesCalls
  BY DEF ConnInv
<1> QED BY <1>1, ConnectionsAssumption, ConnInitInv, ConnNextInv, PTL DEF ConnSpec

-----------------------------------------------------------------------------
(***************************************************************************)
(* LocalObjects.  For the Singleton: at most one thread is ever in init,   *)
(* and before it is out nothing was made (OnceInv).  For the objects of a  *)
(* thread: the key holds the number of the one object that is alive        *)
(* (LocalInv), and while the thread ends each round that is over, and one  *)
(* that leaves an object under a key it has visited, has seen an object of *)
(* its own being made (RoundInv).                                          *)
(***************************************************************************)
OnceInv ==
  /\ no_destroy \in BOOLEAN
  /\ asking \in [Users -> {"no", "calling", "initialising"}]
  /\ got \in [Users -> SUBSET {NULL, 1}]
  /\ ponce_ \in {"init", "running", "done"}
  /\ value_ \in {0, 1}
  /\ \A t, u \in Users : asking[t] = "initialising" /\ asking[u] = "initialising" => t = u
  /\ (\E t \in Users : asking[t] = "initialising") <=> ponce_ = "running"
  /\ made = IF ponce_ = "done" THEN 1 ELSE 0
  /\ ponce_ = "done" /\ (~exited \/ no_destroy) => value_ = 1
  /\ ~exited \/ no_destroy => \A t \in Users : NULL \notin got[t]

LocalInv ==
  /\ ending \in [Users -> {"no", "destructors", "over"}]
  /\ t_value_ \in [Users -> Nat]
  /\ key \in [LocalClasses -> [Users -> Nat]]
  /\ serial \in [LocalClasses -> [Users -> Nat]]
  /\ \A c \in LocalClasses, t \in Users :
       /\ key[c][t] <= serial[c][t] /\ serial[c][t] <= MaxObjects
       /\ \A n \in Nat : <<c, t, n>> \in alive <=> n # 0 /\ n = key[c][t]
  /\ \A t \in Users : t_value_[t] = key["ThreadLocalSingleton"][t]

Asked(t) == \E c \in LocalClasses \ due[t] : key[c][t] # 0

RoundOK(t) ==
  /\ ending[t] = "destructors" =>
       /\ round[t] >= 1 /\ round[t] <= Iterations
       /\ late[t] >= round[t] - 1
       /\ Asked(t) => late[t] >= round[t]
  /\ ending[t] = "over" /\ late[t] < Iterations => \A c \in LocalClasses : key[c][t] = 0

RoundInv ==
  /\ round \in [Users -> Nat] /\ late \in [Users -> Nat]
  /\ due \in [Users -> SUBSET LocalClasses]
  /\ \A t \in Users : RoundOK(t)

ObjectsInv == OnceInv /\ LocalInv /\ RoundInv

-----------------------------------------------------------------------------
LEMMA ObjectsInitInv == ASSUME ObjectsInit PROVE ObjectsInv
<1>1. OnceInv
  BY DEF ObjectsInit, OnceInv, NULL
<1>2. LocalInv
  BY ObjectsAssumption DEF ObjectsInit, LocalInv, LocalClasses, ObjectsAssumption
<1>3. RoundInv
  BY DEF ObjectsInit, RoundInv, RoundOK
<1> QED BY <1>1, <1>2, <1>3 DEF ObjectsInv

LEMMA OnceNextInv == ASSUME OnceInv, OnceNext PROVE OnceInv'
<1>1. CASE Exit
  BY <1>1 DEF Exit, OnceInv, NULL
<1>2. ASSUME NEW t \in Users, CallInstance(t) PROVE OnceInv'
  BY <1>2 DEF CallInstance, Asks, OnceInv, NULL
<1>3. ASSUME NEW t \in Users, Once(t) PROVE OnceInv'
  BY <1>3 DEF Once, Asks, OnceInv, NULL
<1>4. ASSUME NEW t \in Users, init(t) PROVE OnceInv'
  BY <1>4 DEF init, Asks, OnceInv, NULL
<1>5. ASSUME NEW t \in Users, Return(t) PROVE OnceInv'
  BY <1>5 DEF Return, Asks, OnceInv, NULL
<1> QED BY <1>1, <1>2, <1>3, <1>4, <1>5 DEF OnceNext, instance

-----------------------------------------------------------------------------
\* A new object of a class: the key has held none, and no number is used twice.
LEMMA NewObjectKeeps ==
  ASSUME LocalInv, NEW c \in LocalClasses, NEW t \in Users, key[c][t] = 0, NewObject(c, t)
  PROVE  LET n == serial[c][t] + 1
         IN  /\ n \in Nat
             /\ serial' \in [LocalClasses -> [Users -> Nat]]
             /\ key' \in [LocalClasses -> [Users -> Nat]]
             /\ key'[c][t] = n
             /\ \A d \in LocalClasses, u \in Users :
                  /\ key'[d][u] <= serial'[d][u] /\ serial'[d][u] <= MaxObjects
                  /\ <<d, u>> # <<c, t>> => key'[d][u] = key[d][u]
                  /\ \A m \in Nat : <<d, u, m>> \in alive' <=> m # 0 /\ m = key'[d][u]
<1> DEFINE n == serial[c][t] + 1
<1>1. serial[c][t] \in Nat /\ serial[c][t] < MaxObjects
  BY DEF LocalInv, NewObject
<1>2. n \in Nat /\ n # 0 /\ n <= MaxObjects
  BY <1>1, ObjectsAssumption DEF ObjectsAssumption
<1>3. /\ serial' = [serial EXCEPT ![c][t] = n]
      /\ key' = [key EXCEPT ![c][t] = n]
      /\ alive' = alive \cup {<<c, t, n>>}
  BY DEF NewObject
<1> HIDE DEF n
<1>4. /\ serial' \in [LocalClasses -> [Users -> Nat]]
      /\ \A d \in LocalClasses, u \in Users :
           serial'[d][u] = IF <<d, u>> = <<c, t>> THEN n ELSE serial[d][u]
  BY <1>2, <1>3 DEF LocalInv
<1>5. /\ key' \in [LocalClasses -> [Users -> Nat]]
      /\ \A d \in LocalClasses, u \in Users :
           key'[d][u] = IF <<d, u>> = <<c, t>> THEN n ELSE key[d][u]
  BY <1>2, <1>3 DEF LocalInv
<1>6. ASSUME NEW d \in LocalClasses, NEW u \in Users
      PROVE  /\ key'[d][u] <= serial'[d][u] /\ serial'[d][u] <= MaxObjects
             /\ \A m \in Nat : <<d, u, m>> \in alive' <=> m # 0 /\ m = key'[d][u]
  <2>1. CASE <<d, u>> = <<c, t>>
    <3>1. \A m \in Nat : <<d, u, m>> \notin alive
      BY <2>1 DEF LocalInv
    <3> QED BY <1>2, <1>3, <1>4, <1>5, <2>1, <3>1
  <2>2. CASE <<d, u>> # <<c, t>>
    BY <1>3, <1>4, <1>5, <2>2 DEF LocalInv
  <2> QED BY <2>1, <2>2
<1> QED BY <1>2, <1>4, <1>5, <1>6 DEF n

LEMMA LocalNextInv == ASSUME LocalInv, LocalNext PROVE LocalInv'
<1>1. ASSUME NEW t \in Users, value(t) PROVE LocalInv'
  BY <1>1, NewObjectKeeps DEF value, LocalInv, LocalClasses
<1>2. ASSUME NEW t \in Users, localInstance(t) PROVE LocalInv'
  <2>1. key["ThreadLocalSingleton"][t] = 0
    BY <1>2 DEF localInstance, LocalInv
  <2> QED BY <1>2, <2>1, NewObjectKeeps DEF localInstance, LocalInv, LocalClasses
<1>3. ASSUME NEW t \in Users, EndThread(t) \/ NextRound(t) \/ ThreadOver(t) PROVE LocalInv'
  BY <1>3 DEF EndThread, NextRound, ThreadOver, LocalInv
<1>4. ASSUME NEW t \in Users, NEW c \in LocalClasses, NothingUnder(c, t) PROVE LocalInv'
  BY <1>4 DEF NothingUnder, Visits, LocalInv
<1>5. ASSUME NEW t \in Users, NEW c \in LocalClasses, destructor(c, t) PROVE LocalInv'
  <2>1. /\ key' \in [LocalClasses -> [Users -> Nat]]
        /\ \A d \in LocalClasses, u \in Users :
             key'[d][u] = IF <<d, u>> = <<c, t>> THEN 0 ELSE key[d][u]
    BY <1>5 DEF destructor, LocalInv
  <2>2. alive' = alive \ {<<c, t, key[c][t]>>} /\ UNCHANGED <<ending, serial>>
    BY <1>5 DEF destructor, Visits
  <2>3. t_value_' \in [Users -> Nat]
        /\ \A u \in Users : t_value_'[u] = key'["ThreadLocalSingleton"][u]
    BY <1>5, <2>1 DEF destructor, LocalInv, LocalClasses
  <2>4. ASSUME NEW d \in LocalClasses, NEW u \in Users
        PROVE  /\ key'[d][u] <= serial'[d][u] /\ serial'[d][u] <= MaxObjects
               /\ \A m \in Nat : <<d, u, m>> \in alive' <=> m # 0 /\ m = key'[d][u]
    BY <2>1, <2>2 DEF LocalInv
  <2> QED BY <2>1, <2>2, <2>3, <2>4 DEF LocalInv
<1> QED BY <1>1, <1>2, <1>3, <1>4, <1>5 DEF LocalNext

\* A step of t leaves alone what RoundOK says of the others.
LEMMA RoundOfOthers ==
  ASSUME RoundInv, NEW t \in Users, RoundOK(t)',
         round' \in [Users -> Nat], late' \in [Users -> Nat],
         due' \in [Users -> SUBSET LocalClasses],
         \A u \in Users \ {t} :
           /\ ending'[u] = ending[u] /\ round'[u] = round[u]
           /\ late'[u] = late[u] /\ due'[u] = due[u]
           /\ \A c \in LocalClasses : key'[c][u] = key[c][u]
  PROVE  RoundInv'
<1>1. ASSUME NEW u \in Users, u # t PROVE RoundOK(u)'
  <2>1. /\ ending'[u] = ending[u] /\ round'[u] = round[u]
        /\ late'[u] = late[u] /\ due'[u] = due[u]
        /\ \A c \in LocalClasses : key'[c][u] = key[c][u]
    BY <1>1
  <2>2. RoundOK(u)
    BY DEF RoundInv
  <2> QED BY <2>1, <2>2 DEF RoundOK, Asked
<1> QED BY <1>1 DEF RoundInv

LEMMA RoundNextInv == ASSUME LocalInv, RoundInv, LocalNext PROVE RoundInv'
<1>1. /\ ending \in [Users -> {"no", "destructors", "over"}]
      /\ key \in [LocalClasses -> [Users -> Nat]]
      /\ round \in [Users -> Nat] /\ late \in [Users -> Nat]
      /\ due \in [Users -> SUBSET LocalClasses]
      /\ \A t \in Users : RoundOK(t)
      /\ Iterations \in Nat /\ Iterations >= 1
  BY ObjectsAssumption DEF LocalInv, RoundInv, ObjectsAssumption
<1>2. ASSUME NEW t \in Users, NEW c \in LocalClasses, NewObject(c, t),
             ending[t] # "over", UNCHANGED ending
      PROVE  RoundInv'
  <2>1. /\ late' = IF ending[t] = "destructors" THEN [late EXCEPT ![t] = @ + 1] ELSE late
        /\ UNCHANGED <<ending, round, due>>
    BY <1>2 DEF NewObject
  <2>2. \A d \in LocalClasses, u \in Users : u # t => key'[d][u] = key[d][u]
    BY <1>1, <1>2 DEF NewObject
  <2>3. late' \in [Users -> Nat]
    BY <1>1, <2>1
  <2>4. RoundOK(t)'
    <3>1. CASE ending[t] = "destructors"
      <4>1. late'[t] = late[t] + 1 /\ late[t] >= round[t] - 1
        BY <1>1, <2>1, <3>1 DEF RoundOK
      <4>2. round[t] \in Nat /\ late[t] \in Nat /\ late'[t] >= round[t]
        BY <1>1, <4>1
      <4> QED BY <1>1, <2>1, <3>1, <4>1, <4>2 DEF RoundOK
    <3>2. CASE ending[t] = "no"
      BY <2>1, <3>2 DEF RoundOK
    <3> QED BY <1>1, <1>2, <3>1, <3>2
  <2>5. \A u \in Users \ {t} : late'[u] = late[u]
    BY <1>1, <2>1
  <2> QED BY <1>1, <2>1, <2>2, <2>3, <2>4, <2>5, RoundOfOthers
<1>3. ASSUME NEW t \in Users, EndThread(t) PROVE RoundInv'
  <2>1. /\ ending' = [ending EXCEPT ![t] = "destructors"]
        /\ round' = [round EXCEPT ![t] = 1]
        /\ due' = [due EXCEPT ![t] = LocalClasses]
        /\ UNCHANGED <<key, late>>
    BY <1>3 DEF EndThread
  <2>2. /\ ending'[t] = "destructors" /\ round'[t] = 1 /\ due'[t] = LocalClasses
        /\ late'[t] \in Nat
    BY <1>1, <2>1
  <2>3. RoundOK(t)'
    BY <1>1, <2>2 DEF RoundOK, Asked
  <2> QED BY <1>1, <2>1, <2>3, RoundOfOthers
<1>4. ASSUME NEW t \in Users, NextRound(t) PROVE RoundInv'
  <2>1. /\ round' = [round EXCEPT ![t] = @ + 1]
        /\ due' = [due EXCEPT ![t] = LocalClasses]
        /\ UNCHANGED <<ending, key, late>>
        /\ ending[t] = "destructors" /\ due[t] = {} /\ round[t] < Iterations
        /\ \E c \in LocalClasses : key[c][t] # 0
    BY <1>4 DEF NextRound
  <2>2. /\ round'[t] = round[t] + 1 /\ due'[t] = LocalClasses
        /\ round[t] \in Nat /\ late[t] \in Nat
    BY <1>1, <2>1
  <2>3. late[t] >= round[t] /\ round[t] >= 1
    BY <1>1, <2>1 DEF RoundOK, Asked
  <2>4. RoundOK(t)'
    BY <1>1, <2>1, <2>2, <2>3 DEF RoundOK, Asked
  <2> QED BY <1>1, <2>1, <2>4, RoundOfOthers
<1>5. ASSUME NEW t \in Users, ThreadOver(t) PROVE RoundInv'
  <2>1. /\ ending' = [ending EXCEPT ![t] = "over"] /\ UNCHANGED <<key, round, due, late>>
        /\ ending[t] = "destructors" /\ due[t] = {}
        /\ (\A c \in LocalClasses : key[c][t] = 0) \/ round[t] = Iterations
    BY <1>5 DEF ThreadOver
  <2>2. ending'[t] = "over" /\ late[t] \in Nat
    BY <1>1, <2>1
  <2>3. (\E c \in LocalClasses : key[c][t] # 0) => late[t] >= Iterations
    BY <1>1, <2>1 DEF RoundOK, Asked
  <2>4. RoundOK(t)'
    BY <1>1, <2>1, <2>2, <2>3 DEF RoundOK
  <2> QED BY <1>1, <2>1, <2>4, RoundOfOthers
<1>6. ASSUME NEW t \in Users, NEW c \in LocalClasses, NothingUnder(c, t) \/ destructor(c, t)
      PROVE  RoundInv'
  <2>1. /\ due' = [due EXCEPT ![t] = @ \ {c}] /\ UNCHANGED <<ending, round, late>>
        /\ ending[t] = "destructors"
    BY <1>6 DEF NothingUnder, destructor, Visits
  <2>2. /\ \A d \in LocalClasses, u \in Users : <<d, u>> # <<c, t>> => key'[d][u] = key[d][u]
        /\ key'[c][t] = 0
    BY <1>1, <1>6 DEF NothingUnder, destructor
  <2>3. due'[t] = due[t] \ {c} /\ due' \in [Users -> SUBSET LocalClasses]
    BY <1>1, <2>1
  <2>4. Asked(t)' => Asked(t)
    BY <2>2, <2>3 DEF Asked
  <2>5. RoundOK(t)'
    BY <1>1, <2>1, <2>4 DEF RoundOK
  <2> QED BY <1>1, <2>1, <2>2, <2>3, <2>5, RoundOfOthers
<1>7. \A t \in Users : value(t) \/ localInstance(t) =>
        /\ ending[t] # "over" /\ UNCHANGED ending
        /\ \E c \in LocalClasses : NewObject(c, t)
  BY DEF value, localInstance, LocalClasses
<1> QED BY <1>2, <1>3, <1>4, <1>5, <1>6, <1>7 DEF LocalNext

LEMMA ObjectsNextInv == ASSUME ObjectsInv, [ObjectsNext]_objectVars PROVE ObjectsInv'
<1>1. CASE OnceNext
  <2>1. UNCHANGED localVars
    BY <1>1 DEF OnceNext, Exit, instance, CallInstance, Once, init, Return
  <2>2. LocalInv' /\ RoundInv'
    BY <2>1 DEF ObjectsInv, LocalInv, RoundInv, RoundOK, Asked, localVars
  <2> QED BY <1>1, <2>2, OnceNextInv DEF ObjectsInv
<1>2. CASE LocalNext
  <2>1. UNCHANGED onceVars
    BY <1>2 DEF LocalNext, value, localInstance, EndThread, NextRound, ThreadOver,
                NothingUnder, destructor, Visits
  <2>2. OnceInv'
    BY <2>1 DEF ObjectsInv, OnceInv, onceVars
  <2> QED BY <1>2, <2>2, LocalNextInv, RoundNextInv DEF ObjectsInv
<1>3. CASE UNCHANGED objectVars
  BY <1>3 DEF ObjectsInv, OnceInv, LocalInv, RoundInv, RoundOK, Asked,
              objectVars, onceVars, localVars
<1> QED BY <1>1, <1>2, <1>3 DEF ObjectsNext

LEMMA ObjectsInvariant == ObjectsSpec => []ObjectsInv
BY ObjectsInitInv, ObjectsNextInv, PTL DEF ObjectsSpec

-----------------------------------------------------------------------------
\* Singleton::instance gives every thread the one object there is, whoever asks at the
\* same time, and NULL only after the process has begun to exit.
THEOREM SingletonIsOne == ObjectsSpec => []OneInstance
<1>1. ObjectsInv => OneInstance
  BY DEF ObjectsInv, OnceInv, OneInstance
<1> QED BY <1>1, ObjectsInvariant, PTL

\* No thread has a pointer to a thread-local object that was deleted, and none
\* leaves one behind unless its destructors ask for one in every round that pthread
\* makes, whatever their number.
THEOREM ThreadLocalsFreed == ObjectsSpec => []LocalsLiveAsLongAsThread
<1>1. ObjectsInv => LocalsLiveAsLongAsThread
  <2> SUFFICES ASSUME ObjectsInv, NEW t \in Users, NEW c \in LocalClasses
               PROVE  {n \in 1 .. MaxObjects : <<c, t, n>> \in alive} =
                        IF key[c][t] = 0 THEN {} ELSE {key[c][t]}
    BY DEF LocalsLiveAsLongAsThread, ObjectsInv, LocalInv, RoundInv, RoundOK
  <2>1. key[c][t] \in Nat /\ key[c][t] <= MaxObjects
    BY ObjectsAssumption DEF ObjectsInv, LocalInv, ObjectsAssumption
  <2>2. \A n \in 1 .. MaxObjects : <<c, t, n>> \in alive <=> n = key[c][t]
    BY ObjectsAssumption DEF ObjectsInv, LocalInv, ObjectsAssumption
  <2> QED BY <2>1, <2>2, ObjectsAssumption DEF ObjectsAssumption
<1> QED BY <1>1, ObjectsInvariant, PTL

-----------------------------------------------------------------------------
(***************************************************************************)
(* WeakCallback, for any owners and callers.  The property is inductive    *)
(* once it is known that a call that is under way holds a shared_ptr of its *)
(* own (CallHoldsRef).                                                     *)
(***************************************************************************)
CallHoldsRef == \A t \in Callers : calling[t] # "no" => t \in refs

WeakInv ==
  /\ calling \in [Callers -> {"no", "locked", "running"}]
  /\ CallHoldsRef
  /\ destroyed = IF refs = {} THEN 1 ELSE 0

-----------------------------------------------------------------------------
LEMMA WeakInitInv == ASSUME WeakAssumption, WeakInit PROVE WeakInv
BY DEF WeakAssumption, WeakInit, WeakInv, CallHoldsRef

\* Who drops a shared_ptr is the only one to lose it, and takes the object along
\* if it was the last.
LEMMA DropCounts ==
  ASSUME WeakInv, NEW p \in refs, Drops(p)
  PROVE  /\ refs' = refs \ {p}
         /\ destroyed' = IF refs' = {} THEN 1 ELSE 0
<1>1. refs' = {} <=> refs = {p}
  BY DEF Drops
<1>2. destroyed = 0
  BY DEF WeakInv
<1> QED BY <1>1, <1>2 DEF Drops

LEMMA WeakNextInv ==
  ASSUME WeakAssumption, WeakInv, [WeakNext]_weakVars
  PROVE  WeakInv'
<1>1. ASSUME NEW o \in Owners, Release(o) PROVE WeakInv'
  <2>1. refs' = refs \ {o} /\ destroyed' = IF refs' = {} THEN 1 ELSE 0
    BY <1>1, DropCounts DEF Release
  <2>2. CallHoldsRef'
    BY <1>1, <2>1 DEF WeakInv, CallHoldsRef, Release, WeakAssumption
  <2> QED BY <1>1, <2>1, <2>2 DEF WeakInv, Release
<1>2. ASSUME NEW t \in Callers, Lock(t) PROVE WeakInv'
  BY <1>2 DEF Lock, Goes, WeakInv, CallHoldsRef
<1>3. ASSUME NEW t \in Callers, Expired(t) PROVE WeakInv'
  BY <1>3 DEF Expired, weakVars, WeakInv, CallHoldsRef
<1>4. ASSUME NEW t \in Callers, RunFunction(t) PROVE WeakInv'
  BY <1>4 DEF RunFunction, Goes, WeakInv, CallHoldsRef
<1>5. ASSUME NEW t \in Callers, EndCall(t) PROVE WeakInv'
  <2>1. t \in refs
    BY <1>5 DEF EndCall, Goes, WeakInv, CallHoldsRef
  <2>2. refs' = refs \ {t} /\ destroyed' = IF refs' = {} THEN 1 ELSE 0
    BY <1>5, <2>1, DropCounts DEF EndCall
  <2>3. CallHoldsRef'
    BY <1>5, <2>2 DEF WeakInv, CallHoldsRef, EndCall, Goes
  <2> QED BY <1>5, <2>2, <2>3 DEF WeakInv, EndCall, Goes
<1>6. CASE UNCHANGED weakVars
  BY <1>6 DEF weakVars, WeakInv, CallHoldsRef
<1> QED BY <1>1, <1>2, <1>3, <1>4, <1>5, <1>6 DEF WeakNext, call

-----------------------------------------------------------------------------
\* The function of a WeakCallback never runs on a destroyed object, and the object
\* is destroyed once, whoever owns it and calls.
THEOREM WeakCallbackSafe == WeakSpec => []CallsLiveObject
<1>1. WeakInv => CallsLiveObject
  BY DEF WeakInv, CallHoldsRef, CallsLiveObject
<1> QED BY <1>1, WeakAssumption, WeakInitInv, WeakNextInv, PTL DEF WeakSpec
=============================================================================
