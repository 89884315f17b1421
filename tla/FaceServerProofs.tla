-------------------------- MODULE FaceServerProofs --------------------------
(***************************************************************************)
(* Proofs about FaceServer for any number of threads, engines, users and   *)
(* guests.  The inductive invariant ServerInv ties where a thread is in    *)
(* its handler to what it holds: its place in the pool (PcMatchesPool) and *)
(* its share of the two locks (LocksMatchPc).  The safety of the pool      *)
(* itself comes from EnginePoolProofs.                                     *)
(***************************************************************************)
EXTENDS FaceServer, EnginePoolProofs

Holding ==
  {"extracting", "lockUsers", "scanUsers", "freeUsers", "lockGuests", "scanGuests",
   "freeGuests", "queueGuests", "writeLockGuests", "pushGuest", "unlockGuests"}

PcMatchesPool ==
  \A t \in Threads :
    /\ pc[t] \in {"idle", "storing", "replying"} => poolState[t] = "out"
    /\ pc[t] = "taking" => poolState[t] \in {"out", "admitted", "reading", "popping"}
    /\ pc[t] \in Holding => poolState[t] = "using"
    /\ pc[t] = "giving" => poolState[t] \in {"using", "pushing", "leaving"}

LocksMatchPc ==
  /\ lock_user.writers = {} /\ lock_user.waiting = {}
  /\ \A t \in Threads :
       /\ t \in lock_user.readers <=> pc[t] \in {"scanUsers", "freeUsers"}
       /\ t \in lock_guest.readers <=> pc[t] \in {"scanGuests", "freeGuests"}
       /\ t \in lock_guest.writers <=> pc[t] \in {"pushGuest", "unlockGuests"}
       /\ t \in lock_guest.waiting <=> pc[t] = "writeLockGuests"

\* One writer, or any number of readers.
GuestLockExclusive ==
  /\ lock_guest.writers # {} => lock_guest.readers = {}
  /\ \A t, u \in lock_guest.writers : t = u

\* A feature that is still to be stored or added has been extracted.
FeatureExtracted ==
  \A t \in Threads :
    \/ pc[t] \in {"queueGuests", "writeLockGuests", "pushGuest", "storing"}
    \/ pc[t] = "giving" /\ result[t] = "none"
    => localmodel[t] \in Models

\* What a handler answers is settled before it gives up what it still holds.
Decided ==
  \A t \in Threads :
    pc[t] \in {"freeGuests", "unlockGuests", "replying"} => result[t] # "none"

RequestKept == \A t \in Threads : pc[t] # "idle" => request[t] \in Requests

ServerInv ==
  /\ ServerTypeOK
  /\ PoolInv
  /\ PcMatchesPool
  /\ LocksMatchPc
  /\ GuestLockExclusive
  /\ FeatureExtracted
  /\ Decided
  /\ RequestKept

-----------------------------------------------------------------------------
\* The rows with a feature are finitely many, and users with a feature.
LEMMA RowsAreUsers ==
  ASSUME NEW table \in [Registered -> Models \cup {NoModel}]
  PROVE  IsFiniteSet(Rows(table)) /\ Rows(table) \subseteq Stored
<1> DEFINE With == {j \in Registered : table[j] # NoModel}
           row == [i \in With |-> [id |-> i, model |-> table[i]]]
<1>1. DOMAIN table = Registered
  OBVIOUS
<1>2. Rows(table) = {[id |-> i, model |-> table[i]] : i \in With}
  BY <1>1 DEF Rows
<1>3. \A i \in With : i \in Ids /\ table[i] \in Models
  BY DBAssumption
<1>4. Rows(table) = {row[i] : i \in With}
  <2>1. \A i \in With : row[i] = [id |-> i, model |-> table[i]]
    OBVIOUS
  <2> HIDE DEF row
  <2> QED BY <1>2, <2>1
<1>5. Rows(table) \subseteq Stored
  BY <1>2, <1>3 DEF Stored
<1>6. IsFiniteSet(With)
  BY DBAssumption, FS_Subset
<1>7. row \in Surjection(With, Rows(table))
  BY <1>4 DEF Surjection
<1> HIDE DEF With, row
<1> QED BY <1>5, <1>6, <1>7, FS_Surjection

\* What updateFeature fills the cache with is a list of users with a feature.
LEMMA LoadedUsers ==
  ASSUME NEW table \in [Registered -> Models \cup {NoModel}], NEW up \in BOOLEAN,
         NEW list \in updateFeature(table, up)
  PROVE  list \in Seq(Stored)
<1>1. Cardinality(Rows(table)) \in Nat /\ Rows(table) \subseteq Stored
  BY RowsAreUsers, FS_CardinalityType
<1>2. CASE list = <<>>
  BY <1>2
<1>3. CASE list \in Listings(Rows(table))
  <2> DEFINE n == Cardinality(Rows(table))
  <2>1. list \in [1 .. n -> Rows(table)]
    BY <1>3 DEF Listings
  <2>2. n \in Nat /\ list \in [1 .. n -> Stored]
    BY <1>1, <2>1
  <2> HIDE DEF n
  <2> QED BY <2>2, SeqDef
<1> QED BY <1>2, <1>3 DEF updateFeature

LEMMA InitInv == Init => ServerInv
<1> SUFFICES ASSUME Init PROVE ServerInv
  OBVIOUS
<1> USE DEF Init
<1>1. PoolInv
  BY PoolAssumption, PoolInitInv
<1>2. DBTypeOK(Threads)
  <2>1. cache \in Seq(Stored)
    BY LoadedUsers DEF DBInit
  <2> QED BY <2>1 DEF DBInit, DBTypeOK, Locks, Unlocked
<1>3. ServerTypeOK
  BY <1>1, <1>2, ServerAssumption DEF ServerTypeOK, PoolInv, PCs
<1>4. PcMatchesPool
  BY DEF PcMatchesPool, PoolInit, Holding
<1>5. LocksMatchPc /\ GuestLockExclusive
  BY DEF LocksMatchPc, GuestLockExclusive, DBInit, Unlocked
<1>6. FeatureExtracted /\ Decided /\ RequestKept
  BY DEF FeatureExtracted, Decided, RequestKept
<1> QED BY <1>1, <1>3, <1>4, <1>5, <1>6 DEF ServerInv

\* A restart ends in the state that a start ends in, but for the tables and
\* the counters.
LEMMA RestartInv == ASSUME ServerInv, Restart PROVE ServerInv'
<1> USE DEF Restart
<1>1. PoolInv'
  BY PoolRestartInv
<1>2. DBTypeOK(Threads)'
  <2>1. UserInformation' = UserInformation /\ UserImport' = UserImport
    BY DEF DBRestart, tables
  <2>2. cache' \in Seq(Stored)
    BY LoadedUsers DEF DBRestart, ServerInv, ServerTypeOK, DBTypeOK
  <2> QED
    BY <2>1, <2>2 DEF DBRestart, DBTypeOK, Locks, Unlocked, ServerInv, ServerTypeOK
<1>3. ServerTypeOK'
  BY <1>1, <1>2, ServerAssumption DEF ServerTypeOK, PoolInv, PCs, ServerInv
<1>4. PcMatchesPool'
  BY DEF PcMatchesPool, PoolRestart, Holding
<1>5. LocksMatchPc' /\ GuestLockExclusive'
  BY DEF LocksMatchPc, GuestLockExclusive, DBRestart, Unlocked
<1>6. FeatureExtracted' /\ Decided' /\ RequestKept'
  BY DEF FeatureExtracted, Decided, RequestKept
<1> QED BY <1>1, <1>3, <1>4, <1>5, <1>6 DEF ServerInv

-----------------------------------------------------------------------------
\* Every step but a restart is one of the pool or leaves the pool alone.
LEMMA StepOfPool ==
  ASSUME NEW t \in Threads,
         Handle(t) \/ (\E r \in Requests : onStringMessage(t, r)) \/ ConnectionLost
  PROVE  [PoolNext]_poolVars
<1>1. CASE TakeEngine(t) \/ GiveEngine(t)
  BY <1>1 DEF TakeEngine, GiveEngine, PoolNext
<1>2. CASE Reply(t) \/ LoadFails(t) \/ ConnectionLost
           \/ \E r \in Requests : onStringMessage(t, r)
  BY <1>2 DEF Reply, LoadFails, ConnectionLost, onStringMessage
<1>3. CASE compareFace(t)
  BY <1>3 DEF compareFace, ExtractToCompare, Extract, LockUsers, UserMatches, UserDiffers,
     NoUserLeft, FreeUsers, LockGuestsToRead, GuestMatches, GuestDiffers, NoGuestLeft,
     FreeGuests
<1>4. CASE addFeature(t) \/ addFeature_g(t)
  BY <1>4 DEF addFeature, addFeature_g, ExtractToAddUser, ExtractToAddGuest, Extract,
     StoreUser, QueueToWrite, LockGuestsToWrite, AppendGuest, UnlockGuests
<1> QED BY <1>1, <1>2, <1>3, <1>4 DEF Handle

-----------------------------------------------------------------------------
\* Pushing an element keeps a list a list.
LEMMA AppendType ==
  ASSUME NEW S, NEW s \in Seq(S), NEW e \in S
  PROVE  Append(s, e) \in Seq(S)
BY AppendProperties

\* The calls of a lock by one of its threads.
LEMMA LockTypes ==
  ASSUME NEW T, NEW l \in Locks(T), NEW t \in T
  PROVE  {ReadBy(l, t), ReleasedBy(l, t), QueuedBy(l, t), WrittenBy(l, t)} \subseteq Locks(T)
<1>1. ReadBy(l, t) \in Locks(T)
  BY DEF Locks, ReadBy
<1>2. ReleasedBy(l, t) \in Locks(T)
  BY DEF Locks, ReleasedBy
<1>3. QueuedBy(l, t) \in Locks(T)
  BY DEF Locks, QueuedBy
<1>4. WrittenBy(l, t) \in Locks(T)
  BY DEF Locks, WrittenBy
<1> QED BY <1>1, <1>2, <1>3, <1>4

\* The part of the type invariant that is about the threads' locals.
LocalTypeOK ==
  /\ pc \in [Threads -> PCs]
  /\ request \in [Threads -> Requests \cup {NoRequest}]
  /\ localmodel \in [Threads -> Models \cup {NoModel}]
  /\ it \in [Threads -> Nat \ {0}]
  /\ result \in [Threads -> {"none", "ok", "no"}]

LEMMA LocalTypeStep ==
  ASSUME ServerInv, NEW t \in Threads,
         Handle(t) \/ \E r \in Requests : onStringMessage(t, r)
  PROVE  LocalTypeOK'
<1> USE DEF LocalTypeOK, Go, Return, PCs
<1>0. LocalTypeOK
  BY DEF ServerInv, ServerTypeOK
<1>1. CASE \E r \in Requests : onStringMessage(t, r)
  BY <1>0, <1>1 DEF onStringMessage
<1>2. CASE Reply(t)
  BY <1>0, <1>2 DEF Reply
<1>3. CASE TakeEngine(t)
  BY <1>0, <1>3 DEF TakeEngine
<1>4. CASE GiveEngine(t)
  BY <1>0, <1>4 DEF GiveEngine
<1>5. CASE LoadFails(t)
  BY <1>0, <1>5 DEF LoadFails
<1>6. CASE ExtractToCompare(t) \/ ExtractToAddUser(t) \/ ExtractToAddGuest(t)
  <2>1. Feature(curEngineIndex[t], request[t].pic) \in Models \cup {NoModel}
    BY DEF Feature
  <2>2. localmodel' \in [Threads -> Models \cup {NoModel}] /\ UNCHANGED <<request, it>>
    BY <1>0, <1>6, <2>1
    DEF ExtractToCompare, ExtractToAddUser, ExtractToAddGuest, Extract
  <2>3. pc' \in [Threads -> PCs] /\ result' \in [Threads -> {"none", "ok", "no"}]
    BY <1>0, <1>6 DEF ExtractToCompare, ExtractToAddUser, ExtractToAddGuest
  <2> QED BY <1>0, <2>2, <2>3
<1>7. CASE LockUsers(t) \/ LockGuestsToRead(t)
  BY <1>0, <1>7 DEF LockUsers, LockGuestsToRead
<1>8. CASE UserMatches(t) \/ GuestMatches(t) \/ NoUserLeft(t) \/ NoGuestLeft(t)
  BY <1>0, <1>8 DEF UserMatches, GuestMatches, NoUserLeft, NoGuestLeft
<1>9. CASE UserDiffers(t) \/ GuestDiffers(t)
  <2>1. it[t] + 1 \in Nat \ {0}
    BY <1>0
  <2>2. it' = [it EXCEPT ![t] = it[t] + 1]
    BY <1>9 DEF UserDiffers, GuestDiffers
  <2>3. it' \in [Threads -> Nat \ {0}]
    BY <1>0, <2>1, <2>2
  <2> QED BY <1>0, <1>9, <2>3 DEF UserDiffers, GuestDiffers
<1>10. CASE FreeUsers(t)
  BY <1>0, <1>10 DEF FreeUsers
<1>13. CASE FreeGuests(t)
  BY <1>0, <1>13 DEF FreeGuests
<1>11. CASE StoreUser(t) \/ AppendGuest(t)
  BY <1>0, <1>11 DEF StoreUser, AppendGuest
<1>12. CASE QueueToWrite(t) \/ LockGuestsToWrite(t) \/ UnlockGuests(t)
  BY <1>0, <1>12 DEF QueueToWrite, LockGuestsToWrite, UnlockGuests
<1> QED
  BY <1>1, <1>2, <1>3, <1>4, <1>5, <1>6, <1>7, <1>8, <1>9, <1>10, <1>11, <1>12,
     <1>13
  DEF Handle, compareFace, addFeature, addFeature_g

\* The tables, the lists and the locks keep their types.
LEMMA DBTypeStep ==
  ASSUME ServerInv, NEW t \in Threads,
         Handle(t) \/ (\E r \in Requests : onStringMessage(t, r)) \/ ConnectionLost
  PROVE  DBTypeOK(Threads)'
<1> USE DEF DBTypeOK, tables
<1>0. DBTypeOK(Threads)
  BY DEF ServerInv, ServerTypeOK
<1>1. CASE \/ Reply(t) \/ TakeEngine(t) \/ GiveEngine(t) \/ LoadFails(t)
           \/ \E r \in Requests : onStringMessage(t, r)
           \/ ExtractToCompare(t) \/ ExtractToAddUser(t) \/ ExtractToAddGuest(t)
           \/ UserDiffers(t) \/ GuestDiffers(t) \/ NoUserLeft(t) \/ NoGuestLeft(t)
  <2>1. UNCHANGED dbVars
    BY <1>1 DEF Reply, TakeEngine, GiveEngine, LoadFails, onStringMessage,
       ExtractToCompare, ExtractToAddUser, ExtractToAddGuest, Extract,
       UserDiffers, GuestDiffers, NoUserLeft, NoGuestLeft
  <2> QED BY <1>0, <2>1 DEF dbVars
<1>2. CASE LockUsers(t) \/ FreeUsers(t) \/ LockGuestsToRead(t) \/ FreeGuests(t)
           \/ UnlockGuests(t)
  <2>1. UNCHANGED <<tables, connected, cache, cache_guest>>
    BY <1>2 DEF LockUsers, FreeUsers, LockGuestsToRead, FreeGuests, UnlockGuests,
       getCache, freeUserLock, getCache_guest, freeGuestLock
  <2>2. /\ lock_user' \in {lock_user, ReadBy(lock_user, t), ReleasedBy(lock_user, t)}
        /\ lock_guest' \in {lock_guest, ReadBy(lock_guest, t), ReleasedBy(lock_guest, t)}
    BY <1>2 DEF LockUsers, FreeUsers, LockGuestsToRead, FreeGuests, UnlockGuests,
       getCache, freeUserLock, getCache_guest, freeGuestLock
  <2> QED BY <1>0, <2>1, <2>2, LockTypes
<1>3. CASE QueueToWrite(t) \/ LockGuestsToWrite(t)
  <2>1. UNCHANGED <<tables, connected, cache, cache_guest, lock_user>>
    BY <1>3 DEF QueueToWrite, LockGuestsToWrite, QueueForGuests, LockGuests
  <2>2. lock_guest' \in {QueuedBy(lock_guest, t), WrittenBy(lock_guest, t)}
    BY <1>3 DEF QueueToWrite, LockGuestsToWrite, QueueForGuests, LockGuests
  <2> QED BY <1>0, <2>1, <2>2, LockTypes
<1>4. CASE UserMatches(t)
  <2>1. it[t] \in 1 .. Len(cache)
    BY <1>4 DEF UserMatches, ServerInv, ServerTypeOK
  <2>2. cache[it[t]] \in Stored
    BY <1>0, <2>1, ElementOfSeq
  <2>3. <<cache[it[t]].id, 1>> \in Ids \X {1, 2}
    BY <2>2 DEF Stored
  <2>4. UserImport' \in Seq(Ids \X {1, 2})
    BY <1>0, <1>4, <2>3, AppendType DEF UserMatches, queryADDonDB
  <2> QED BY <1>0, <1>4, <2>4 DEF UserMatches, queryADDonDB
<1>5. CASE GuestMatches(t)
  <2>1. it[t] \in 1 .. Len(cache_guest)
    BY <1>5 DEF GuestMatches, ServerInv, ServerTypeOK
  <2>2. cache_guest[it[t]] \in Stored
    BY <1>0, <2>1, ElementOfSeq
  <2>3. <<cache_guest[it[t]].id, 2>> \in Ids \X {1, 2}
    BY <2>2 DEF Stored
  <2>4. UserImport' \in Seq(Ids \X {1, 2})
    BY <1>0, <1>5, <2>3, AppendType DEF GuestMatches, queryADDonDB
  <2> QED BY <1>0, <1>5, <2>4 DEF GuestMatches, queryADDonDB
<1>6. CASE StoreUser(t)
  <2>1. localmodel[t] \in Models
    BY <1>6 DEF StoreUser, Go, ServerInv, FeatureExtracted
  <2> QED BY <1>0, <1>6, <2>1 DEF StoreUser, addFeature_User
<1>7. CASE AppendGuest(t)
  <2>1. localmodel[t] \in Models /\ request[t] \in Requests
    BY <1>7 DEF AppendGuest, Go, ServerInv, FeatureExtracted, RequestKept
  <2>2. [id |-> request[t].id, model |-> localmodel[t]] \in Stored
    BY <2>1, ServerAssumption DEF Stored
  <2>3. cache_guest' \in Seq(Stored)
    BY <1>0, <1>7, <2>2, AppendType DEF AppendGuest, PushGuest
  <2> QED BY <1>0, <1>7, <2>3 DEF AppendGuest, PushGuest
<1>8. CASE ConnectionLost
  BY <1>0, <1>8 DEF ConnectionLost, LoseConnection
<1> QED
  BY <1>1, <1>2, <1>3, <1>4, <1>5, <1>6, <1>7, <1>8
  DEF Handle, compareFace, addFeature, addFeature_g

-----------------------------------------------------------------------------
\* A step of the pool is a step of the thread that takes it.
LEMMA PoolStepOfOne ==
  ASSUME PoolTypeOK, NEW t \in Threads, popEngineIndex(t) \/ pushEngineIndex(t)
  PROVE  /\ \A u \in Threads : u # t => poolState'[u] = poolState[u]
         /\ popEngineIndex(t) =>
              poolState'[t] \in {"admitted", "reading", "popping", "using"}
         /\ pushEngineIndex(t) => poolState'[t] \in {"pushing", "leaving", "out"}
BY DEF PoolTypeOK, popEngineIndex, pushEngineIndex, Move, Acquire, LockForPop, ReadTop,
   PopTop, LockForPush, PushIndex, Release

LEMMA PcStep ==
  ASSUME ServerInv, NEW t \in Threads,
         Handle(t) \/ \E r \in Requests : onStringMessage(t, r)
  PROVE  PcMatchesPool'
<1> USE DEF Go, Holding
<1>0. PcMatchesPool /\ PoolTypeOK /\ pc \in [Threads -> PCs]
  BY DEF ServerInv, PoolInv, ServerTypeOK
<1>1. CASE TakeEngine(t)
  <2>1. /\ \A u \in Threads : u # t => poolState'[u] = poolState[u] /\ pc'[u] = pc[u]
        /\ poolState'[t] \in {"admitted", "reading", "popping", "using"}
        /\ pc'[t] = IF poolState'[t] = "using" THEN "extracting" ELSE "taking"
    BY <1>0, <1>1, PoolStepOfOne DEF TakeEngine
  <2> QED BY <1>0, <2>1 DEF PcMatchesPool
<1>2. CASE GiveEngine(t)
  <2>1. /\ \A u \in Threads : u # t => poolState'[u] = poolState[u] /\ pc'[u] = pc[u]
        /\ poolState'[t] \in {"pushing", "leaving", "out"}
        /\ poolState'[t] # "out" => pc'[t] = "giving"
        /\ poolState'[t] = "out" => pc'[t] \in {"storing", "replying"}
    BY <1>0, <1>2, PoolStepOfOne DEF GiveEngine
  <2> QED BY <1>0, <2>1 DEF PcMatchesPool
<1>3. CASE \/ \E r \in Requests : onStringMessage(t, r)
           \/ Reply(t) \/ LoadFails(t) \/ StoreUser(t)
  <2>1. UNCHANGED poolState
    BY <1>3 DEF onStringMessage, Reply, LoadFails, StoreUser, poolVars
  <2> QED
    BY <1>0, <1>3, <2>1 DEF PcMatchesPool, onStringMessage, Reply, LoadFails, StoreUser
<1>4. CASE compareFace(t)
  <2>1. UNCHANGED poolState
    BY <1>4 DEF compareFace, ExtractToCompare, Extract, LockUsers, UserMatches,
       UserDiffers, NoUserLeft, FreeUsers, LockGuestsToRead, GuestMatches, GuestDiffers,
       NoGuestLeft, FreeGuests, poolVars
  <2>2. /\ pc[t] \in Holding /\ pc'[t] \in Holding \cup {"giving"}
        /\ \A u \in Threads : u # t => pc'[u] = pc[u]
    BY <1>0, <1>4 DEF compareFace, ExtractToCompare, LockUsers, UserMatches,
       UserDiffers, NoUserLeft, FreeUsers, LockGuestsToRead, GuestMatches, GuestDiffers,
       NoGuestLeft, FreeGuests
  <2> QED BY <1>0, <2>1, <2>2 DEF PcMatchesPool
<1>5. CASE ExtractToAddUser(t) \/ addFeature_g(t)
  <2>1. UNCHANGED poolState
    BY <1>5 DEF addFeature_g, ExtractToAddUser, ExtractToAddGuest, Extract, QueueToWrite,
       LockGuestsToWrite, AppendGuest, UnlockGuests, poolVars
  <2>2. /\ pc[t] \in Holding /\ pc'[t] \in Holding \cup {"giving"}
        /\ \A u \in Threads : u # t => pc'[u] = pc[u]
    BY <1>0, <1>5 DEF addFeature_g, ExtractToAddUser, ExtractToAddGuest, QueueToWrite,
       LockGuestsToWrite, AppendGuest, UnlockGuests
  <2> QED BY <1>0, <2>1, <2>2 DEF PcMatchesPool
<1> QED BY <1>1, <1>2, <1>3, <1>4, <1>5 DEF Handle, addFeature

-----------------------------------------------------------------------------
\* A lock after each of its calls.
LEMMA LockCalls ==
  ASSUME NEW T, NEW l \in Locks(T), NEW t
  PROVE  /\ ReadBy(l, t).readers = l.readers \cup {t}
         /\ ReadBy(l, t).writers = l.writers
         /\ ReadBy(l, t).waiting = l.waiting
         /\ QueuedBy(l, t).readers = l.readers
         /\ QueuedBy(l, t).writers = l.writers
         /\ QueuedBy(l, t).waiting = l.waiting \cup {t}
         /\ WrittenBy(l, t).readers = l.readers
         /\ WrittenBy(l, t).writers = l.writers \cup {t}
         /\ WrittenBy(l, t).waiting = l.waiting \ {t}
         /\ ReleasedBy(l, t).readers = l.readers \ {t}
         /\ ReleasedBy(l, t).writers = l.writers \ {t}
         /\ ReleasedBy(l, t).waiting = l.waiting
BY DEF Locks, ReadBy, QueuedBy, WrittenBy, ReleasedBy

LEMMA LockStep ==
  ASSUME ServerInv, NEW t \in Threads,
         Handle(t) \/ \E r \in Requests : onStringMessage(t, r)
  PROVE  LocksMatchPc' /\ GuestLockExclusive'
<1> USE DEF Go
<1>0. /\ LocksMatchPc /\ GuestLockExclusive /\ pc \in [Threads -> PCs]
      /\ lock_user \in Locks(Threads) /\ lock_guest \in Locks(Threads)
  BY DEF ServerInv, ServerTypeOK, DBTypeOK
<1> DEFINE Held == {"scanUsers", "freeUsers", "scanGuests", "freeGuests",
                    "writeLockGuests", "pushGuest", "unlockGuests"}
\* Steps between states without a lock, or that go on scanning.
<1>1. CASE \/ \E r \in Requests : onStringMessage(t, r)
           \/ Reply(t) \/ TakeEngine(t) \/ GiveEngine(t) \/ LoadFails(t)
           \/ ExtractToCompare(t) \/ ExtractToAddUser(t) \/ ExtractToAddGuest(t)
           \/ StoreUser(t)
  <2>1. UNCHANGED <<lock_user, lock_guest>>
    BY <1>1 DEF onStringMessage, Reply, TakeEngine, GiveEngine, LoadFails,
       ExtractToCompare, ExtractToAddUser, ExtractToAddGuest, Extract, StoreUser,
       addFeature_User, dbVars
  <2>2. /\ pc[t] \notin Held /\ pc'[t] \notin Held
        /\ \A u \in Threads : u # t => pc'[u] = pc[u]
    BY <1>0, <1>1 DEF onStringMessage, Reply, TakeEngine, GiveEngine, LoadFails,
       ExtractToCompare, ExtractToAddUser, ExtractToAddGuest, StoreUser
  <2> QED BY <1>0, <2>1, <2>2 DEF LocksMatchPc, GuestLockExclusive
<1>2. CASE UserMatches(t) \/ UserDiffers(t) \/ NoUserLeft(t)
  <2>1. UNCHANGED <<lock_user, lock_guest>>
    BY <1>2 DEF UserMatches, UserDiffers, NoUserLeft, queryADDonDB, dbVars
  <2> QED
    BY <1>0, <1>2, <2>1
    DEF LocksMatchPc, GuestLockExclusive, UserMatches, UserDiffers, NoUserLeft
<1>3. CASE GuestMatches(t) \/ GuestDiffers(t) \/ NoGuestLeft(t)
  <2>1. UNCHANGED <<lock_user, lock_guest>>
    BY <1>3 DEF GuestMatches, GuestDiffers, NoGuestLeft, queryADDonDB, dbVars
  <2> QED
    BY <1>0, <1>3, <2>1
    DEF LocksMatchPc, GuestLockExclusive, GuestMatches, GuestDiffers, NoGuestLeft
<1>4. CASE AppendGuest(t)
  <2>1. UNCHANGED <<lock_user, lock_guest>>
    BY <1>4 DEF AppendGuest, PushGuest
  <2> QED
    BY <1>0, <1>4, <2>1 DEF LocksMatchPc, GuestLockExclusive, AppendGuest
\* Steps that call a lock.
<1>5. CASE LockUsers(t)
  <2>1. lock_user' = ReadBy(lock_user, t) /\ UNCHANGED lock_guest
    BY <1>5 DEF LockUsers, getCache
  <2> QED
    BY <1>0, <1>5, <2>1, LockCalls DEF LocksMatchPc, GuestLockExclusive, LockUsers
<1>6. CASE FreeUsers(t)
  <2>1. lock_user' = ReleasedBy(lock_user, t) /\ UNCHANGED lock_guest
    BY <1>6 DEF FreeUsers, freeUserLock
  <2>2. /\ pc[t] = "freeUsers" /\ pc'[t] \notin Held
        /\ \A u \in Threads : u # t => pc'[u] = pc[u]
    BY <1>0, <1>6 DEF FreeUsers
  <2> QED BY <1>0, <2>1, <2>2, LockCalls DEF LocksMatchPc, GuestLockExclusive
<1>7. CASE LockGuestsToRead(t)
  <2>1. lock_guest' = ReadBy(lock_guest, t) /\ ReadAllowed(lock_guest)
        /\ UNCHANGED lock_user
    BY <1>7 DEF LockGuestsToRead, getCache_guest
  <2> QED
    BY <1>0, <1>7, <2>1, LockCalls
    DEF LocksMatchPc, GuestLockExclusive, LockGuestsToRead, ReadAllowed
<1>8. CASE FreeGuests(t) \/ UnlockGuests(t)
  <2>1. lock_guest' = ReleasedBy(lock_guest, t) /\ UNCHANGED lock_user
    BY <1>8 DEF FreeGuests, UnlockGuests, freeGuestLock
  <2> QED
    BY <1>0, <1>8, <2>1, LockCalls
    DEF LocksMatchPc, GuestLockExclusive, FreeGuests, UnlockGuests
<1>9. CASE QueueToWrite(t)
  <2>1. lock_guest' = QueuedBy(lock_guest, t) /\ UNCHANGED lock_user
    BY <1>9 DEF QueueToWrite, QueueForGuests
  <2> QED
    BY <1>0, <1>9, <2>1, LockCalls DEF LocksMatchPc, GuestLockExclusive, QueueToWrite
<1>10. CASE LockGuestsToWrite(t)
  <2>1. lock_guest' = WrittenBy(lock_guest, t) /\ WriteAllowed(lock_guest)
        /\ UNCHANGED lock_user
    BY <1>10 DEF LockGuestsToWrite, LockGuests
  <2> QED
    BY <1>0, <1>10, <2>1, LockCalls
    DEF LocksMatchPc, GuestLockExclusive, LockGuestsToWrite, WriteAllowed
<1> QED
  BY <1>1, <1>2, <1>3, <1>4, <1>5, <1>6, <1>7, <1>8, <1>9, <1>10
  DEF Handle, compareFace, addFeature, addFeature_g

-----------------------------------------------------------------------------
LEMMA RequestStep ==
  ASSUME ServerInv, NEW t \in Threads,
         Handle(t) \/ \E r \in Requests : onStringMessage(t, r)
  PROVE  FeatureExtracted' /\ Decided' /\ RequestKept'
<1> USE DEF Go, Return
<1>0. /\ FeatureExtracted /\ Decided /\ RequestKept /\ LocalTypeOK
      /\ NoModel \notin Models
  BY DBAssumption DEF ServerInv, ServerTypeOK, LocalTypeOK
<1>1. CASE \E r \in Requests : onStringMessage(t, r)
  BY <1>0, <1>1 DEF onStringMessage, FeatureExtracted, Decided, RequestKept, LocalTypeOK
<1>2. CASE Reply(t)
  BY <1>0, <1>2 DEF Reply, FeatureExtracted, Decided, RequestKept, LocalTypeOK
<1>3. CASE TakeEngine(t)
  BY <1>0, <1>3 DEF TakeEngine, FeatureExtracted, Decided, RequestKept, LocalTypeOK
<1>4. CASE GiveEngine(t)
  <2>1. /\ UNCHANGED <<request, localmodel, result>>
        /\ pc[t] = "giving" /\ pc'[t] \in {"giving", "storing", "replying"}
        /\ pc'[t] = "storing" => result[t] = "none"
        /\ pc'[t] = "replying" => result[t] # "none"
        /\ \A u \in Threads : u # t => pc'[u] = pc[u]
    BY <1>0, <1>4 DEF GiveEngine, LocalTypeOK
  <2> QED BY <1>0, <2>1 DEF FeatureExtracted, Decided, RequestKept
<1>5. CASE LoadFails(t)
  BY <1>0, <1>5 DEF LoadFails, FeatureExtracted, Decided, RequestKept, LocalTypeOK
<1>6. CASE ExtractToCompare(t) \/ ExtractToAddUser(t) \/ ExtractToAddGuest(t)
  <2>1. /\ UNCHANGED request /\ pc[t] = "extracting"
        /\ \A u \in Threads : u # t => /\ pc'[u] = pc[u]
                                       /\ localmodel'[u] = localmodel[u]
                                       /\ result'[u] = result[u]
    BY <1>0, <1>6 DEF ExtractToCompare, ExtractToAddUser, ExtractToAddGuest, Extract,
       LocalTypeOK
  <2>2. localmodel'[t] \in Models \cup {NoModel}
    BY <1>0, <1>6
    DEF ExtractToCompare, ExtractToAddUser, ExtractToAddGuest, Extract, Feature, LocalTypeOK
  <2>3. \/ pc'[t] = "lockUsers"
        \/ pc'[t] = "giving" /\ (result'[t] = "none" => localmodel'[t] # NoModel)
        \/ pc'[t] = "queueGuests" /\ localmodel'[t] # NoModel
    BY <1>0, <1>6 DEF ExtractToCompare, ExtractToAddUser, ExtractToAddGuest, LocalTypeOK
  <2> QED BY <1>0, <2>1, <2>2, <2>3 DEF FeatureExtracted, Decided, RequestKept
<1>7. CASE LockUsers(t) \/ UserDiffers(t) \/ NoUserLeft(t) \/ LockGuestsToRead(t)
           \/ GuestDiffers(t)
  BY <1>0, <1>7 DEF LockUsers, UserDiffers, NoUserLeft, LockGuestsToRead, GuestDiffers,
     FeatureExtracted, Decided, RequestKept, LocalTypeOK
<1>8. CASE UserMatches(t) \/ GuestMatches(t) \/ NoGuestLeft(t)
  BY <1>0, <1>8 DEF UserMatches, GuestMatches, NoGuestLeft, FeatureExtracted, Decided, RequestKept,
     LocalTypeOK
<1>9. CASE FreeUsers(t)
  <2>1. /\ UNCHANGED <<request, localmodel, result>> /\ pc[t] = "freeUsers"
        /\ pc'[t] = "lockGuests" \/ (pc'[t] = "giving" /\ result[t] = "ok")
        /\ \A u \in Threads : u # t => pc'[u] = pc[u]
    BY <1>0, <1>9 DEF FreeUsers, LocalTypeOK
  <2> QED BY <1>0, <2>1 DEF FeatureExtracted, Decided, RequestKept
<1>10. CASE FreeGuests(t) \/ UnlockGuests(t)
  <2>1. result[t] # "none"
    BY <1>0, <1>10 DEF FreeGuests, UnlockGuests, Decided
  <2> QED
    BY <1>0, <1>10, <2>1 DEF FreeGuests, UnlockGuests, FeatureExtracted, Decided,
       RequestKept, LocalTypeOK
<1>11. CASE StoreUser(t) \/ AppendGuest(t)
  BY <1>0, <1>11 DEF StoreUser, AppendGuest, FeatureExtracted, Decided, RequestKept, LocalTypeOK
<1>12. CASE QueueToWrite(t) \/ LockGuestsToWrite(t)
  BY <1>0, <1>12 DEF QueueToWrite, LockGuestsToWrite, FeatureExtracted, Decided, RequestKept,
     LocalTypeOK
<1> QED
  BY <1>1, <1>2, <1>3, <1>4, <1>5, <1>6, <1>7, <1>8, <1>9, <1>10, <1>11, <1>12
  DEF Handle, compareFace, addFeature, addFeature_g

-----------------------------------------------------------------------------
LEMMA StepInv == ServerInv /\ [Next]_vars => ServerInv'
<1> SUFFICES ASSUME ServerInv, [Next]_vars PROVE ServerInv'
  OBVIOUS
<1>1. ASSUME NEW t \in Threads, Handle(t) \/ \E r \in Requests : onStringMessage(t, r)
      PROVE  ServerInv'
  <2>1. PoolInv'
    BY <1>1, StepOfPool, PoolInvStep DEF ServerInv
  <2>2. DBTypeOK(Threads)'
    BY <1>1, DBTypeStep
  <2>3. LocalTypeOK'
    BY <1>1, LocalTypeStep
  <2>4. ready' = ready /\ restarts' = restarts /\ received' \in 0 .. MaxRequests
    <3>1. CASE Handle(t)
      <4>1. UNCHANGED <<ready, received, restarts>>
        BY <3>1
        DEF Handle, compareFace, addFeature, addFeature_g, Reply, TakeEngine, GiveEngine,
        LoadFails, ExtractToCompare, ExtractToAddUser, ExtractToAddGuest, Extract,
        LockUsers, UserMatches, UserDiffers, NoUserLeft, FreeUsers, LockGuestsToRead,
        GuestMatches, GuestDiffers, NoGuestLeft, FreeGuests, StoreUser, QueueToWrite,
        LockGuestsToWrite, AppendGuest, UnlockGuests, Rest
      <4> QED BY <4>1 DEF ServerInv, ServerTypeOK
    <3>2. CASE \E r \in Requests : onStringMessage(t, r)
      <4>1. /\ received' = received + 1 /\ received < MaxRequests
            /\ ready' = ready /\ restarts' = restarts
        BY <3>2 DEF onStringMessage
      <4> QED BY <4>1, ServerAssumption DEF ServerInv, ServerTypeOK
    <3> QED BY <1>1, <3>1, <3>2
  <2>5. ServerTypeOK'
    BY <2>1, <2>2, <2>3, <2>4 DEF ServerInv, ServerTypeOK, PoolInv, LocalTypeOK
  <2>6. PcMatchesPool'
    BY <1>1, PcStep
  <2>7. LocksMatchPc' /\ GuestLockExclusive'
    BY <1>1, LockStep
  <2>8. FeatureExtracted' /\ Decided' /\ RequestKept'
    BY <1>1, RequestStep
  <2> QED BY <2>1, <2>5, <2>6, <2>7, <2>8 DEF ServerInv
<1>2. CASE ConnectionLost
  <2>1. UNCHANGED <<poolVars, Rest, localVars, lock_user, lock_guest>>
    BY <1>2 DEF ConnectionLost, LoseConnection
  <2>2. \E t \in Threads : TRUE
    BY PoolAssumption
  <2>3. DBTypeOK(Threads)'
    BY <1>2, <2>2, DBTypeStep
  <2>4. PoolInv'
    BY <2>1, PoolInvStep DEF ServerInv
  <2> QED
    BY <2>1, <2>3, <2>4 DEF ServerInv, ServerTypeOK, PoolInv, PcMatchesPool,
       LocksMatchPc, GuestLockExclusive, FeatureExtracted, Decided, RequestKept, poolVars,
       localVars, Rest
<1>3. CASE Restart
  BY <1>3, RestartInv
<1>4. CASE UNCHANGED vars
  <2>1. PoolInv'
    BY <1>4, PoolInvStep DEF ServerInv, vars
  <2> QED
    BY <1>4, <2>1 DEF ServerInv, ServerTypeOK, DBTypeOK, PoolInv, PcMatchesPool,
       LocksMatchPc, GuestLockExclusive, FeatureExtracted, Decided, RequestKept, vars,
       dbVars, tables, poolVars, localVars
<1> QED BY <1>1, <1>2, <1>3, <1>4 DEF Next

-----------------------------------------------------------------------------
\* ServerInv is inductive.
THEOREM ServerInvariant == Spec => []ServerInv
BY InitInv, StepInv, PTL DEF Spec

\* The variables of the compare server keep their types, in particular nothing
\* but users and guests with an extracted feature enters the lists.
THEOREM ServerTypeCorrect == Spec => []ServerTypeOK
BY ServerInvariant, PTL DEF ServerInv

\* compareFace, addFeature and addFeature_g never call the face SDK on an
\* engine that another thread calls.
THEOREM ServerExclusion == Spec => []NoSharedEngine
<1>1. ServerInv => NoSharedEngine
  BY DEF ServerInv, PcMatchesPool, Holding, PoolInv, EngineExclusive, Users, In,
     NoSharedEngine, InSDK
<1> QED BY <1>1, ServerInvariant, PTL

\* A handler that is done holds no engine and no lock, whatever path it took.
THEOREM ServerReleases == Spec => []IdleHoldsNothing
<1>1. ServerInv => IdleHoldsNothing
  BY DEF ServerInv, PcMatchesPool, LocksMatchPc, IdleHoldsNothing, Involves
<1> QED BY <1>1, ServerInvariant, PTL

\* addFeature_Guest never changes the list of guests that compareFace walks.
THEOREM ServerScansStableList == Spec => GuestsStableDuringScan
<1> DEFINE Stable == \A t \in Threads :
      pc[t] = "scanGuests" /\ pc'[t] \in {"scanGuests", "freeGuests"} =>
        cache_guest' = cache_guest
<1>1. ServerInv /\ [Next]_vars => Stable
  <2> SUFFICES ASSUME ServerInv, [Next]_vars, cache_guest' # cache_guest,
                      NEW t \in Threads, pc[t] = "scanGuests", pc'[t] # "idle"
               PROVE  FALSE
    OBVIOUS
  <2>1. ~Restart
    BY DEF Restart
  <2>2. PICK u \in Threads : AppendGuest(u)
    BY <2>1
    DEF Next, vars, Handle, compareFace, addFeature, addFeature_g, onStringMessage, Reply,
    TakeEngine, GiveEngine, LoadFails, ExtractToCompare, ExtractToAddUser,
    ExtractToAddGuest, Extract, LockUsers, UserMatches, UserDiffers, NoUserLeft, FreeUsers,
    LockGuestsToRead, GuestMatches, GuestDiffers, NoGuestLeft, FreeGuests, StoreUser,
    QueueToWrite, LockGuestsToWrite, UnlockGuests, ConnectionLost, LoseConnection, dbVars,
    getCache, freeUserLock, getCache_guest, freeGuestLock, QueueForGuests, LockGuests,
    queryADDonDB, addFeature_User
  <2>3. u \in lock_guest.writers /\ t \in lock_guest.readers
    BY <2>2 DEF AppendGuest, Go, ServerInv, LocksMatchPc
  <2> QED BY <2>3 DEF ServerInv, GuestLockExclusive
<1> QED BY <1>1, ServerInvariant, PTL DEF Spec, GuestsStableDuringScan

-----------------------------------------------------------------------------
(***************************************************************************)
(* FaceServer implements FaceGate, for any number of threads, engines,     *)
(* users, guests, requests and restarts.  ServerInv says what a thread     *)
(* holds; what the refinement needs besides is how far its request has     *)
(* come (CourseOf): whether the answer is decided, which kind of request   *)
(* takes this path, what its local feature was extracted from, and which   *)
(* entries of the two lists that feature has been compared with.           *)
(***************************************************************************)
\* Where the answer of a request is still open, but for "freeUsers" and "giving".
Open ==
  {"idle", "taking", "extracting", "lockUsers", "scanUsers", "lockGuests", "scanGuests",
   "queueGuests", "writeLockGuests", "pushGuest", "storing"}

Comparing == {"lockUsers", "scanUsers", "freeUsers", "lockGuests", "scanGuests", "freeGuests"}

AddingGuest == {"queueGuests", "writeLockGuests", "pushGuest", "unlockGuests"}

\* addFeature has a feature and is on its way to the table.
AddingUser(t) == pc[t] = "storing" \/ (pc[t] = "giving" /\ result[t] = "none")

KindMatchesPc(t) ==
  /\ pc[t] = "idle" => request[t] = NoRequest
  /\ pc[t] \in Comparing => request[t].kind = "comp"
  /\ pc[t] \in AddingGuest => request[t].kind = "addg"
  /\ AddingUser(t) => request[t].kind = "addu"

\* The feature a thread works with is one that FaceGate allows for the picture.
FeatureShown(t) ==
  pc[t] \in Comparing \cup AddingGuest \/ AddingUser(t) =>
    request[t].pic # Unreadable /\ localmodel[t] \in Gate!Shown(request[t].pic)

\* No entry of a list before position n has feature f.
NoneBefore(list, n, f) == \A k \in 1 .. Len(list) : k < n => list[k].model # f

NoneIn(list, f) == \A k \in 1 .. Len(list) : list[k].model # f

\* Where the scan of the users has come to its end without a match.
UsersDone(t) ==
  pc[t] \in {"lockGuests", "scanGuests"} \/ (pc[t] = "freeUsers" /\ result[t] = "none")

ListsCompared(t) ==
  /\ pc[t] = "scanUsers" => NoneBefore(cache, it[t], localmodel[t])
  /\ UsersDone(t) => NoneIn(cache, localmodel[t])
  /\ pc[t] = "scanGuests" => NoneBefore(cache_guest, it[t], localmodel[t])

CourseOf(t) ==
  /\ pc[t] \in Open => result[t] = "none"
  /\ pc[t] = "freeUsers" => result[t] # "no"
  /\ KindMatchesPc(t)
  /\ FeatureShown(t)
  /\ ListsCompared(t)

CourseInv == \A t \in Threads : CourseOf(t)

-----------------------------------------------------------------------------
\* What updateFeature loads is what FaceGate calls loaded: the rows with a feature,
\* each once, in some order, or nothing.
LEMMA LoadedAsPromised ==
  ASSUME NEW table \in [Registered -> Models \cup {NoModel}], NEW up \in BOOLEAN,
         NEW list \in updateFeature(table, up)
  PROVE  Gate!Loaded(list, table, up)
<1> DEFINE rows == Rows(table)
           n == Cardinality(rows)
<1>1. CASE list = <<>>
  BY <1>1 DEF Gate!Loaded
<1>2. CASE up /\ list \in Listings(rows)
  <2>1. list \in [1 .. n -> rows] /\ \A i, j \in 1 .. n : list[i] = list[j] => i = j
    BY <1>2 DEF Listings
  <2>2. IsFiniteSet(rows)
    BY RowsAreUsers
  <2>3. n \in Nat /\ IsFiniteSet(1 .. n) /\ Cardinality(1 .. n) = n
    BY <2>2, FS_CardinalityType, FS_Interval
  <2> HIDE DEF n
  <2>4. list \in Injection(1 .. n, rows)
    BY <2>1 DEF Injection, IsInjective
  <2>5. list \in Surjection(1 .. n, rows)
    BY <2>2, <2>3, <2>4, FS_Injection DEF n
  <2>6. {list[i] : i \in 1 .. n} = rows
    BY <2>5 DEF Surjection
  <2>7. DOMAIN list = 1 .. n
    BY <2>1
  <2>8. rows = {[id |-> i, model |-> table[i]] : i \in {j \in DOMAIN table : table[j] # NoModel}}
    BY DEF Rows
  <2> HIDE DEF rows
  <2> QED BY <1>2, <2>1, <2>6, <2>7, <2>8 DEF Gate!Loaded, Gate!ElementsOf
<1> QED BY <1>1, <1>2 DEF updateFeature

\* getFeature yields the picture's feature or none, and none only if the picture has
\* none or an engine did not start.
LEMMA ExtractsWhatIsShown ==
  ASSUME NEW e \in Engines, NEW pic
  PROVE  Feature(e, pic) \in Gate!Shown(pic)
<1>1. CASE e \in ready /\ pic \in Models
  BY <1>1 DEF Feature, Gate!Shown
<1>2. CASE ~(e \in ready /\ pic \in Models)
  <2>1. ~(pic \in Models /\ ready = Engines)
    BY <1>2
  <2> QED BY <1>2, <2>1 DEF Feature, Gate!Shown
<1> QED BY <1>1, <1>2

\* Looking for a feature in a list that does not have it.
LEMMA NobodyMust ==
  ASSUME NEW list \in Seq(Stored), NEW f, NoneIn(list, f)
  PROVE  ~Gate!MustMatch(list, f)
<1>1. DOMAIN list = 1 .. Len(list)
  BY LenProperties
<1> QED BY <1>1 DEF NoneIn, Gate!MustMatch, Gate!ElementsOf

-----------------------------------------------------------------------------
\* A step of a handler changes the locals of its own thread only, and neither the
\* engines that started nor the list of users.
LEMMA OthersStay ==
  ASSUME ServerInv, NEW t \in Threads,
         Handle(t) \/ \E r \in Requests : onStringMessage(t, r)
  PROVE  /\ UNCHANGED <<ready, cache>>
         /\ \A u \in Threads : u # t =>
              /\ pc'[u] = pc[u] /\ request'[u] = request[u] /\ localmodel'[u] = localmodel[u]
              /\ it'[u] = it[u] /\ result'[u] = result[u]
         /\ cache_guest' # cache_guest => AppendGuest(t)
<1> USE DEF LocalTypeOK, Go, Return, Rest, dbVars
<1>0. LocalTypeOK
  BY DEF ServerInv, ServerTypeOK
<1>1. CASE \E r \in Requests : onStringMessage(t, r)
  BY <1>0, <1>1 DEF onStringMessage
<1>2. CASE TakeEngine(t) \/ GiveEngine(t) \/ Reply(t) \/ LoadFails(t)
  BY <1>0, <1>2 DEF TakeEngine, GiveEngine, Reply, LoadFails
<1>3. CASE ExtractToCompare(t) \/ ExtractToAddUser(t) \/ ExtractToAddGuest(t)
  BY <1>0, <1>3 DEF ExtractToCompare, ExtractToAddUser, ExtractToAddGuest, Extract
<1>4. CASE LockUsers(t) \/ UserMatches(t) \/ UserDiffers(t) \/ NoUserLeft(t) \/ FreeUsers(t)
  BY <1>0, <1>4 DEF LockUsers, UserMatches, UserDiffers, NoUserLeft, FreeUsers, getCache,
     freeUserLock, queryADDonDB
<1>5. CASE \/ LockGuestsToRead(t) \/ GuestMatches(t) \/ GuestDiffers(t) \/ NoGuestLeft(t)
           \/ FreeGuests(t)
  BY <1>0, <1>5 DEF LockGuestsToRead, GuestMatches, GuestDiffers, NoGuestLeft, FreeGuests,
     getCache_guest, freeGuestLock, queryADDonDB
<1>6. CASE StoreUser(t) \/ AppendGuest(t)
  BY <1>0, <1>6 DEF StoreUser, AppendGuest, addFeature_User, PushGuest
<1>7. CASE QueueToWrite(t) \/ LockGuestsToWrite(t) \/ UnlockGuests(t)
  BY <1>0, <1>7 DEF QueueToWrite, LockGuestsToWrite, UnlockGuests, QueueForGuests, LockGuests,
     freeGuestLock
<1> QED
  BY <1>1, <1>2, <1>3, <1>4, <1>5, <1>6, <1>7
  DEF Handle, compareFace, addFeature, addFeature_g

\* So the others' requests stay as far as they have come: a guest is only added when
\* nobody compares the guests.
LEMMA OthersCourse ==
  ASSUME ServerInv, CourseInv, NEW t \in Threads,
         Handle(t) \/ (\E r \in Requests : onStringMessage(t, r)),
         NEW u \in Threads, u # t
  PROVE  CourseOf(u)'
<1>1. /\ UNCHANGED <<ready, cache>>
      /\ pc'[u] = pc[u] /\ request'[u] = request[u] /\ localmodel'[u] = localmodel[u]
      /\ it'[u] = it[u] /\ result'[u] = result[u]
      /\ cache_guest' # cache_guest => AppendGuest(t)
  BY OthersStay
<1>2. CourseOf(u)
  BY DEF CourseInv
<1>3. AppendGuest(t) => pc[u] # "scanGuests"
  BY DEF AppendGuest, Go, ServerInv, LocksMatchPc, GuestLockExclusive
<1>4. FeatureShown(u)'
  BY <1>1, <1>2 DEF CourseOf, FeatureShown, AddingUser, Gate!Shown
<1>5. ListsCompared(u)'
  BY <1>1, <1>2, <1>3 DEF CourseOf, ListsCompared, UsersDone, NoneBefore, NoneIn
<1> QED BY <1>1, <1>2, <1>4, <1>5 DEF CourseOf, KindMatchesPc, AddingUser

-----------------------------------------------------------------------------
\* Only an engine that getFeature may be called on yields a feature, and it is one
\* that FaceGate allows.
LEMMA ExtractCourse ==
  ASSUME ServerInv, NEW t \in Threads, pc[t] = "extracting", Extract(t)
  PROVE  /\ UNCHANGED <<ready, request>>
         /\ request[t].pic # Unreadable
         /\ localmodel'[t] \in Gate!Shown(request[t].pic)
         /\ localmodel'[t] \in Gate!Shown(request[t].pic)'
<1>1. curEngineIndex[t] \in Engines
  BY DEF ServerInv, PcMatchesPool, Holding, PoolInv, EngineExclusive, Users, In
<1>2. localmodel'[t] = Feature(curEngineIndex[t], request[t].pic)
  BY DEF Extract, ServerInv, ServerTypeOK
<1>3. UNCHANGED <<ready, request>> /\ request[t].pic # Unreadable
  BY DEF Extract, Rest
<1>4. localmodel'[t] \in Gate!Shown(request[t].pic)
  BY <1>1, <1>2, ExtractsWhatIsShown
<1> QED BY <1>3, <1>4 DEF Gate!Shown

\* A comparison that says no has seen another feature, or has compared without one.
LEMMA Differs ==
  ASSUME NEW list \in Seq(Stored), NEW i \in 1 .. Len(list), NEW f,
         FALSE \in compareFeature(list[i].model, f)
  PROVE  list[i].model # f
<1>1. list[i].model \in Models
  <2>1. list[i] \in Stored
    BY ElementOfSeq
  <2> QED BY <2>1 DEF Stored
<1> QED BY <1>1, DBAssumption DEF compareFeature

\* One entry more has been compared.
LEMMA OneMore ==
  ASSUME NEW list \in Seq(Stored), NEW i \in 1 .. Len(list), NEW f,
         NoneBefore(list, i, f), list[i].model # f
  PROVE  NoneBefore(list, i + 1, f)
<1>1. Len(list) \in Nat
  BY LenProperties
<1> QED BY <1>1 DEF NoneBefore

LEMMA AllCompared ==
  ASSUME NEW list \in Seq(Stored), NEW n \in Nat, NEW f,
         NoneBefore(list, n, f), n > Len(list)
  PROVE  NoneIn(list, f)
<1>1. Len(list) \in Nat
  BY LenProperties
<1> QED BY <1>1 DEF NoneBefore, NoneIn

\* The request of the thread that steps comes as far as CourseOf says.
LEMMA CourseStep ==
  ASSUME ServerInv, CourseInv, NEW t \in Threads,
         Handle(t) \/ \E r \in Requests : onStringMessage(t, r)
  PROVE  CourseOf(t)'
<1> USE DEF Go, Return
<1>0. /\ CourseOf(t) /\ LocalTypeOK
      /\ cache \in Seq(Stored) /\ cache_guest \in Seq(Stored)
      /\ UNCHANGED <<ready, cache>>
  BY OthersStay DEF CourseInv, ServerInv, ServerTypeOK, DBTypeOK, LocalTypeOK
<1> DEFINE Nowhere == {"idle", "taking", "extracting", "replying"}
\* Where nothing but the answer and the kind is to be said.
<1>1. ASSUME pc'[t] \in Nowhere \/ (pc'[t] = "giving" /\ result'[t] # "none"),
             pc'[t] \in Open => result'[t] = "none",
             pc'[t] = "idle" => request'[t] = NoRequest
      PROVE  CourseOf(t)'
  BY <1>1 DEF CourseOf, KindMatchesPc, FeatureShown, ListsCompared, Comparing, AddingGuest,
     AddingUser, UsersDone
<1>2. CASE \E r \in Requests : onStringMessage(t, r)
  BY <1>0, <1>1, <1>2 DEF onStringMessage, CourseOf, LocalTypeOK, Open
<1>3. CASE Reply(t)
  BY <1>0, <1>1, <1>3 DEF Reply, LocalTypeOK
<1>4. CASE TakeEngine(t)
  BY <1>0, <1>1, <1>4 DEF TakeEngine, CourseOf, LocalTypeOK, Open
<1>5. CASE LoadFails(t)
  BY <1>0, <1>1, <1>5 DEF LoadFails, LocalTypeOK, Open
<1>6. CASE FreeGuests(t) \/ UnlockGuests(t)
  <2>1. pc'[t] = "giving" /\ result'[t] # "none"
    BY <1>0, <1>6 DEF FreeGuests, UnlockGuests, LocalTypeOK, ServerInv, Decided
  <2> QED BY <1>1, <2>1 DEF Open
<1>7. CASE StoreUser(t)
  BY <1>0, <1>1, <1>7 DEF StoreUser, LocalTypeOK, Open
<1>8. CASE GiveEngine(t)
  <2>1. /\ UNCHANGED <<request, localmodel, it, result>>
        /\ pc'[t] \in {"giving", "storing", "replying"}
        /\ pc'[t] = "storing" => result[t] = "none"
        /\ pc[t] = "giving"
    BY <1>0, <1>8 DEF GiveEngine, LocalTypeOK
  <2>2. AddingUser(t)' => AddingUser(t)
    BY <2>1 DEF AddingUser
  <2>3. FeatureShown(t)'
    BY <1>0, <2>1, <2>2 DEF CourseOf, FeatureShown, Comparing, AddingGuest, Gate!Shown
  <2> QED
    BY <1>0, <2>1, <2>2, <2>3
    DEF CourseOf, KindMatchesPc, ListsCompared, UsersDone, Open, Comparing, AddingGuest
<1>9. CASE ExtractToCompare(t) \/ ExtractToAddUser(t) \/ ExtractToAddGuest(t)
  <2>1. pc[t] = "extracting" /\ Extract(t) /\ result[t] = "none"
    BY <1>0, <1>9 DEF ExtractToCompare, ExtractToAddUser, ExtractToAddGuest, CourseOf, Open
  <2>2. /\ \/ pc'[t] = "lockUsers" /\ request[t].kind = "comp"
           \/ pc'[t] = "giving" /\ (result'[t] = "none" => request[t].kind = "addu")
           \/ pc'[t] = "queueGuests" /\ request[t].kind = "addg"
        /\ pc'[t] # "giving" => result'[t] = result[t]
    BY <1>0, <1>9 DEF ExtractToCompare, ExtractToAddUser, ExtractToAddGuest, LocalTypeOK
  <2>3. UNCHANGED request /\ FeatureShown(t)'
    BY <2>1, ExtractCourse DEF FeatureShown
  <2> QED
    BY <2>1, <2>2, <2>3
    DEF CourseOf, KindMatchesPc, ListsCompared, UsersDone, AddingUser, Open, Comparing, AddingGuest
\* From here on the thread has its feature; what it was extracted from stays.
<1>10. ASSUME pc[t] \in Comparing \cup AddingGuest, pc'[t] \in Comparing \cup AddingGuest,
              pc[t] \in Comparing <=> pc'[t] \in Comparing,
              UNCHANGED <<request, localmodel>>
       PROVE  KindMatchesPc(t)' /\ FeatureShown(t)'
  BY <1>0, <1>10
  DEF CourseOf, KindMatchesPc, FeatureShown, AddingUser, Comparing, AddingGuest, Gate!Shown
<1>11. CASE \/ QueueToWrite(t) \/ LockGuestsToWrite(t) \/ AppendGuest(t)
  <2>1. /\ pc[t] \in AddingGuest /\ pc'[t] \in AddingGuest /\ UNCHANGED <<request, localmodel>>
        /\ pc'[t] \in Open => pc[t] \in Open /\ result'[t] = result[t]
    BY <1>0, <1>11
    DEF QueueToWrite, LockGuestsToWrite, AppendGuest, AddingGuest, LocalTypeOK, Open
  <2>2. KindMatchesPc(t)' /\ FeatureShown(t)'
    BY <1>10, <2>1 DEF Comparing, AddingGuest
  <2> QED
    BY <1>0, <2>1, <2>2 DEF CourseOf, ListsCompared, UsersDone, AddingGuest
<1>12. CASE LockUsers(t) \/ UserDiffers(t) \/ NoUserLeft(t)
  <2>1. /\ pc[t] \in {"lockUsers", "scanUsers"} /\ pc'[t] \in {"scanUsers", "freeUsers"}
        /\ UNCHANGED <<request, localmodel, result, cache>> /\ result[t] = "none"
    BY <1>0, <1>12 DEF LockUsers, UserDiffers, NoUserLeft, LocalTypeOK, CourseOf, Open
  <2>2. KindMatchesPc(t)' /\ FeatureShown(t)'
    BY <1>10, <2>1 DEF Comparing, AddingGuest
  <2>3. ListsCompared(t)'
    <3>1. CASE LockUsers(t)
      BY <1>0, <3>1 DEF LockUsers, LocalTypeOK, ListsCompared, UsersDone, NoneBefore
    <3>2. CASE UserDiffers(t)
      <4>1. /\ it[t] \in 1 .. Len(cache) /\ pc[t] = "scanUsers" /\ pc'[t] = "scanUsers"
            /\ it'[t] = it[t] + 1 /\ FALSE \in compareFeature(cache[it[t]].model, localmodel[t])
        <5>1. it[t] \in Nat \ {0} /\ it[t] <= Len(cache) /\ Len(cache) \in Nat
          BY <1>0, <3>2, LenProperties DEF UserDiffers, LocalTypeOK
        <5>2. it' = [it EXCEPT ![t] = it[t] + 1]
          BY <3>2 DEF UserDiffers
        <5>3. FALSE \in compareFeature(cache[it[t]].model, localmodel[t])
          BY <3>2, Zenon DEF UserDiffers
        <5>4. pc[t] = pc'[t] /\ it'[t] = it[t] + 1 /\ it[t] \in 1 .. Len(cache)
          BY <1>0, <3>2, <5>1, <5>2 DEF UserDiffers, LocalTypeOK
        <5> QED BY <2>1, <3>2, <5>3, <5>4 DEF UserDiffers
      <4>2. NoneBefore(cache, it[t] + 1, localmodel[t])
        BY <1>0, <4>1, Differs, OneMore DEF CourseOf, ListsCompared
      <4> QED BY <2>1, <4>1, <4>2 DEF ListsCompared, UsersDone, NoneBefore
    <3>3. CASE NoUserLeft(t)
      <4>1. it[t] \in Nat /\ it[t] > Len(cache) /\ pc[t] = "scanUsers" /\ pc'[t] = "freeUsers"
        BY <1>0, <3>3 DEF NoUserLeft, LocalTypeOK
      <4>2. NoneIn(cache, localmodel[t])
        BY <1>0, <4>1, AllCompared DEF CourseOf, ListsCompared
      <4> QED BY <2>1, <4>1, <4>2 DEF ListsCompared, UsersDone, NoneIn
    <3> QED BY <1>12, <3>1, <3>2, <3>3
  <2> QED BY <1>0, <2>1, <2>2, <2>3 DEF CourseOf
<1>13. CASE UserMatches(t) \/ GuestMatches(t) \/ NoGuestLeft(t)
  <2>1. /\ pc[t] \in {"scanUsers", "scanGuests"} /\ pc'[t] \in {"freeUsers", "freeGuests"}
        /\ UNCHANGED <<request, localmodel>> /\ result'[t] # "none"
        /\ pc'[t] = "freeUsers" => result'[t] = "ok"
    BY <1>0, <1>13 DEF UserMatches, GuestMatches, NoGuestLeft, LocalTypeOK
  <2>2. KindMatchesPc(t)' /\ FeatureShown(t)'
    BY <1>10, <2>1 DEF Comparing, AddingGuest
  <2> QED BY <2>1, <2>2 DEF CourseOf, ListsCompared, UsersDone, Open
<1>14. CASE FreeUsers(t)
  <2>1. /\ UNCHANGED <<request, localmodel, it, result, cache>> /\ pc[t] = "freeUsers"
        /\ result[t] = "ok" => pc'[t] = "giving"
        /\ result[t] # "ok" => pc'[t] = "lockGuests" /\ result[t] = "none"
    BY <1>0, <1>14 DEF FreeUsers, LocalTypeOK, CourseOf
  <2>2. CASE result[t] = "ok"
    BY <1>1, <2>1, <2>2 DEF Open
  <2>3. CASE result[t] # "ok"
    <3>1. KindMatchesPc(t)' /\ FeatureShown(t)'
      BY <1>10, <2>1, <2>3 DEF Comparing, AddingGuest
    <3>2. NoneIn(cache, localmodel[t])
      BY <1>0, <2>1, <2>3 DEF CourseOf, ListsCompared, UsersDone
    <3> QED BY <2>1, <2>3, <3>1, <3>2 DEF CourseOf, ListsCompared, UsersDone, NoneIn
  <2> QED BY <2>2, <2>3
<1>15. CASE LockGuestsToRead(t) \/ GuestDiffers(t)
  <2>1. /\ pc[t] \in {"lockGuests", "scanGuests"} /\ pc'[t] = "scanGuests"
        /\ UNCHANGED <<request, localmodel, result, cache, cache_guest>> /\ result[t] = "none"
    BY <1>0, <1>15
    DEF LockGuestsToRead, GuestDiffers, getCache_guest, dbVars, LocalTypeOK, CourseOf, Open
  <2>2. KindMatchesPc(t)' /\ FeatureShown(t)'
    BY <1>10, <2>1 DEF Comparing, AddingGuest
  <2>3. NoneIn(cache, localmodel[t])
    BY <1>0, <2>1 DEF CourseOf, ListsCompared, UsersDone
  <2>4. NoneBefore(cache_guest, it'[t], localmodel[t])
    <3>1. CASE LockGuestsToRead(t)
      BY <1>0, <3>1 DEF LockGuestsToRead, LocalTypeOK, NoneBefore
    <3>2. CASE GuestDiffers(t)
      <4>1. /\ it[t] \in 1 .. Len(cache_guest) /\ pc[t] = "scanGuests" /\ pc'[t] = "scanGuests"
            /\ it'[t] = it[t] + 1 /\ FALSE \in compareFeature(cache_guest[it[t]].model, localmodel[t])
        <5>1. it[t] \in Nat \ {0} /\ it[t] <= Len(cache_guest) /\ Len(cache_guest) \in Nat
          BY <1>0, <3>2, LenProperties DEF GuestDiffers, LocalTypeOK
        <5>2. it' = [it EXCEPT ![t] = it[t] + 1]
          BY <3>2 DEF GuestDiffers
        <5>3. FALSE \in compareFeature(cache_guest[it[t]].model, localmodel[t])
          BY <3>2, Zenon DEF GuestDiffers
        <5>4. pc[t] = pc'[t] /\ it'[t] = it[t] + 1 /\ it[t] \in 1 .. Len(cache_guest)
          BY <1>0, <3>2, <5>1, <5>2 DEF GuestDiffers, LocalTypeOK
        <5> QED BY <2>1, <3>2, <5>3, <5>4 DEF GuestDiffers
      <4> QED BY <1>0, <4>1, Differs, OneMore DEF CourseOf, ListsCompared
    <3> QED BY <1>15, <3>1, <3>2
  <2>5. ListsCompared(t)'
    BY <2>1, <2>3, <2>4 DEF ListsCompared, UsersDone, NoneIn, NoneBefore
  <2> QED BY <2>1, <2>2, <2>5 DEF CourseOf
<1> QED
  BY <1>2, <1>3, <1>4, <1>5, <1>6, <1>7, <1>8, <1>9, <1>11, <1>12, <1>13, <1>14, <1>15
  DEF Handle, compareFace, addFeature, addFeature_g

\* Threads start, and start again, with nothing to do.
LEMMA IdleCourse ==
  ASSUME NEW t \in Threads, pc[t] = "idle", request[t] = NoRequest, result[t] = "none"
  PROVE  CourseOf(t)
BY DEF CourseOf, KindMatchesPc, FeatureShown, ListsCompared, Comparing, AddingGuest, AddingUser,
   UsersDone

LEMMA CourseInitInv == ASSUME Init PROVE CourseInv
BY IdleCourse DEF Init, CourseInv

LEMMA CourseNextInv == ASSUME ServerInv, CourseInv, [Next]_vars PROVE CourseInv'
<1>1. CASE \E t \in Threads : Handle(t) \/ \E r \in Requests : onStringMessage(t, r)
  BY <1>1, CourseStep, OthersCourse DEF CourseInv
<1>2. CASE Restart
  <2>1. ASSUME NEW t \in Threads PROVE CourseOf(t)'
    BY <1>2 DEF Restart, CourseOf, KindMatchesPc, FeatureShown, ListsCompared, Comparing,
       AddingGuest, AddingUser, UsersDone
  <2> QED BY <2>1 DEF CourseInv
<1>3. CASE ConnectionLost \/ UNCHANGED vars
  <2>1. UNCHANGED <<pc, request, localmodel, it, result, ready, cache, cache_guest>>
    BY <1>3 DEF ConnectionLost, LoseConnection, vars, localVars, dbVars, Rest
  <2>2. ASSUME NEW t \in Threads PROVE CourseOf(t)'
    <3>1. CourseOf(t)
      BY DEF CourseInv
    <3> QED BY <2>1, <3>1 DEF CourseOf, KindMatchesPc, FeatureShown, ListsCompared, AddingUser,
            UsersDone, NoneBefore, NoneIn, Gate!Shown
  <2> QED BY <2>2 DEF CourseInv
<1> QED BY <1>1, <1>2, <1>3 DEF Next

\* CourseInv is inductive beside ServerInv.
THEOREM CourseInvariant == Spec => []CourseInv
BY CourseInitInv, CourseNextInv, ServerInvariant, PTL DEF Spec

-----------------------------------------------------------------------------
\* What the gates can see.
Seen == <<cache, cache_guest, UserInformation, UserImport, connected, ready, request, result>>

\* Steps that the gates do not see: for engines and locks, and the comparisons
\* that do not end a scan.
LEMMA UnseenSteps ==
  ASSUME NEW t \in Threads,
         \/ TakeEngine(t) \/ GiveEngine(t) \/ ExtractToCompare(t)
         \/ LockUsers(t) \/ UserDiffers(t) \/ NoUserLeft(t) \/ FreeUsers(t)
         \/ LockGuestsToRead(t) \/ GuestDiffers(t) \/ FreeGuests(t)
         \/ QueueToWrite(t) \/ LockGuestsToWrite(t) \/ UnlockGuests(t)
  PROVE  UNCHANGED Seen
BY DEF Seen, Rest, dbVars, tables, TakeEngine, GiveEngine, ExtractToCompare, Extract,
   LockUsers, UserDiffers, NoUserLeft, FreeUsers, LockGuestsToRead, GuestDiffers, FreeGuests,
   QueueToWrite, LockGuestsToWrite, UnlockGuests, getCache, freeUserLock, getCache_guest,
   freeGuestLock, QueueForGuests, LockGuests

\* A request arrives, an answer is sent.
LEMMA AskStep ==
  ASSUME CourseInv, NEW t \in Threads, NEW r \in Requests, onStringMessage(t, r)
  PROVE  Gate!Ask(t, r)
BY DEF onStringMessage, Go, CourseInv, CourseOf, KindMatchesPc, Gate!Ask, Gate!NoRequest,
   NoRequest, dbVars, tables

LEMMA AnswerStep ==
  ASSUME ServerInv, NEW t \in Threads, Reply(t)
  PROVE  Gate!Answer(t)
BY DEF Reply, Go, Return, ServerInv, Decided, Gate!Answer, Gate!NoRequest, NoRequest, dbVars,
   tables, Rest

\* A picture that cannot be loaded, or has no face to add, is refused.
LEMMA RefuseStep ==
  ASSUME ServerInv, CourseInv, NEW t \in Threads,
         \/ LoadFails(t)
         \/ ExtractToAddUser(t) /\ localmodel'[t] = NoModel
         \/ ExtractToAddGuest(t) /\ localmodel'[t] = NoModel
  PROVE  Gate!TurnAway(t) \/ Gate!RefuseToAdd(t)
<1>1. /\ pc[t] = "extracting" /\ result[t] = "none"
      /\ request[t].kind \in {"comp", "addu", "addg"}
  <2>1. pc[t] = "extracting" /\ CourseOf(t) /\ request[t] \in Requests
    BY DEF LoadFails, ExtractToAddUser, ExtractToAddGuest, Go, CourseInv, ServerInv, RequestKept
  <2> QED BY <2>1, ServerAssumption DEF CourseOf, Open
<1>2. /\ UNCHANGED <<cache, cache_guest, UserInformation, UserImport, connected, ready, request>>
      /\ result' = [result EXCEPT ![t] = "no"]
  BY <1>1 DEF LoadFails, ExtractToAddUser, ExtractToAddGuest, Extract, Return, dbVars, tables, Rest
<1>3. Gate!Decide(t, "no")
  BY <1>2 DEF Gate!Decide
<1>4. CASE LoadFails(t)
  BY <1>1, <1>2, <1>3, <1>4 DEF LoadFails, Gate!TurnAway, Gate!RefuseToAdd, Gate!Undecided
<1>5. CASE ExtractToAddUser(t) \/ ExtractToAddGuest(t)
  <2>1. Extract(t) /\ request[t].kind \in {"addu", "addg"}
    BY <1>5 DEF ExtractToAddUser, ExtractToAddGuest
  <2>2. CASE localmodel'[t] = NoModel
    <3>1. NoModel \in Gate!Shown(request[t].pic)
      BY <1>1, <2>1, <2>2, ExtractCourse
    <3> QED BY <1>1, <1>2, <1>3, <2>1, <3>1 DEF Gate!RefuseToAdd, Gate!Undecided
  <2>3. CASE localmodel'[t] # NoModel
    BY <1>4, <2>3
  <2> QED BY <2>2, <2>3
<1> QED BY <1>4, <1>5

-----------------------------------------------------------------------------
\* The feature a comparison works with, as FaceGate sees it.
LEMMA ComparedFeature ==
  ASSUME ServerInv, CourseInv, NEW t \in Threads, pc[t] \in {"scanUsers", "scanGuests"}
  PROVE  /\ Gate!Undecided(t, {"comp"})
         /\ request[t].pic # Unreadable
         /\ localmodel[t] \in Gate!Shown(request[t].pic)
         /\ pc[t] = "scanGuests" => ~Gate!MustMatch(cache, localmodel[t])
<1>1. CourseOf(t) /\ cache \in Seq(Stored)
  BY DEF CourseInv, ServerInv, ServerTypeOK, DBTypeOK
<1>2. pc[t] = "scanGuests" => NoneIn(cache, localmodel[t])
  BY <1>1 DEF CourseOf, ListsCompared, UsersDone
<1>3. pc[t] = "scanGuests" => ~Gate!MustMatch(cache, localmodel[t])
  BY <1>1, <1>2, NobodyMust
<1> QED
  BY <1>1, <1>3 DEF CourseOf, KindMatchesPc, FeatureShown, Open, Comparing, Gate!Undecided

\* An entry with which the comparison says yes may match.
LEMMA Matches ==
  ASSUME NEW list \in Seq(Stored), NEW i \in 1 .. Len(list), NEW f,
         TRUE \in compareFeature(list[i].model, f)
  PROVE  list[i] \in Gate!ElementsOf(list) /\ Gate!MayMatch(list[i].model, f)
<1>1. DOMAIN list = 1 .. Len(list)
  BY LenProperties
<1> QED BY <1>1 DEF compareFeature, Gate!ElementsOf, Gate!MayMatch

LEMMA LetUserInStep ==
  ASSUME ServerInv, CourseInv, NEW t \in Threads, UserMatches(t)
  PROVE  Gate!LetUserIn(t)
<1>1. pc[t] = "scanUsers" /\ it[t] \in 1 .. Len(cache) /\ cache \in Seq(Stored)
  BY LenProperties DEF UserMatches, Go, ServerInv, ServerTypeOK, DBTypeOK
<1>2. TRUE \in compareFeature(cache[it[t]].model, localmodel[t])
  BY Zenon DEF UserMatches
<1> DEFINE u == cache[it[t]]
<1>3. u \in Gate!ElementsOf(cache) /\ Gate!MayMatch(u.model, localmodel[t])
  BY <1>1, <1>2, Matches
<1>4. Gate!LetIn(u, 1)
  BY DEF UserMatches, queryADDonDB, Gate!LetIn
<1>5. Gate!Decide(t, "ok")
  BY DEF UserMatches, queryADDonDB, Return, Rest, Gate!Decide
<1> HIDE DEF u
<1> QED BY <1>1, <1>3, <1>4, <1>5, ComparedFeature DEF Gate!LetUserIn

LEMMA LetGuestInStep ==
  ASSUME ServerInv, CourseInv, NEW t \in Threads, GuestMatches(t)
  PROVE  Gate!LetGuestIn(t)
<1>1. pc[t] = "scanGuests" /\ it[t] \in 1 .. Len(cache_guest) /\ cache_guest \in Seq(Stored)
  BY LenProperties DEF GuestMatches, Go, ServerInv, ServerTypeOK, DBTypeOK
<1>2. TRUE \in compareFeature(cache_guest[it[t]].model, localmodel[t])
  BY Zenon DEF GuestMatches
<1> DEFINE g == cache_guest[it[t]]
<1>3. g \in Gate!ElementsOf(cache_guest) /\ Gate!MayMatch(g.model, localmodel[t])
  BY <1>1, <1>2, Matches
<1>4. Gate!LetIn(g, 2)
  BY DEF GuestMatches, queryADDonDB, Gate!LetIn
<1>5. Gate!Decide(t, "ok")
  BY DEF GuestMatches, queryADDonDB, Return, Rest, Gate!Decide
<1> HIDE DEF g
<1> QED BY <1>1, <1>3, <1>4, <1>5, ComparedFeature DEF Gate!LetGuestIn

\* The scan of the guests has come to its end: nobody matched, in either list.
LEMMA TurnAwayStep ==
  ASSUME ServerInv, CourseInv, NEW t \in Threads, NoGuestLeft(t)
  PROVE  Gate!TurnAway(t)
<1>1. /\ pc[t] = "scanGuests" /\ it[t] \in Nat /\ it[t] > Len(cache_guest)
      /\ cache_guest \in Seq(Stored)
  BY DEF NoGuestLeft, Go, ServerInv, ServerTypeOK, DBTypeOK
<1>2. NoneBefore(cache_guest, it[t], localmodel[t])
  BY <1>1 DEF CourseInv, CourseOf, ListsCompared
<1>3. ~Gate!MustMatch(cache_guest, localmodel[t])
  BY <1>1, <1>2, AllCompared, NobodyMust
<1>4. Gate!Decide(t, "no") /\ UNCHANGED <<cache_guest, UserInformation, UserImport>>
  BY DEF NoGuestLeft, Return, Rest, dbVars, tables, Gate!Decide
<1> QED BY <1>1, <1>3, <1>4, ComparedFeature DEF Gate!TurnAway

\* The feature that is about to be stored or added.
LEMMA AddedFeature ==
  ASSUME ServerInv, CourseInv, NEW t \in Threads, pc[t] \in {"storing", "pushGuest"}
  PROVE  /\ result[t] = "none"
         /\ request[t].kind = IF pc[t] = "storing" THEN "addu" ELSE "addg"
         /\ localmodel[t] \in Gate!Shown(request[t].pic) \ {NoModel}
<1>1. CourseOf(t) /\ localmodel[t] \in Models
  BY DEF CourseInv, ServerInv, FeatureExtracted
<1> QED
  BY <1>1, DBAssumption DEF CourseOf, KindMatchesPc, FeatureShown, AddingUser, AddingGuest, Open

LEMMA AddUserStep ==
  ASSUME ServerInv, CourseInv, NEW t \in Threads, StoreUser(t)
  PROVE  Gate!AddUser(t)
<1>1. pc[t] = "storing"
  BY DEF StoreUser, Go
<1>2. /\ UserInformation' = IF connected /\ request[t].id \in DOMAIN UserInformation
                            THEN [UserInformation EXCEPT ![request[t].id] = localmodel[t]]
                            ELSE UserInformation
      /\ UNCHANGED <<cache_guest, UserImport>>
  BY DEF StoreUser, addFeature_User
<1>3. Gate!Decide(t, "ok")
  BY DEF StoreUser, addFeature_User, Return, Rest, Gate!Decide
<1> QED BY <1>1, <1>2, <1>3, AddedFeature DEF Gate!AddUser, Gate!Undecided

LEMMA AddGuestStep ==
  ASSUME ServerInv, CourseInv, NEW t \in Threads, AppendGuest(t)
  PROVE  Gate!AddGuest(t)
<1>1. pc[t] = "pushGuest"
  BY DEF AppendGuest, Go
<1>2. /\ cache_guest' = Append(cache_guest, [id |-> request[t].id, model |-> localmodel[t]])
      /\ UNCHANGED <<UserInformation, UserImport>>
  BY DEF AppendGuest, PushGuest, tables
<1>3. Gate!Decide(t, "ok")
  BY DEF AppendGuest, PushGuest, Return, Rest, Gate!Decide
<1> QED BY <1>1, <1>2, <1>3, AddedFeature DEF Gate!AddGuest, Gate!Undecided

-----------------------------------------------------------------------------
\* Every step of a handler is one of FaceGate, or one the gates do not see.
LEMMA HandlerStep ==
  ASSUME ServerInv, CourseInv, NEW t \in Threads,
         Handle(t) \/ \E r \in Requests : onStringMessage(t, r)
  PROVE  Gate!GateNext \/ UNCHANGED Seen
<1>1. CASE \E r \in Requests : onStringMessage(t, r)
  BY <1>1, AskStep DEF Gate!GateNext
<1>2. CASE Reply(t)
  BY <1>2, AnswerStep DEF Gate!GateNext
<1>3. CASE \/ LoadFails(t)
           \/ ExtractToAddUser(t) /\ localmodel'[t] = NoModel
           \/ ExtractToAddGuest(t) /\ localmodel'[t] = NoModel
  BY <1>3, RefuseStep DEF Gate!GateNext
\* A feature to add: nothing is decided yet.
<1>4. CASE \/ ExtractToAddUser(t) /\ localmodel'[t] # NoModel
           \/ ExtractToAddGuest(t) /\ localmodel'[t] # NoModel
  <2>1. pc[t] = "extracting" /\ Extract(t) /\ result' \in {result, [result EXCEPT ![t] = "none"]}
    BY <1>4 DEF ExtractToAddUser, ExtractToAddGuest, Go, Return
  <2>2. result \in [Threads -> {"none", "ok", "no"}] /\ result[t] = "none"
    BY <2>1 DEF CourseInv, CourseOf, Open, ServerInv, ServerTypeOK
  <2>3. UNCHANGED result
    BY <2>1, <2>2
  <2> QED BY <2>1, <2>3 DEF Seen, Extract, Rest, dbVars, tables
<1>5. CASE UserMatches(t)
  BY <1>5, LetUserInStep DEF Gate!GateNext
<1>6. CASE GuestMatches(t)
  BY <1>6, LetGuestInStep DEF Gate!GateNext
<1>7. CASE NoGuestLeft(t)
  BY <1>7, TurnAwayStep DEF Gate!GateNext
<1>8. CASE StoreUser(t)
  BY <1>8, AddUserStep DEF Gate!GateNext
<1>9. CASE AppendGuest(t)
  BY <1>9, AddGuestStep DEF Gate!GateNext
<1> QED
  BY <1>1, <1>2, <1>3, <1>4, <1>5, <1>6, <1>7, <1>8, <1>9, UnseenSteps
  DEF Handle, compareFace, addFeature, addFeature_g

\* A crash and the start after it are the Reboot of FaceGate.
LEMMA RebootStep == ASSUME ServerInv, Restart PROVE Gate!Reboot
<1>1. /\ connected' \in BOOLEAN /\ cache' \in updateFeature(UserInformation, connected')
      /\ cache_guest' = <<>> /\ UNCHANGED <<UserInformation, UserImport>>
  BY DEF Restart, DBRestart, tables
<1>2. UserInformation \in [Registered -> Models \cup {NoModel}]
  BY DEF ServerInv, ServerTypeOK, DBTypeOK
<1>3. Gate!Loaded(cache', UserInformation, connected')
  BY <1>1, <1>2, LoadedAsPromised
<1>4. Gate!NothingAsked'
  BY DEF Restart, Gate!NothingAsked, Gate!NoRequest, NoRequest
<1>5. (ready = Engines)' \in BOOLEAN
  OBVIOUS
<1> QED BY <1>1, <1>3, <1>4, <1>5 DEF Gate!Reboot

LEMMA GateInitStep == ASSUME Init PROVE Gate!GateInit
<1>1. Gate!Loaded(cache, UserInformation, connected)
  BY LoadedAsPromised DEF Init, DBInit
<1>2. Gate!NothingAsked
  BY DEF Init, Gate!NothingAsked, Gate!NoRequest, NoRequest
<1>3. (ready = Engines) \in BOOLEAN
  OBVIOUS
<1> QED BY <1>1, <1>2, <1>3 DEF Init, DBInit, Gate!GateInit

LEMMA GateNextStep ==
  ASSUME ServerInv, CourseInv, [Next]_vars
  PROVE  [Gate!GateNext]_(Gate!gateVars)
<1>1. UNCHANGED Seen => UNCHANGED Gate!gateVars
  BY DEF Seen, Gate!gateVars
<1>2. CASE \E t \in Threads : Handle(t) \/ \E r \in Requests : onStringMessage(t, r)
  BY <1>1, <1>2, HandlerStep
<1>3. CASE ConnectionLost
  <2>1. Gate!Disconnect
    BY <1>3 DEF ConnectionLost, LoseConnection, Rest, localVars, tables, Gate!Disconnect
  <2> QED BY <2>1 DEF Gate!GateNext
<1>4. CASE Restart
  BY <1>4, RebootStep DEF Gate!GateNext
<1>5. CASE UNCHANGED vars
  <2>1. UNCHANGED Seen
    BY <1>5 DEF vars, Seen, dbVars, tables, localVars
  <2> QED BY <1>1, <2>1
<1> QED BY <1>2, <1>3, <1>4, <1>5 DEF Next

\* compareFace, addFeature and addFeature_g, on any number of threads and engines,
\* implement the atomic requests of FaceGate, also across crashes.
THEOREM ServerImplementsGate == Spec => ImplementsGate
BY GateInitStep, GateNextStep, ServerInvariant, CourseInvariant, PTL
   DEF Spec, ImplementsGate, Gate!GateSpec
=============================================================================
