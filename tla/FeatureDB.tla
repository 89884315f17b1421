------------------------------ MODULE FeatureDB ------------------------------
(***************************************************************************)
(* ARCFaceFeatureDB (arcfacefeaturedb.cpp): the two tables of the remote   *)
(* database, the connection to it, the list of users read from it once,    *)
(* the list of guests, which lives in memory only, and their two locks.    *)
(* Every operator below is a step of a thread; FaceServer says when a      *)
(* thread takes it.                                                        *)
(***************************************************************************)
EXTENDS Naturals, Sequences, FiniteSets, ReadWriteLock

CONSTANTS
  Models,      \* face features; equal ones match
  NoModel,     \* a column or a local model without a feature
  Ids,         \* the ids that requests name
  Registered   \* the ids with a row in UserInformation

ASSUME DBAssumption ==
  /\ NoModel \notin Models
  /\ Registered \subseteq Ids
  /\ IsFiniteSet(Registered)

VARIABLES
  UserInformation,  \* table: UserID -> UserFeature
  UserImport,       \* table: the rows <<UserID, UserType>> in order
  connected,        \* the connection opened by openDataBase works
  cache,            \* list<UserModel>
  lock_user,
  cache_guest,      \* list<GuestModel>
  lock_guest

tables == <<UserInformation, UserImport>>
dbVars == <<tables, connected, cache, lock_user, cache_guest, lock_guest>>

Stored == [id : Ids, model : Models]

-----------------------------------------------------------------------------
(***************************************************************************)
(* updateFeature: the rows that have a feature, in whatever order the      *)
(* select returns them, or nothing when it fails (a mutant takes the rows  *)
(* without a feature as well).  openDataBase never tries again, so a       *)
(* connection that is down stays down.                                     *)
(***************************************************************************)
RowsUnfiltered(table) == {[id |-> i, model |-> table[i]] : i \in DOMAIN table}

Rows(table) ==
  {[id |-> i, model |-> table[i]] : i \in {j \in DOMAIN table : table[j] # NoModel}}

Listings(S) ==
  {s \in [1 .. Cardinality(S) -> S] : \A i, j \in DOMAIN s : s[i] = s[j] => i = j}

updateFeature(table, up) == {<<>>} \cup (IF up THEN Listings(Rows(table)) ELSE {})

DBInit ==
  /\ UserInformation \in [Registered -> Models \cup {NoModel}]
  /\ UserImport = <<>>
  /\ connected \in BOOLEAN
  /\ cache \in updateFeature(UserInformation, connected)
  /\ cache_guest = <<>>
  /\ lock_user = Unlocked
  /\ lock_guest = Unlocked

\* A new process opens the database again; the tables are what they were and
\* the guests are gone.
DBRestart ==
  /\ connected' \in BOOLEAN
  /\ cache' \in updateFeature(UserInformation, connected')
  /\ cache_guest' = <<>>
  /\ lock_user' = Unlocked
  /\ lock_guest' = Unlocked
  /\ UNCHANGED tables

\* The connection breaks: every later query fails.
LoseConnection ==
  /\ connected
  /\ connected' = FALSE
  /\ UNCHANGED <<tables, cache, lock_user, cache_guest, lock_guest>>

-----------------------------------------------------------------------------
\* addFeature_User: an update of a row, if there is one with this id.
addFeature_User(m, id) ==
  /\ UserInformation' = IF connected /\ id \in DOMAIN UserInformation
                        THEN [UserInformation EXCEPT ![id] = m]
                        ELSE UserInformation
  /\ UNCHANGED <<UserImport, connected, cache, lock_user, cache_guest, lock_guest>>

\* queryADDonDB, whose result the code drops.
queryADDonDB(id, type) ==
  /\ UserImport' = IF connected THEN Append(UserImport, <<id, type>>) ELSE UserImport
  /\ UNCHANGED <<UserInformation, connected, cache, lock_user, cache_guest, lock_guest>>

\* getCache and freeUserLock
getCache(t) ==
  /\ ReadAllowed(lock_user)
  /\ lock_user' = ReadBy(lock_user, t)
  /\ UNCHANGED <<tables, connected, cache, cache_guest, lock_guest>>

freeUserLock(t) ==
  /\ lock_user' = ReleasedBy(lock_user, t)
  /\ UNCHANGED <<tables, connected, cache, cache_guest, lock_guest>>

\* getCache_guest and freeGuestLock, with a mutant that forgets the lock.
getCache_guestUnlocked(t) == UNCHANGED dbVars

getCache_guest(t) ==
  /\ ReadAllowed(lock_guest)
  /\ lock_guest' = ReadBy(lock_guest, t)
  /\ UNCHANGED <<tables, connected, cache, lock_user, cache_guest>>

freeGuestLockForgotten(t) == UNCHANGED dbVars

freeGuestLock(t) ==
  /\ lock_guest' = ReleasedBy(lock_guest, t)
  /\ UNCHANGED <<tables, connected, cache, lock_user, cache_guest>>

\* addFeature_Guest: lockForWrite in two steps, push_back, unlock.
QueueForGuests(t) ==
  /\ lock_guest' = QueuedBy(lock_guest, t)
  /\ UNCHANGED <<tables, connected, cache, lock_user, cache_guest>>

LockGuests(t) ==
  /\ WriteAllowed(lock_guest)
  /\ lock_guest' = WrittenBy(lock_guest, t)
  /\ UNCHANGED <<tables, connected, cache, lock_user, cache_guest>>

PushGuest(m, id) ==
  /\ cache_guest' = Append(cache_guest, [id |-> id, model |-> m])
  /\ UNCHANGED <<tables, connected, cache, lock_user, lock_guest>>

-----------------------------------------------------------------------------
\* Types of the database and its caches, T being the threads that use them.
DBTypeOK(T) ==
  /\ UserInformation \in [Registered -> Models \cup {NoModel}]
  /\ UserImport \in Seq(Ids \X {1, 2})
  /\ connected \in BOOLEAN
  /\ cache \in Seq(Stored)
  /\ cache_guest \in Seq(Stored)
  /\ lock_user \in Locks(T)
  /\ lock_guest \in Locks(T)
==============================================================================
