----------------------------- MODULE FaceServer -----------------------------
(***************************************************************************)
(* ARCCompareServer and ARCFaceEngines: the handlers of the three requests *)
(* of a gate ("comp", "addu", "addg"), run by any number of IO threads on  *)
(* the engines of EnginePool and the lists of FeatureDB.  pc[t] is where   *)
(* thread t is in compareFace, addFeature or addFeature_g; the steps end   *)
(* where another thread can change what the next one reads.                *)
(***************************************************************************)
EXTENDS EnginePool, FeatureDB

CONSTANTS
  NoFace,       \* a picture without exactly one face in it
  Unreadable,   \* data that is no picture: QImage::loadFromData fails
  Requests,     \* what the gates send, [kind, id, pic]
  MaxRequests,  \* bound on the requests of a run
  MaxRestarts   \* bound on the restarts of the process

Pictures == Models \cup {NoFace, Unreadable}

ASSUME ServerAssumption ==
  /\ Requests \subseteq [kind : {"comp", "addu", "addg"}, id : Ids, pic : Pictures]
  /\ Cardinality({NoModel, NoFace, Unreadable}) = 3
  /\ {NoFace, Unreadable} \cap Models = {}
  /\ MaxRequests \in Nat
  /\ MaxRestarts \in Nat

VARIABLES
  ready,       \* the engines whose InitEngine returned 0
  pc,
  request,     \* what the thread handles
  localmodel,  \* compareFace, addFeature, addFeature_g: local of that name
  it,          \* compareFace: position of the iterator
  result,      \* what the method will return: "none" yet, "ok" (0), "no" (1)
  received, restarts

localVars == <<pc, request, localmodel, it, result>>
vars == <<poolVars, dbVars, ready, localVars, received, restarts>>

PCs ==
  {"idle", "taking", "extracting", "lockUsers", "scanUsers",
   "freeUsers", "lockGuests", "scanGuests", "freeGuests", "queueGuests",
   "writeLockGuests", "pushGuest", "unlockGuests", "giving", "storing", "replying"}

NoRequest == [kind |-> "none"]

\* The constructors: startEngines may fail on any of the engines; their indices
\* are on the stack all the same and ARCCompareServer drops the result.
Init ==
  /\ PoolInit
  /\ ready \in SUBSET Engines
  /\ DBInit
  /\ pc = [t \in Threads |-> "idle"]
  /\ request = [t \in Threads |-> NoRequest]
  /\ localmodel = [t \in Threads |-> NoModel]
  /\ it = [t \in Threads |-> 1]
  /\ result = [t \in Threads |-> "none"]
  /\ received = 0
  /\ restarts = 0

Go(t, from, to) ==
  /\ pc[t] = from
  /\ pc' = [pc EXCEPT ![t] = to]

Return(t, r) == result' = [result EXCEPT ![t] = r]

Rest == <<ready, received, restarts>>

-----------------------------------------------------------------------------
(***************************************************************************)
(* onStringMessage_comp / _addu / _addg: the handler is called with a      *)
(* request and begins with popEngineIndex, or ends with conn->send of "ok" *)
(* or "no" by what the method returned.                                    *)
(***************************************************************************)
onStringMessage(t, r) ==
  /\ Go(t, "idle", "taking")
  /\ received < MaxRequests
  /\ received' = received + 1
  /\ request' = [request EXCEPT ![t] = r]
  /\ UNCHANGED <<poolVars, dbVars, ready, localmodel, it, result, restarts>>

Reply(t) ==
  /\ Go(t, "replying", "idle")
  /\ request' = [request EXCEPT ![t] = NoRequest]
  /\ localmodel' = [localmodel EXCEPT ![t] = NoModel]
  /\ it' = [it EXCEPT ![t] = 1]
  /\ Return(t, "none")
  /\ UNCHANGED <<poolVars, dbVars, Rest>>

\* popEngineIndex, step by step.
TakeEngine(t) ==
  /\ popEngineIndex(t)
  /\ Go(t, "taking", IF poolState'[t] = "using" THEN "extracting" ELSE "taking")
  /\ UNCHANGED <<dbVars, Rest, request, localmodel, it, result>>

\* pushEngineIndex, step by step.  addFeature stores the feature after it.
GiveEngine(t) ==
  /\ pushEngineIndex(t)
  /\ Go(t, "giving",
        IF poolState'[t] # "out" THEN "giving"
        ELSE IF result[t] = "none" THEN "storing" ELSE "replying")
  /\ UNCHANGED <<dbVars, Rest, request, localmodel, it, result>>

-----------------------------------------------------------------------------
\* img.loadFromData fails: the engine goes back, return 1.  The mutant returns
\* at once.
LoadFailsKeepsEngine(t) ==
  /\ Go(t, "extracting", "replying")
  /\ request[t].pic = Unreadable
  /\ Return(t, "no")
  /\ UNCHANGED <<poolVars, dbVars, Rest, request, localmodel, it>>

LoadFails(t) ==
  /\ Go(t, "extracting", "giving")
  /\ request[t].pic = Unreadable
  /\ Return(t, "no")
  /\ UNCHANGED <<poolVars, dbVars, Rest, request, localmodel, it>>

\* The picture is loaded and its pixels are converted; getFeature yields the
\* model of its one face.  Otherwise, or on an engine that did not start,
\* localmodel stays zeroed.
Feature(e, pic) == IF e \in ready /\ pic \in Models THEN pic ELSE NoModel

Extract(t) ==
  /\ request[t].pic # Unreadable
  /\ localmodel' =
       [localmodel EXCEPT ![t] = Feature(curEngineIndex[t], request[t].pic)]
  /\ UNCHANGED <<poolVars, dbVars, Rest, request, it>>

\* compareFace does not look at what getFeature returned.
ExtractToCompare(t) ==
  /\ Go(t, "extracting", "lockUsers")
  /\ request[t].kind = "comp"
  /\ Extract(t)
  /\ UNCHANGED result

\* addFeature gives the engine back before it looks at the result.
ExtractToAddUser(t) ==
  /\ Go(t, "extracting", "giving")
  /\ request[t].kind = "addu"
  /\ Extract(t)
  /\ Return(t, IF localmodel'[t] = NoModel THEN "no" ELSE "none")

\* addFeature_g keeps it while it adds the guest.
ExtractToAddGuest(t) ==
  /\ pc[t] = "extracting"
  /\ request[t].kind = "addg"
  /\ Extract(t)
  /\ IF localmodel'[t] = NoModel
     THEN Go(t, "extracting", "giving") /\ Return(t, "no")
     ELSE Go(t, "extracting", "queueGuests") /\ UNCHANGED result

-----------------------------------------------------------------------------
\* compareFeature: without a feature AFR_FSDK_FacePairMatching fails, and res
\* is compared with 0.95 uninitialised.
compareFeature(m, local) == IF local = NoModel THEN BOOLEAN ELSE {m = local}

\* compareFace: userlist = db->getCache()
LockUsers(t) ==
  /\ Go(t, "lockUsers", "scanUsers")
  /\ getCache(t)
  /\ it' = [it EXCEPT ![t] = 1]
  /\ UNCHANGED <<poolVars, Rest, request, localmodel, result>>

\* compareFace: User_ret = compareFeature(it->model, &localmodel); when it is 1
\* queryADDonDB and break.
UserMatches(t) ==
  /\ Go(t, "scanUsers", "freeUsers")
  /\ it[t] <= Len(cache)
  /\ TRUE \in compareFeature(cache[it[t]].model, localmodel[t])
  /\ queryADDonDB(cache[it[t]].id, 1)
  /\ Return(t, "ok")
  /\ UNCHANGED <<poolVars, Rest, request, localmodel, it>>

UserDiffers(t) ==
  /\ Go(t, "scanUsers", "scanUsers")
  /\ it[t] <= Len(cache)
  /\ FALSE \in compareFeature(cache[it[t]].model, localmodel[t])
  /\ it' = [it EXCEPT ![t] = @ + 1]
  /\ UNCHANGED <<poolVars, dbVars, Rest, request, localmodel, result>>

NoUserLeft(t) ==
  /\ Go(t, "scanUsers", "freeUsers")
  /\ it[t] > Len(cache)
  /\ UNCHANGED <<poolVars, dbVars, Rest, request, localmodel, it, result>>

\* compareFace: db->freeUserLock(); if(User_ret != 1).  The mutant forgets the
\* condition.
FreeUsersUnconditionally(t) ==
  /\ Go(t, "freeUsers", "lockGuests")
  /\ freeUserLock(t)
  /\ UNCHANGED <<poolVars, Rest, request, localmodel, it, result>>

FreeUsers(t) ==
  /\ Go(t, "freeUsers", IF result[t] = "ok" THEN "giving" ELSE "lockGuests")
  /\ freeUserLock(t)
  /\ UNCHANGED <<poolVars, Rest, request, localmodel, it, result>>

\* compareFace: guestlist = db->getCache_guest()
LockGuestsToRead(t) ==
  /\ Go(t, "lockGuests", "scanGuests")
  /\ getCache_guest(t)
  /\ it' = [it EXCEPT ![t] = 1]
  /\ UNCHANGED <<poolVars, Rest, request, localmodel, result>>

GuestMatches(t) ==
  /\ Go(t, "scanGuests", "freeGuests")
  /\ it[t] <= Len(cache_guest)
  /\ TRUE \in compareFeature(cache_guest[it[t]].model, localmodel[t])
  /\ queryADDonDB(cache_guest[it[t]].id, 2)
  /\ Return(t, "ok")
  /\ UNCHANGED <<poolVars, Rest, request, localmodel, it>>

GuestDiffers(t) ==
  /\ Go(t, "scanGuests", "scanGuests")
  /\ it[t] <= Len(cache_guest)
  /\ FALSE \in compareFeature(cache_guest[it[t]].model, localmodel[t])
  /\ it' = [it EXCEPT ![t] = @ + 1]
  /\ UNCHANGED <<poolVars, dbVars, Rest, request, localmodel, result>>

NoGuestLeft(t) ==
  /\ Go(t, "scanGuests", "freeGuests")
  /\ it[t] > Len(cache_guest)
  /\ Return(t, "no")
  /\ UNCHANGED <<poolVars, dbVars, Rest, request, localmodel, it>>

\* compareFace: db->freeGuestLock()
FreeGuests(t) ==
  /\ Go(t, "freeGuests", "giving")
  /\ freeGuestLock(t)
  /\ UNCHANGED <<poolVars, Rest, request, localmodel, it, result>>

compareFace(t) ==
  \/ ExtractToCompare(t)
  \/ LockUsers(t) \/ UserMatches(t) \/ UserDiffers(t) \/ NoUserLeft(t) \/ FreeUsers(t)
  \/ LockGuestsToRead(t) \/ GuestMatches(t) \/ GuestDiffers(t) \/ NoGuestLeft(t)
  \/ FreeGuests(t)

-----------------------------------------------------------------------------
\* addFeature: db->addFeature_User(localmodel, id), return 0
StoreUser(t) ==
  /\ Go(t, "storing", "replying")
  /\ addFeature_User(localmodel[t], request[t].id)
  /\ Return(t, "ok")
  /\ UNCHANGED <<poolVars, Rest, request, localmodel, it>>

addFeature(t) == ExtractToAddUser(t) \/ StoreUser(t)

\* addFeature_g: db->addFeature_Guest(localmodel, id), return 0
QueueToWrite(t) ==
  /\ Go(t, "queueGuests", "writeLockGuests")
  /\ QueueForGuests(t)
  /\ UNCHANGED <<poolVars, Rest, request, localmodel, it, result>>

LockGuestsToWrite(t) ==
  /\ Go(t, "writeLockGuests", "pushGuest")
  /\ LockGuests(t)
  /\ UNCHANGED <<poolVars, Rest, request, localmodel, it, result>>

AppendGuest(t) ==
  /\ Go(t, "pushGuest", "unlockGuests")
  /\ PushGuest(localmodel[t], request[t].id)
  /\ Return(t, "ok")
  /\ UNCHANGED <<poolVars, Rest, request, localmodel, it>>

UnlockGuests(t) ==
  /\ Go(t, "unlockGuests", "giving")
  /\ freeGuestLock(t)
  /\ UNCHANGED <<poolVars, Rest, request, localmodel, it, result>>

addFeature_g(t) ==
  \/ ExtractToAddGuest(t)
  \/ QueueToWrite(t) \/ LockGuestsToWrite(t) \/ AppendGuest(t) \/ UnlockGuests(t)

-----------------------------------------------------------------------------
\* A step of the handler that thread t runs.
Handle(t) ==
  \/ TakeEngine(t) \/ LoadFails(t)
  \/ compareFace(t) \/ addFeature(t) \/ addFeature_g(t)
  \/ GiveEngine(t) \/ Reply(t)

ConnectionLost == LoseConnection /\ UNCHANGED <<poolVars, Rest, localVars>>

\* The process dies and is started again.
Restart ==
  /\ restarts < MaxRestarts
  /\ restarts' = restarts + 1
  /\ PoolRestart
  /\ ready' \in SUBSET Engines
  /\ DBRestart
  /\ pc' = [t \in Threads |-> "idle"]
  /\ request' = [t \in Threads |-> NoRequest]
  /\ localmodel' = [t \in Threads |-> NoModel]
  /\ it' = [t \in Threads |-> 1]
  /\ result' = [t \in Threads |-> "none"]
  /\ UNCHANGED received

Next ==
  \/ \E t \in Threads : Handle(t) \/ \E r \in Requests : onStringMessage(t, r)
  \/ ConnectionLost
  \/ Restart

Spec == Init /\ [][Next]_vars

\* An IO thread keeps running, and a lock or permit that stays available is
\* granted to a thread that waits for it.
Fairness == \A t \in Threads : WF_vars(Handle(t))

FairSpec == Spec /\ Fairness

-----------------------------------------------------------------------------
\* Types of the compare server.
ServerTypeOK ==
  /\ PoolTypeOK
  /\ DBTypeOK(Threads)
  /\ ready \subseteq Engines
  /\ pc \in [Threads -> PCs]
  /\ request \in [Threads -> Requests \cup {NoRequest}]
  /\ localmodel \in [Threads -> Models \cup {NoModel}]
  /\ it \in [Threads -> Nat \ {0}]
  /\ result \in [Threads -> {"none", "ok", "no"}]
  /\ received \in 0 .. MaxRequests
  /\ restarts \in 0 .. MaxRestarts

\* The engine that compareFace, addFeature and addFeature_g call is always one
\* of the pool, and never one that another thread calls: the face SDK works in
\* the buffers of an engine without a lock.
InSDK(t) == pc[t] \in {"extracting", "scanUsers", "scanGuests"}

NoSharedEngine ==
  \A t, u \in Threads :
    InSDK(t) /\ InSDK(u) =>
      /\ curEngineIndex[t] \in Engines
      /\ curEngineIndex[t] = curEngineIndex[u] => t = u

\* Whatever path a handler took through compareFace, addFeature or
\* addFeature_g, when it is done it has given back its engine and both locks;
\* one early return without pushEngineIndex and ten such pictures would stop
\* the server for good.
IdleHoldsNothing ==
  \A t \in Threads :
    pc[t] = "idle" =>
      /\ poolState[t] = "out"
      /\ ~Involves(lock_user, t)
      /\ ~Involves(lock_guest, t)

\* addFeature_Guest never changes the list of guests under a thread that walks
\* it between getCache_guest and freeGuestLock.
GuestsStableDuringScan ==
  [][\A t \in Threads :
       pc[t] = "scanGuests" /\ pc'[t] \in {"scanGuests", "freeGuests"} =>
         cache_guest' = cache_guest]_vars

\* compareFace, addFeature and addFeature_g implement the atomic requests of
\* FaceGate: a comparison takes effect once, on one state of the two lists,
\* prefers a user to a guest, answers "ok" exactly when it found somebody, and
\* then has left one row in UserImport if the tables could be reached.
Gate == INSTANCE FaceGate WITH
  users <- cache,
  guests <- cache_guest,
  reliable <- ready = Engines,
  asked <- request,
  answer <- result

ImplementsGate == Gate!GateSpec

\* Every request is answered (or the process dies): no thread waits for ever
\* for an engine, for the mutex of the pool or for a lock.
RequestsAnswered == \A t \in Threads : pc[t] # "idle" ~> pc[t] = "idle"

\* "return 0: match success" (arcfaceengines.cpp:50): a comparison that is
\* answered "ok" found a user or a guest with the feature of the picture.
OkOnlyOnMatch ==
  \A t \in Threads :
    request[t].kind = "comp" /\ result[t] = "ok" =>
      \E x \in Gate!ElementsOf(cache) \cup Gate!ElementsOf(cache_guest) :
        x.model = request[t].pic
=============================================================================
