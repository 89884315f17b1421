------------------------ MODULE FeatureMemoryProofs ------------------------
(***************************************************************************)
(* Proofs about FeatureMemory, for any number of threads, engines and      *)
(* pictures, wherever the SDK puts a feature.  A request reads what it     *)
(* extracted as long as nobody else extracts with the same engine: while   *)
(* it has the engine that is EngineExclusive of the pool, and afterwards   *)
(* there must be no other thread, or the memory be the feature's own       *)
(* (Safe).  GuestInv is about the features that outlive their requests.    *)
(***************************************************************************)
EXTENDS FeatureMemory, EnginePoolProofs

Features == Pictures \cup {NoPicture}
Steps == {"extracted", "stored", "failed", "done"}

MemoryTypeOK ==
  /\ crew \in SUBSET Threads
  /\ memory \in [Engines -> Features]
  /\ job \in [Threads -> [kind : Kinds \cup {"none"}, picture : Features, step : Steps]]
  /\ model \in [Threads -> [engine : Engines \cup {Nobody}, feature : Features]]

OthersIdle == \A t \in Threads \ crew : job[t] = NoJob /\ poolState[t] = "out"

Extracted(t) == job[t].step \in {"extracted", "stored"}

Safe(t) == poolState[t] = "using" \/ ~shared \/ OneThread

FeatureInPlace ==
  \A t \in Threads : Extracted(t) =>
    /\ Safe(t) => Deref(model[t]) = job[t].picture
    /\ model[t].engine # Nobody => shared
    /\ poolState[t] = "using" /\ shared => model[t].engine = curEngineIndex[t]

\* Only with a feature does addFeature go on without its engine.
LeftWithFeature ==
  \A t \in Threads :
    job[t].kind = "addFeature" /\ poolState[t] # "using" => job[t].step = "extracted"

MemoryInv ==
  /\ PoolInv
  /\ MemoryTypeOK
  /\ OthersIdle
  /\ FeatureInPlace
  /\ LeftWithFeature
  /\ UsersAsExtracted

-----------------------------------------------------------------------------
LEMMA OnlyOne ==
  ASSUME MemoryTypeOK, OneThread, NEW t \in crew, NEW u \in crew PROVE t = u
<1>1. IsFiniteSet(crew)
  BY PoolAssumption, FS_Subset DEF PoolAssumption, MemoryTypeOK
<1>2. PICK x : crew = {x}
  BY <1>1, FS_Singleton DEF OneThread
<1> QED BY <1>2

LEMMA MemoryInitInv == ASSUME MemoryInit PROVE MemoryInv
<1>1. PoolInv
  BY PoolInitInv, PoolAssumption DEF MemoryInit
<1>2. MemoryTypeOK
  BY DEF MemoryInit, MemoryTypeOK, NoJob, OnItsOwn, Features, Steps
<1>3. OthersIdle
  BY DEF MemoryInit, OthersIdle, PoolInit
<1>4. FeatureInPlace /\ LeftWithFeature /\ UsersAsExtracted
  BY DEF MemoryInit, FeatureInPlace, LeftWithFeature, UsersAsExtracted, NoJob, Extracted
<1> QED BY <1>1, <1>2, <1>3, <1>4 DEF MemoryInv

\* Handing engines out and taking them back keeps the pool's invariant.
LEMMA PoolPart ==
  ASSUME PoolInv, NEW t \in Threads, popEngineIndex(t) \/ pushEngineIndex(t)
  PROVE  PoolInv'
BY PoolInvStep DEF PoolNext

\* The requests of all threads stay as they are, and so do their features if no
\* thread gets an engine for a request that already has a feature.
LEMMA PoolOnly ==
  ASSUME MemoryInv, PoolInv', UNCHANGED memoryVars, NEW t \in crew,
         \A u \in Threads \ {t} : /\ poolState'[u] = poolState[u]
                                  /\ curEngineIndex'[u] = curEngineIndex[u],
         poolState[t] # "using", poolState'[t] = "using" => ~Extracted(t)
  PROVE  MemoryInv'
<1>1. MemoryTypeOK' /\ UsersAsExtracted'
  BY DEF MemoryInv, MemoryTypeOK, UsersAsExtracted, OneThread, memoryVars
<1>2. OthersIdle' /\ LeftWithFeature'
  BY DEF MemoryInv, MemoryTypeOK, OthersIdle, LeftWithFeature, memoryVars
<1>3. FeatureInPlace'
  <2> SUFFICES ASSUME NEW u \in Threads, Extracted(u)'
               PROVE  /\ Safe(u)' => Deref(model[u])' = job'[u].picture
                      /\ model'[u].engine # Nobody => shared'
                      /\ poolState'[u] = "using" /\ shared' => model'[u].engine = curEngineIndex'[u]
    BY DEF FeatureInPlace
  <2>1. Extracted(u) /\ Deref(model[u])' = Deref(model[u])
    BY DEF Extracted, memoryVars, Deref
  <2>2. Safe(u)' => Safe(u)
    BY <2>1 DEF Safe, OneThread, memoryVars
  <2> QED BY <2>1, <2>2 DEF MemoryInv, FeatureInPlace, memoryVars
<1> QED BY <1>1, <1>2, <1>3 DEF MemoryInv

LEMMA TakeEngineInv ==
  ASSUME MemoryInv, NEW t \in Threads, TakeEngine(t) PROVE MemoryInv'
<1>1. PoolInv'
  BY PoolPart DEF TakeEngine, MemoryInv
<1>2. \A u \in Threads \ {t} : poolState'[u] = poolState[u] /\ curEngineIndex'[u] = curEngineIndex[u]
  BY DEF TakeEngine, popEngineIndex, Acquire, LockForPop, ReadTop, PopTop, Move,
         MemoryInv, PoolInv, PoolTypeOK
<1>3. ~Extracted(t) /\ poolState[t] # "using"
  BY DEF TakeEngine, Extracted, NoJob, popEngineIndex, Acquire, LockForPop, ReadTop, PopTop, Move
<1> QED BY <1>1, <1>2, <1>3, PoolOnly DEF TakeEngine

LEMMA FinishGivingInv ==
  ASSUME MemoryInv, NEW t \in Threads, FinishGiving(t) PROVE MemoryInv'
<1>1. PoolInv'
  BY PoolPart DEF FinishGiving, MemoryInv, pushEngineIndex
<1>2. \A u \in Threads \ {t} : poolState'[u] = poolState[u] /\ curEngineIndex'[u] = curEngineIndex[u]
  BY DEF FinishGiving, PushIndex, Release, Move, MemoryInv, PoolInv, PoolTypeOK
<1>3. poolState'[t] # "using" /\ poolState[t] \notin {"using", "out"}
  BY DEF FinishGiving, PushIndex, Release, Move, MemoryInv, PoolInv, PoolTypeOK
<1>4. t \in crew
  BY <1>3 DEF MemoryInv, OthersIdle
<1> QED BY <1>1, <1>2, <1>3, <1>4, PoolOnly DEF FinishGiving

-----------------------------------------------------------------------------
\* A request without a feature has nothing that could be wrong.
LEMMA NoFeatureInv ==
  ASSUME MemoryInv, NEW t \in Threads, NoFeature(t) PROVE MemoryInv'
<1>1. PICK kind \in Kinds : Begins(t, kind, NoPicture, "failed")
  BY DEF NoFeature
<1>2. UNCHANGED <<poolVars, shared, crew, memory, model, users, guests>> /\ poolState[t] = "using"
  BY DEF NoFeature
<1>3. PoolInv'
  BY <1>2, PoolInvStep DEF MemoryInv
<1>4. MemoryTypeOK' /\ UsersAsExtracted'
  BY <1>1, <1>2 DEF MemoryInv, MemoryTypeOK, Begins, Features, Steps, UsersAsExtracted, OneThread
<1>5. OthersIdle' /\ LeftWithFeature'
  BY <1>1, <1>2 DEF MemoryInv, MemoryTypeOK, OthersIdle, LeftWithFeature, Begins, poolVars
<1>6. \A u \in Threads : Extracted(u)' => u # t /\ job'[u] = job[u] /\ Extracted(u)
  BY <1>1 DEF MemoryInv, MemoryTypeOK, Begins, Extracted
<1>7. FeatureInPlace'
  <2> SUFFICES ASSUME NEW u \in Threads, Extracted(u)'
               PROVE  /\ Safe(u)' => Deref(model[u])' = job'[u].picture
                      /\ model'[u].engine # Nobody => shared'
                      /\ poolState'[u] = "using" /\ shared' => model'[u].engine = curEngineIndex'[u]
    BY DEF FeatureInPlace
  <2>1. Deref(model[u])' = Deref(model[u]) /\ (Safe(u)' => Safe(u))
    BY <1>2 DEF Deref, Safe, OneThread, poolVars
  <2> QED BY <1>2, <1>6, <2>1 DEF MemoryInv, FeatureInPlace, poolVars
<1> QED BY <1>3, <1>4, <1>5, <1>7 DEF MemoryInv

\* An extraction writes to its own engine's memory at most.  Whoever else relies on
\* that memory has the same engine, or there is nobody else.
LEMMA getFeatureInv ==
  ASSUME FeatureMemoryAssumption, MemoryInv,
         NEW t \in Threads, NEW kind \in Kinds, NEW p \in Pictures, getFeature(t, kind, p)
  PROVE  MemoryInv'
<1> DEFINE e == curEngineIndex[t]
           m == IF shared THEN InEngine(e) ELSE OnItsOwn(p)
<1>1. /\ UNCHANGED <<poolVars, shared, crew, users, guests>>
      /\ poolState[t] = "using" /\ job[t] = NoJob
      /\ job' = [job EXCEPT ![t] = [kind |-> kind, picture |-> p, step |-> "extracted"]]
      /\ model' = [model EXCEPT ![t] = m]
      /\ memory' = IF shared THEN [memory EXCEPT ![e] = p] ELSE memory
  BY DEF getFeature, Begins, Localmodel
<1>2. e \in Engines /\ \A u \in Threads : poolState[u] = "using" /\ curEngineIndex[u] = e => u = t
  BY <1>1 DEF MemoryInv, PoolInv, EngineExclusive, Users, In
<1>3. PoolInv' /\ UsersAsExtracted'
  BY <1>1, PoolInvStep DEF MemoryInv, UsersAsExtracted, OneThread
<1>4. m \in [engine : Engines \cup {Nobody}, feature : Features]
  BY <1>2 DEF InEngine, OnItsOwn, Features
<1>5. MemoryTypeOK'
  <2>1. crew' \in SUBSET Threads /\ memory' \in [Engines -> Features]
    BY <1>1, <1>2 DEF MemoryInv, MemoryTypeOK, Features
  <2>2. job' \in [Threads -> [kind : Kinds \cup {"none"}, picture : Features, step : Steps]]
    BY <1>1 DEF MemoryInv, MemoryTypeOK, Features, Steps
  <2>3. model' \in [Threads -> [engine : Engines \cup {Nobody}, feature : Features]]
    BY <1>1, <1>4 DEF MemoryInv, MemoryTypeOK
  <2> QED BY <2>1, <2>2, <2>3 DEF MemoryTypeOK
<1>6. OthersIdle' /\ LeftWithFeature' /\ t \in crew
  BY <1>1 DEF MemoryInv, MemoryTypeOK, OthersIdle, LeftWithFeature, poolVars
<1>7. FeatureInPlace'
  <2> SUFFICES ASSUME NEW u \in Threads, Extracted(u)'
               PROVE  /\ Safe(u)' => Deref(model[u])' = job'[u].picture
                      /\ model'[u].engine # Nobody => shared'
                      /\ poolState'[u] = "using" /\ shared' => model'[u].engine = curEngineIndex'[u]
    BY DEF FeatureInPlace
  <2>1. CASE u = t
    <3>1. model'[u] = m /\ job'[u].picture = p
      BY <1>1, <2>1 DEF MemoryInv, MemoryTypeOK
    <3>2. CASE shared
      <4>0. e # Nobody
        BY <1>2, PoolAssumption DEF Engines, PoolAssumption
      <4>1. model'[u].engine = e /\ memory'[e] = p
        BY <1>1, <1>2, <3>1, <3>2 DEF MemoryInv, MemoryTypeOK, InEngine
      <4>2. Deref(model[u])' = p
        BY <4>0, <4>1 DEF Deref
      <4> QED BY <1>1, <2>1, <3>1, <3>2, <4>1, <4>2 DEF poolVars
    <3>3. CASE ~shared
      <4>1. model'[u].engine = Nobody /\ model'[u].feature = p
        BY <3>1, <3>3 DEF OnItsOwn
      <4> QED BY <1>1, <3>1, <3>3, <4>1 DEF Deref
    <3> QED BY <3>2, <3>3
  <2>2. CASE u # t
    <3>1. model'[u] = model[u] /\ job'[u] = job[u] /\ Extracted(u)
      BY <1>1, <2>2 DEF MemoryInv, MemoryTypeOK, Extracted
    <3>2. Safe(u)' => Safe(u)
      BY <1>1 DEF Safe, OneThread, poolVars
    <3>3. u \in crew
      BY <3>1 DEF MemoryInv, OthersIdle, Extracted, NoJob
    <3>4. ~OneThread
      BY <1>6, <2>2, <3>3, OnlyOne DEF MemoryInv
    <3>5. Safe(u) => Deref(model[u])' = Deref(model[u])
      <4>1. CASE ~shared
        BY <1>1, <3>1, <4>1 DEF Deref
      <4>2. CASE shared /\ Safe(u)
        <5>1. poolState[u] = "using" /\ model[u].engine = curEngineIndex[u] /\ curEngineIndex[u] # e
          BY <1>2, <2>2, <3>1, <3>4, <4>2 DEF Safe, MemoryInv, FeatureInPlace
        <5>2. memory'[curEngineIndex[u]] = memory[curEngineIndex[u]]
          <6>1. curEngineIndex[u] \in Engines
            BY <5>1 DEF MemoryInv, PoolInv, EngineExclusive, Users, In
          <6> QED BY <1>1, <4>2, <5>1, <6>1 DEF MemoryInv, MemoryTypeOK
        <5> QED BY <3>1, <5>1, <5>2 DEF Deref
      <4> QED BY <4>1, <4>2
    <3> QED BY <1>1, <3>1, <3>2, <3>5 DEF MemoryInv, FeatureInPlace, poolVars
  <2> QED BY <2>1, <2>2
<1> QED BY <1>3, <1>5, <1>6, <1>7 DEF MemoryInv

-----------------------------------------------------------------------------
LEMMA addFeature_GuestInv ==
  ASSUME MemoryInv, NEW t \in Threads, addFeature_Guest(t) PROVE MemoryInv'
<1>1. /\ UNCHANGED <<poolVars, shared, crew, memory, model, users>>
      /\ job' = [job EXCEPT ![t].step = "stored"]
      /\ job[t].step = "extracted" /\ job[t].kind = "addFeature_g"
  BY DEF addFeature_Guest
<1>2. PoolInv' /\ UsersAsExtracted'
  BY <1>1, PoolInvStep DEF MemoryInv, UsersAsExtracted, OneThread
<1>3. MemoryTypeOK'
  BY <1>1 DEF MemoryInv, MemoryTypeOK, Steps
<1>4. OthersIdle' /\ LeftWithFeature'
  BY <1>1 DEF MemoryInv, MemoryTypeOK, OthersIdle, LeftWithFeature, NoJob, poolVars
<1>5. \A u \in Threads : job'[u].picture = job[u].picture /\ (Extracted(u)' => Extracted(u))
  BY <1>1 DEF MemoryInv, MemoryTypeOK, Extracted
<1>6. FeatureInPlace'
  <2> SUFFICES ASSUME NEW u \in Threads, Extracted(u)'
               PROVE  /\ Safe(u)' => Deref(model[u])' = job'[u].picture
                      /\ model'[u].engine # Nobody => shared'
                      /\ poolState'[u] = "using" /\ shared' => model'[u].engine = curEngineIndex'[u]
    BY DEF FeatureInPlace
  <2>1. Deref(model[u])' = Deref(model[u]) /\ (Safe(u)' => Safe(u))
    BY <1>1 DEF Deref, Safe, OneThread, poolVars
  <2> QED BY <1>1, <1>5, <2>1 DEF MemoryInv, FeatureInPlace, poolVars
<1> QED BY <1>2, <1>3, <1>4, <1>6 DEF MemoryInv

\* A request is over, or goes on without its engine.
LEMMA EndJob ==
  ASSUME MemoryInv, PoolInv', UsersAsExtracted', UNCHANGED <<shared, crew, memory>>,
         NEW t \in crew,
         \/ job[t].step = "extracted" /\ UNCHANGED <<job, model>>
         \/ job' = [job EXCEPT ![t] = NoJob] /\ Localmodel(t, OnItsOwn(NoPicture)),
         UNCHANGED curEngineIndex,
         \A u \in Threads \ {t} : poolState'[u] = poolState[u],
         poolState'[t] # "using"
  PROVE  MemoryInv'
<1>1. MemoryTypeOK'
  <2>1. job' \in [Threads -> [kind : Kinds \cup {"none"}, picture : Features, step : Steps]]
    BY DEF MemoryInv, MemoryTypeOK, NoJob, Features, Steps
  <2>2. model' \in [Threads -> [engine : Engines \cup {Nobody}, feature : Features]]
    BY DEF MemoryInv, MemoryTypeOK, Localmodel, OnItsOwn, Features
  <2> QED BY <2>1, <2>2 DEF MemoryInv, MemoryTypeOK
<1>2. OthersIdle' /\ LeftWithFeature'
  BY DEF MemoryInv, MemoryTypeOK, OthersIdle, LeftWithFeature, NoJob
<1>3. FeatureInPlace'
  <2> SUFFICES ASSUME NEW u \in Threads, Extracted(u)'
               PROVE  /\ Safe(u)' => Deref(model[u])' = job'[u].picture
                      /\ model'[u].engine # Nobody => shared'
                      /\ poolState'[u] = "using" /\ shared' => model'[u].engine = curEngineIndex'[u]
    BY DEF FeatureInPlace
  <2>1. job'[u] = job[u] /\ model'[u] = model[u] /\ Extracted(u)
    BY DEF MemoryInv, MemoryTypeOK, Extracted, NoJob, Localmodel
  <2>2. Deref(model[u])' = Deref(model[u]) /\ (Safe(u)' => Safe(u))
    BY <2>1 DEF Deref, Safe, OneThread
  <2> QED BY <2>1, <2>2 DEF MemoryInv, FeatureInPlace
<1> QED BY <1>1, <1>2, <1>3 DEF MemoryInv

LEMMA GiveEngineInv ==
  ASSUME MemoryInv, NEW t \in Threads, GiveEngine(t) PROVE MemoryInv'
<1>1. PoolInv' /\ UsersAsExtracted'
  BY PoolPart DEF GiveEngine, MemoryInv, pushEngineIndex, UsersAsExtracted, OneThread
<1>2. poolState[t] = "using" /\ poolState' = [poolState EXCEPT ![t] = "pushing"] /\ UNCHANGED curEngineIndex
  BY DEF GiveEngine, LockForPush, Move
<1>3. t \in crew
  BY <1>2 DEF MemoryInv, OthersIdle
<1>4. poolState'[t] # "using" /\ \A u \in Threads \ {t} : poolState'[u] = poolState[u]
  BY <1>2 DEF MemoryInv, PoolInv, PoolTypeOK
<1>5. \/ job[t].step = "extracted" /\ UNCHANGED <<job, model>>
      \/ job' = [job EXCEPT ![t] = NoJob] /\ Localmodel(t, OnItsOwn(NoPicture))
  BY DEF GiveEngine
<1>6. UNCHANGED <<shared, crew, memory>>
  BY DEF GiveEngine
<1> QED BY <1>1, <1>2, <1>3, <1>4, <1>5, <1>6, EndJob

\* What addFeature_User stores is the feature, if the thread is still safe.
LEMMA addFeature_UserInv ==
  ASSUME MemoryInv, NEW t \in Threads, addFeature_User(t) PROVE MemoryInv'
<1>1. /\ UNCHANGED <<poolVars, shared, crew, memory, guests>>
      /\ poolState[t] = "out" /\ job[t].kind = "addFeature"
      /\ job' = [job EXCEPT ![t] = NoJob] /\ Localmodel(t, OnItsOwn(NoPicture))
      /\ users' = users \cup {[asked |-> job[t].picture, stored |-> Deref(model[t])]}
  BY DEF addFeature_User
<1>2. PoolInv'
  BY <1>1, PoolInvStep DEF MemoryInv
<1>3. t \in crew
  BY <1>1 DEF MemoryInv, OthersIdle, NoJob
<1>4. UsersAsExtracted'
  <2>1. ~shared \/ OneThread => Deref(model[t]) = job[t].picture
    BY <1>1 DEF MemoryInv, LeftWithFeature, FeatureInPlace, Extracted, Safe
  <2> QED BY <1>1, <2>1 DEF MemoryInv, UsersAsExtracted, OneThread
<1> QED BY <1>1, <1>2, <1>3, <1>4, EndJob DEF poolVars

LEMMA MemoryNextInv ==
  ASSUME MemoryInv, [MemoryNext]_<<poolVars, memoryVars>> PROVE MemoryInv'
<1>1. CASE UNCHANGED <<poolVars, memoryVars>>
  <2>1. PoolInv'
    BY <1>1, PoolInvStep DEF MemoryInv
  <2>2. MemoryTypeOK' /\ OthersIdle' /\ LeftWithFeature' /\ UsersAsExtracted'
    BY <1>1 DEF MemoryInv, MemoryTypeOK, OthersIdle, LeftWithFeature, UsersAsExtracted, OneThread,
                poolVars, memoryVars
  <2>3. FeatureInPlace'
    BY <1>1 DEF MemoryInv, FeatureInPlace, Extracted, Safe, OneThread, Deref, poolVars, memoryVars
  <2> QED BY <2>1, <2>2, <2>3 DEF MemoryInv
<1> QED
  BY <1>1, FeatureMemoryAssumption, TakeEngineInv, FinishGivingInv, NoFeatureInv, getFeatureInv,
     addFeature_GuestInv, GiveEngineInv, addFeature_UserInv DEF MemoryNext

\* MemoryInv is inductive: what the requests of ARCFaceEngines may rely on.
THEOREM MemoryInvariant == MemorySpec => []MemoryInv
BY MemoryInitInv, MemoryNextInv, PTL DEF MemorySpec

-----------------------------------------------------------------------------
\* compareFace and addFeature_g read the feature they extracted as long as they have
\* the engine, wherever the SDK puts it and whatever the other threads extract.
THEOREM HeldFeaturesStay == MemorySpec => []HeldFeatureIntact
<1>1. MemoryInv => HeldFeatureIntact
  BY DEF MemoryInv, FeatureInPlace, Extracted, Safe, HeldFeatureIntact
<1> QED BY <1>1, MemoryInvariant, PTL

\* addFeature stores the feature it extracted, although it reads it without the
\* engine, if the SDK gives each feature memory of its own or there is one thread.
THEOREM StoredAsExtracted == MemorySpec => []UsersAsExtracted
BY MemoryInvariant, PTL DEF MemoryInv

-----------------------------------------------------------------------------
(***************************************************************************)
(* The guests.  One thread puts back the engine it took before it takes    *)
(* another, so that it always gets the one that was pushed last at first.  *)
(***************************************************************************)
Pointers == [engine : Engines \cup {Nobody}, feature : Features]

LastPushed == CMAX_NUM - 1

SameEngine ==
  OneThread => \A t \in crew :
    IF t \in Users THEN curEngineIndex[t] = LastPushed
                   ELSE Enginespoll # <<>> /\ Top(Enginespoll) = LastPushed

OneMemory ==
  shared /\ OneThread =>
    /\ \A t \in Threads : Extracted(t) => model[t].engine = LastPushed
    /\ \A i \in 1 .. Len(guests) : guests[i].model.engine = LastPushed

GuestsOnTheirOwn ==
  ~shared => \A i \in 1 .. Len(guests) : guests[i].model = OnItsOwn(guests[i].asked)

GuestInv ==
  /\ guests \in Seq([asked : Features, model : Pointers])
  /\ SameEngine
  /\ OneMemory
  /\ GuestsOnTheirOwn

LEMMA GuestInit == ASSUME MemoryInit PROVE GuestInv
<1>1. Enginespoll # <<>> /\ Top(Enginespoll) = LastPushed /\ \A t \in Threads : t \notin Users
  <2>1. CMAX_NUM \in Nat \ {0}
    BY PoolAssumption DEF PoolAssumption
  <2>2. Enginespoll = [i \in 1 .. CMAX_NUM |-> i - 1] /\ Len(Enginespoll) = CMAX_NUM
    BY <2>1 DEF MemoryInit, PoolInit
  <2>3. Enginespoll[CMAX_NUM] = CMAX_NUM - 1
    BY <2>1, <2>2
  <2> QED BY <2>1, <2>2, <2>3 DEF MemoryInit, PoolInit, Top, LastPushed, Users, In
<1>2. crew \subseteq Threads /\ guests = <<>> /\ \A t \in Threads : ~Extracted(t)
  BY DEF MemoryInit, Extracted, NoJob
<1> QED BY <1>1, <1>2 DEF GuestInv, SameEngine, OneMemory, GuestsOnTheirOwn

\* The pool and the one thread that uses it.
LEMMA SameEngineNext ==
  ASSUME MemoryInv, SameEngine, [MemoryNext]_<<poolVars, memoryVars>> PROVE SameEngine'
<1> SUFFICES ASSUME OneThread', NEW t \in crew'
             PROVE  IF t \in Users' THEN curEngineIndex'[t] = LastPushed
                    ELSE Enginespoll' # <<>> /\ Top(Enginespoll') = LastPushed
  BY DEF SameEngine, Top, LastPushed
<1>1. /\ crew' = crew /\ OneThread /\ t \in crew /\ t \in Threads
  BY DEF MemoryInv, MemoryTypeOK, MemoryNext, memoryVars, OneThread, TakeEngine, NoFeature,
         GiveEngine, FinishGiving, addFeature_Guest, addFeature_User, getFeature
<1>2. /\ poolState \in [Threads -> PoolStates] /\ Enginespoll \in Seq(Engines)
      /\ curEngineIndex \in [Threads -> Engines \cup {Nobody}]
      /\ poolState[t] = "popping" => curEngineIndex[t] = Top(Enginespoll)
      /\ IF poolState[t] \in {"using", "pushing"} THEN curEngineIndex[t] = LastPushed
         ELSE Enginespoll # <<>> /\ Top(Enginespoll) = LastPushed
  BY <1>1 DEF MemoryInv, PoolInv, PoolTypeOK, TopRead, In, SameEngine, Users
<1>3. \/ UNCHANGED poolVars
      \/ popEngineIndex(t) \/ LockForPush(t) \/ PushIndex(t) \/ Release(t)
  <2>1. ASSUME NEW u \in Threads, TakeEngine(u) \/ GiveEngine(u) \/ FinishGiving(u) PROVE u = t
    <3>1. u \in crew
      BY <2>1 DEF MemoryInv, OthersIdle, TakeEngine, GiveEngine, FinishGiving, LockForPush,
                  PushIndex, Release, Move
    <3> QED BY <1>1, <3>1, OnlyOne DEF MemoryInv
  <2> QED BY <2>1 DEF MemoryNext, TakeEngine, GiveEngine, FinishGiving, NoFeature, getFeature,
                      addFeature_Guest, addFeature_User
<1>4. t \in Users' <=> poolState'[t] \in {"using", "pushing"}
  BY <1>1 DEF Users, In
<1>5. CASE UNCHANGED poolVars \/ Acquire(t) \/ LockForPop(t) \/ ReadTop(t) \/ LockForPush(t) \/ Release(t)
  BY <1>2, <1>4, <1>5 DEF poolVars, Acquire, LockForPop, ReadTop, LockForPush, Release, Move
<1>6. CASE PopTop(t)
  BY <1>1, <1>2, <1>4, <1>6 DEF PopTop, Move
<1>7. CASE PushIndex(t)
  <2>1. Enginespoll' = Append(Enginespoll, LastPushed) /\ poolState'[t] = "leaving"
    BY <1>1, <1>2, <1>7 DEF PushIndex, Move
  <2>2. LastPushed \in Engines
    BY PoolAssumption DEF PoolAssumption, Engines, LastPushed
  <2>3. Enginespoll' # <<>> /\ Top(Enginespoll') = LastPushed
    BY <1>2, <2>1, <2>2, AppendProperties DEF Top
  <2> QED BY <1>4, <2>1, <2>3
<1> QED BY <1>3, <1>5, <1>6, <1>7 DEF popEngineIndex

LEMMA GuestNext ==
  ASSUME MemoryInv, GuestInv, [MemoryNext]_<<poolVars, memoryVars>> PROVE GuestInv'
<1>1. SameEngine'
  BY SameEngineNext DEF GuestInv
<1>2. /\ job \in [Threads -> [kind : Kinds \cup {"none"}, picture : Features, step : Steps]]
      /\ model \in [Threads -> Pointers] /\ Len(guests) \in Nat
      /\ guests \in Seq([asked : Features, model : Pointers])
  BY LenProperties DEF MemoryInv, MemoryTypeOK, GuestInv, Pointers
<1>3. ASSUME NEW t \in Threads, addFeature_Guest(t)
      PROVE  guests' \in Seq([asked : Features, model : Pointers]) /\ OneMemory' /\ GuestsOnTheirOwn'
  <2> DEFINE new == [asked |-> job[t].picture, model |-> model[t]]
  <2>1. /\ UNCHANGED <<shared, crew, model>> /\ guests' = Append(guests, new)
        /\ Extracted(t) /\ poolState[t] = "using" /\ job' = [job EXCEPT ![t].step = "stored"]
    BY <1>3 DEF addFeature_Guest, Extracted
  <2>2. new \in [asked : Features, model : Pointers]
    BY <1>2
  <2>3. /\ guests' \in Seq([asked : Features, model : Pointers]) /\ Len(guests') = Len(guests) + 1
        /\ guests'[Len(guests) + 1] = new
        /\ \A i \in 1 .. Len(guests) : guests'[i] = guests[i]
    BY <1>2, <2>1, <2>2, AppendProperties
  <2>4. \A i \in 1 .. Len(guests') : i \in 1 .. Len(guests) \/ i = Len(guests) + 1
    BY <1>2, <2>3
  <2>5. \A u \in Threads : Extracted(u)' => Extracted(u)
    BY <1>2, <2>1 DEF Extracted
  <2>6. OneMemory'
    BY <2>1, <2>3, <2>4, <2>5 DEF GuestInv, OneMemory, OneThread, LastPushed
  <2>7. ~shared => new.model = OnItsOwn(new.asked)
    <3>1. CASE ~shared
      <4>1. model[t].engine = Nobody /\ Deref(model[t]) = job[t].picture
        BY <2>1, <3>1 DEF MemoryInv, FeatureInPlace, Safe
      <4>2. model[t] = [engine |-> model[t].engine, feature |-> model[t].feature]
        BY <1>2 DEF Pointers
      <4> QED BY <4>1, <4>2 DEF Deref, OnItsOwn
    <3> QED BY <3>1
  <2>8. GuestsOnTheirOwn'
    BY <2>1, <2>3, <2>4, <2>7 DEF GuestInv, GuestsOnTheirOwn, OnItsOwn
  <2> QED BY <2>3, <2>6, <2>8
<1>4. ASSUME UNCHANGED <<guests, shared, crew>>,
             \A t \in Threads : Extracted(t)' => Extracted(t) /\ model'[t] = model[t]
      PROVE  guests' \in Seq([asked : Features, model : Pointers]) /\ OneMemory' /\ GuestsOnTheirOwn'
  BY <1>4 DEF GuestInv, OneMemory, GuestsOnTheirOwn, OneThread, LastPushed, OnItsOwn
<1>5. ASSUME NEW t \in Threads, NEW kind \in Kinds, NEW p \in Pictures, getFeature(t, kind, p)
      PROVE  guests' \in Seq([asked : Features, model : Pointers]) /\ OneMemory' /\ GuestsOnTheirOwn'
  <2>1. /\ UNCHANGED <<guests, shared, crew>> /\ poolState[t] = "using" /\ job[t] = NoJob
        /\ job' = [job EXCEPT ![t] = [kind |-> kind, picture |-> p, step |-> "extracted"]]
        /\ shared => model' = [model EXCEPT ![t] = InEngine(curEngineIndex[t])]
    BY <1>5 DEF getFeature, Begins, Localmodel
  <2>2. t \in crew /\ t \in Users
    BY <2>1 DEF MemoryInv, OthersIdle, Users, In
  <2>3. shared /\ OneThread => model'[t].engine = LastPushed
    BY <1>2, <2>1, <2>2 DEF GuestInv, SameEngine, InEngine
  <2>4. \A u \in Threads : u # t /\ Extracted(u)' => Extracted(u) /\ (shared => model'[u] = model[u])
    BY <1>2, <2>1 DEF Extracted
  <2>5. OneMemory'
    <3> SUFFICES ASSUME shared, OneThread, NEW u \in Threads, Extracted(u)'
                 PROVE  model'[u].engine = LastPushed
      BY <2>1 DEF GuestInv, OneMemory, OneThread, LastPushed
    <3> QED BY <2>3, <2>4 DEF GuestInv, OneMemory
  <2> QED BY <2>1, <2>5 DEF GuestInv, GuestsOnTheirOwn, OnItsOwn
<1>6. ASSUME \/ UNCHANGED memoryVars
             \/ \E t \in Threads : NoFeature(t) \/ GiveEngine(t) \/ addFeature_User(t)
      PROVE  /\ UNCHANGED <<guests, shared, crew>>
             /\ \A t \in Threads : Extracted(t)' => Extracted(t) /\ model'[t] = model[t]
  <2>1. CASE UNCHANGED memoryVars
    BY <2>1 DEF memoryVars, Extracted
  <2>2. ASSUME NEW t \in Threads, NoFeature(t)
        PROVE  /\ UNCHANGED <<guests, shared, crew>>
               /\ \A u \in Threads : Extracted(u)' => Extracted(u) /\ model'[u] = model[u]
    BY <1>2, <2>2 DEF NoFeature, Begins, Extracted
  <2>3. ASSUME NEW t \in Threads, GiveEngine(t) \/ addFeature_User(t)
        PROVE  /\ UNCHANGED <<guests, shared, crew>>
               /\ \A u \in Threads : Extracted(u)' => Extracted(u) /\ model'[u] = model[u]
    <3>1. \/ UNCHANGED <<job, model>>
          \/ job' = [job EXCEPT ![t] = NoJob] /\ Localmodel(t, OnItsOwn(NoPicture))
      BY <2>3 DEF GiveEngine, addFeature_User
    <3>2. UNCHANGED <<guests, shared, crew>>
      BY <2>3 DEF GiveEngine, addFeature_User
    <3> QED BY <1>2, <3>1, <3>2 DEF Localmodel, NoJob, Extracted
  <2> QED BY <1>6, <2>1, <2>2, <2>3
<1>7. CASE \/ UNCHANGED memoryVars
           \/ \E t \in Threads : NoFeature(t) \/ GiveEngine(t) \/ addFeature_User(t)
  BY <1>1, <1>4, <1>6, <1>7 DEF GuestInv
<1>8. CASE \E t \in Threads : addFeature_Guest(t) \/
             \E kind \in Kinds, p \in Pictures : getFeature(t, kind, p)
  BY <1>1, <1>3, <1>5, <1>8 DEF GuestInv
<1> QED BY <1>7, <1>8 DEF MemoryNext, TakeEngine, FinishGiving, memoryVars

\* A guest's feature outlives the request that extracted it: it stays what was
\* extracted if its memory is its own, and otherwise, with one thread, all guests
\* have the memory of the engine that every request gets.
THEOREM GuestsShareOneEngine == MemorySpec => []GuestsAsExtracted
<1>1. ASSUME MemoryInv, GuestInv PROVE GuestsAsExtracted
  <2>1. CASE ~shared
    <3>1. \A p : Deref(OnItsOwn(p)) = p
      BY DEF Deref, OnItsOwn
    <3>2. \A i \in 1 .. Len(guests) : Deref(guests[i].model) = guests[i].asked
      BY <1>1, <2>1, <3>1 DEF GuestInv, GuestsOnTheirOwn
    <3> QED BY <2>1, <3>2 DEF GuestsAsExtracted
  <2>2. CASE shared /\ OneThread
    <3>1. LastPushed # Nobody
      BY PoolAssumption DEF PoolAssumption, LastPushed
    <3>2. \A i \in 1 .. Len(guests) : Deref(guests[i].model) = memory[LastPushed]
      BY <1>1, <2>2, <3>1 DEF GuestInv, OneMemory, Deref
    <3>3. \A t \in crew : job[t].step = "extracted" => Deref(model[t]) = memory[LastPushed]
      BY <1>1, <2>2, <3>1 DEF MemoryInv, MemoryTypeOK, GuestInv, OneMemory, Extracted, Deref
    <3> QED BY <2>2, <3>2, <3>3 DEF GuestsAsExtracted
  <2> QED BY <2>1, <2>2 DEF GuestsAsExtracted
<1>2. MemoryInv /\ GuestInv /\ [MemoryNext]_<<poolVars, memoryVars>> => GuestInv'
  BY GuestNext
<1> QED BY <1>1, <1>2, GuestInit, MemoryInvariant, PTL DEF MemorySpec
=============================================================================
