--------------------------- MODULE FeatureMemory ---------------------------
(***************************************************************************)
(* Where the features lie that the requests of ARCFaceEngines work with.   *)
(* AFR_FSDK_FACEMODEL is a pointer, pbFeature, and a length; it is copied  *)
(* around, what it points at never is.  Whether the SDK gives a pointer to *)
(* memory of the engine, which the next extraction overwrites, or to       *)
(* memory of its own is not documented: both are modelled.  The requests   *)
(* take engines from EnginePool; everything else about them is in          *)
(* FaceServer.                                                             *)
(***************************************************************************)
EXTENDS EnginePool

CONSTANTS
  Pictures,    \* pictures, named by the feature the SDK finds in them
  NoPicture,   \* a picture in which it finds none; a memory not yet used
  MaxGuests    \* bound on the guests of a run

ASSUME FeatureMemoryAssumption ==
  /\ NoPicture \notin Pictures
  /\ MaxGuests \in Nat

VARIABLES
  shared,   \* pbFeature points into the engine
  crew,     \* the IO threads there are: all, or the base loop's only
  memory,   \* per engine: the feature its memory holds
  job,      \* per thread: [kind, picture, step] of its request
  model,    \* per thread: localmodel
  users,    \* the faces addFeature_User stored, [asked, stored]
  guests    \* cache_guest, [asked, model]

memoryVars == <<shared, crew, memory, job, model, users, guests>>

Kinds == {"compareFace", "addFeature", "addFeature_g"}

NoJob == [kind |-> "none", picture |-> NoPicture, step |-> "done"]

\* pbFeature: memory of engine e, or memory that holds f and nobody writes again.
InEngine(e) == [engine |-> e, feature |-> NoPicture]
OnItsOwn(f) == [engine |-> Nobody, feature |-> f]

Deref(m) == IF m.engine = Nobody THEN m.feature ELSE memory[m.engine]

\* A thread sets its localmodel; the mutant's is a static one.
LocalmodelStatic(t, m) == model' = [u \in Threads |-> m]

Localmodel(t, m) == model' = [model EXCEPT ![t] = m]

-----------------------------------------------------------------------------
MemoryInit ==
  /\ PoolInit
  /\ shared \in BOOLEAN
  /\ crew \in {Threads} \cup {{t} : t \in Threads}
  /\ memory = [e \in Engines |-> NoPicture]
  /\ job = [t \in Threads |-> NoJob]
  /\ model = [t \in Threads |-> OnItsOwn(NoPicture)]
  /\ users = {}
  /\ guests = <<>>

\* A request begins by taking an engine; what it is for shows in getFeature.
TakeEngine(t) ==
  /\ t \in crew
  /\ job[t] = NoJob
  /\ popEngineIndex(t)
  /\ UNCHANGED memoryVars

Begins(t, kind, p, step) == job' = [job EXCEPT ![t] = [kind |-> kind, picture |-> p, step |-> step]]

\* getFeature fails: there is no face, or no picture to begin with.
NoFeature(t) ==
  /\ poolState[t] = "using"
  /\ job[t] = NoJob
  /\ \E kind \in Kinds : Begins(t, kind, NoPicture, "failed")
  /\ UNCHANGED <<poolVars, shared, crew, memory, model, users, guests>>

\* getFeature: AFR_FSDK_ExtractFRFeature.
getFeature(t, kind, p) ==
  /\ poolState[t] = "using"
  /\ job[t] = NoJob
  /\ Begins(t, kind, p, "extracted")
  /\ IF shared
     THEN /\ memory' = [memory EXCEPT ![curEngineIndex[t]] = p]
          /\ Localmodel(t, InEngine(curEngineIndex[t]))
     ELSE Localmodel(t, OnItsOwn(p)) /\ UNCHANGED memory
  /\ UNCHANGED <<poolVars, shared, crew, users, guests>>

\* addFeature_Guest copies the model, while addFeature_g has the engine.
addFeature_Guest(t) ==
  /\ job[t].kind = "addFeature_g"
  /\ job[t].step = "extracted"
  /\ poolState[t] = "using"
  /\ guests' = Append(guests, [asked |-> job[t].picture, model |-> model[t]])
  /\ job' = [job EXCEPT ![t].step = "stored"]
  /\ UNCHANGED <<poolVars, shared, crew, memory, model, users>>

\* When the engine is given back: after the comparisons, right after the
\* extraction for addFeature, and after addFeature_Guest for addFeature_g.
MayGive(t) ==
  job[t].step \in (IF job[t].kind = "addFeature_g" THEN {"stored", "failed"}
                                                   ELSE {"extracted", "failed"})

\* Only addFeature has something left to do.
GiveEngine(t) ==
  /\ MayGive(t)
  /\ LockForPush(t)
  /\ IF job[t].kind = "addFeature" /\ job[t].step = "extracted"
     THEN UNCHANGED <<job, model>>
     ELSE job' = [job EXCEPT ![t] = NoJob] /\ Localmodel(t, OnItsOwn(NoPicture))
  /\ UNCHANGED <<shared, crew, memory, users, guests>>

FinishGiving(t) == (PushIndex(t) \/ Release(t)) /\ UNCHANGED memoryVars

\* addFeature_User builds its QByteArray, when the engine is given back.
addFeature_User(t) ==
  /\ job[t].kind = "addFeature"
  /\ poolState[t] = "out"
  /\ users' = users \cup {[asked |-> job[t].picture, stored |-> Deref(model[t])]}
  /\ job' = [job EXCEPT ![t] = NoJob]
  /\ Localmodel(t, OnItsOwn(NoPicture))
  /\ UNCHANGED <<poolVars, shared, crew, memory, guests>>

Adding == {t \in Threads : job[t].kind = "addFeature_g" /\ job[t].step = "extracted"}

MemoryNext ==
  \E t \in Threads :
    \/ TakeEngine(t) \/ NoFeature(t) \/ GiveEngine(t) \/ FinishGiving(t)
    \/ addFeature_Guest(t) \/ addFeature_User(t)
    \/ \E kind \in Kinds, p \in Pictures :
         /\ kind = "addFeature_g" => Len(guests) + Cardinality(Adding) < MaxGuests
         /\ getFeature(t, kind, p)

MemorySpec == MemoryInit /\ [][MemoryNext]_<<poolVars, memoryVars>>

-----------------------------------------------------------------------------
OneThread == Cardinality(crew) = 1

\* As long as a request has its engine, the feature it extracted is what it reads,
\* wherever the SDK puts it and whatever other threads extract.
HeldFeatureIntact ==
  \A t \in Threads :
    job[t].step \in {"extracted", "stored"} /\ poolState[t] = "using"
      => Deref(model[t]) = job[t].picture

\* addFeature reads the feature after it has given the engine back.  What is
\* stored is right all the same if the memory is the feature's own, or if there is
\* one thread, as main.cpp has it.
UsersAsExtracted == ~shared \/ OneThread => \A u \in users : u.stored = u.asked

\* The guests' features are pointers that outlive the requests.  Each stays right
\* if the memory is its own; if it is the engine's, one thread gets the same
\* engine every time, so that all guests look like the face extracted last, the
\* one that is being compared with them.
GuestsAsExtracted ==
  /\ ~shared => \A i \in 1 .. Len(guests) : Deref(guests[i].model) = guests[i].asked
  /\ shared /\ OneThread =>
       \A t \in crew, i \in 1 .. Len(guests) :
         job[t].step = "extracted" => Deref(guests[i].model) = Deref(model[t])
=============================================================================
