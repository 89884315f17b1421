-------------------------- MODULE EnginePoolProofs --------------------------
(***************************************************************************)
(* Proofs about EnginePool for any number of threads and engines.  The     *)
(* invariants of the model are not inductive: that the stack is never      *)
(* empty when it is read follows from two counts, kept by PoolCounts, and  *)
(* that no two threads share an engine follows from who may hold the mutex *)
(* (MutexHolder) and from a stack without repetitions (StackDistinct).     *)
(***************************************************************************)
EXTENDS EnginePool, FiniteSetTheorems, SequenceTheorems, TLAPS

Inside == In(PoolStates \ {"out"})

\* The mutex is held exactly in the two critical sections.
MutexHolder ==
  \A t \in Threads :
    mutex = t <=> poolState[t] \in {"reading", "popping", "pushing"}

StackDistinct ==
  \A i, j \in 1 .. Len(Enginespoll) :
    Enginespoll[i] = Enginespoll[j] => i = j

\* A thread between top() and pop() still sees what it read on top.
TopRead ==
  \A t \in In({"popping"}) :
    /\ Enginespoll # <<>>
    /\ curEngineIndex[t] = Top(Enginespoll)

\* Permits and engines are conserved.
PoolCounts ==
  /\ sem + Cardinality(Inside) = SEM_COUNT
  /\ Len(Enginespoll) + Cardinality(Users) = CMAX_NUM

EachEngineSomewhere ==
  \A e \in Engines :
    \/ \E i \in 1 .. Len(Enginespoll) : Enginespoll[i] = e
    \/ \E t \in Users : curEngineIndex[t] = e

PoolInv ==
  /\ PoolTypeOK
  /\ MutexHolder
  /\ StackDistinct
  /\ TopRead
  /\ PoolCounts
  /\ EngineExclusive
  /\ EachEngineSomewhere

-----------------------------------------------------------------------------
\* The sets of threads that the counts are about are finite.
LEMMA PoolFinite ==
  ASSUME PoolAssumption, NEW S
  PROVE  /\ IsFiniteSet(In(S))
         /\ Cardinality(In(S)) \in Nat
         /\ In(S) \in SUBSET Threads
BY FS_Subset, FS_CardinalityType DEF PoolAssumption, In

\* What one move does to the set of the threads in some states: it joins it,
\* leaves it, or neither.
LEMMA MoveCounts ==
  ASSUME PoolAssumption, PoolTypeOK, NEW t \in Threads, NEW S,
         NEW from, NEW to, Move(t, from, to)
  PROVE  /\ from \notin S /\ to \in S =>
              /\ In(S)' = In(S) \cup {t}
              /\ Cardinality(In(S)') = Cardinality(In(S)) + 1
         /\ from \in S /\ to \notin S =>
              /\ In(S)' = In(S) \ {t}
              /\ Cardinality(In(S)') = Cardinality(In(S)) - 1
         /\ (from \in S <=> to \in S) => In(S)' = In(S)
<1>1. /\ IsFiniteSet(In(S)) /\ Cardinality(In(S)) \in Nat
  BY PoolFinite
<1>2. t \in In(S) <=> from \in S
  BY DEF In, Move
<1>3. CASE from \notin S /\ to \in S
  <2>1. In(S)' = In(S) \cup {t}
    BY <1>3 DEF In, Move, PoolTypeOK
  <2> QED BY <2>1, <1>1, <1>2, <1>3, FS_AddElement
<1>4. CASE from \in S /\ to \notin S
  <2>1. In(S)' = In(S) \ {t}
    BY <1>4 DEF In, Move, PoolTypeOK
  <2> QED BY <2>1, <1>1, <1>2, <1>4, FS_RemoveElement
<1>5. CASE from \in S <=> to \in S
  BY <1>5 DEF In, Move, PoolTypeOK
<1> QED BY <1>3, <1>4, <1>5

\* The two sets that the counts are about.
LEMMA InsideMoves ==
  ASSUME PoolAssumption, PoolTypeOK, NEW t \in Threads,
         NEW from \in PoolStates, NEW to \in PoolStates, Move(t, from, to)
  PROVE  /\ from = "out" /\ to # "out" =>
              Cardinality(Inside') = Cardinality(Inside) + 1
         /\ from # "out" /\ to = "out" =>
              Cardinality(Inside') = Cardinality(Inside) - 1
         /\ from # "out" /\ to # "out" => Inside' = Inside
<1> DEFINE S == PoolStates \ {"out"}
<1>1. Inside = In(S) /\ Inside' = In(S)'
  BY DEF Inside
<1> HIDE DEF S
<1>2. /\ from \notin S /\ to \in S => Cardinality(In(S)') = Cardinality(In(S)) + 1
      /\ from \in S /\ to \notin S => Cardinality(In(S)') = Cardinality(In(S)) - 1
      /\ (from \in S <=> to \in S) => In(S)' = In(S)
  BY MoveCounts
<1>3. (from \in S <=> from # "out") /\ (to \in S <=> to # "out")
  BY DEF S
<1> QED BY <1>1, <1>2, <1>3

LEMMA UsersMoves ==
  ASSUME PoolAssumption, PoolTypeOK, NEW t \in Threads,
         NEW from, NEW to, Move(t, from, to)
  PROVE  LET S == {"using", "pushing"} IN
         /\ from \notin S /\ to \in S =>
              Cardinality(Users') = Cardinality(Users) + 1
         /\ from \in S /\ to \notin S =>
              Cardinality(Users') = Cardinality(Users) - 1
         /\ (from \in S <=> to \in S) => Users' = Users
<1> DEFINE S == {"using", "pushing"}
<1>1. Users = In(S) /\ Users' = In(S)'
  BY DEF Users
<1> HIDE DEF S
<1>2. /\ from \notin S /\ to \in S => Cardinality(In(S)') = Cardinality(In(S)) + 1
      /\ from \in S /\ to \notin S => Cardinality(In(S)') = Cardinality(In(S)) - 1
      /\ (from \in S <=> to \in S) => In(S)' = In(S)
  BY MoveCounts
<1> QED BY <1>1, <1>2 DEF S

\* On a stack, pop() removes the top element and nothing else.
LEMMA PopStack ==
  ASSUME NEW S, NEW s \in Seq(S), s # <<>>
  PROVE  /\ Pop(s) \in Seq(S)
         /\ Len(s) \in Nat \ {0}
         /\ Len(Pop(s)) = Len(s) - 1
         /\ \A i \in 1 .. Len(s) - 1 : Pop(s)[i] = s[i]
         /\ Top(s) \in S
<1>1. Len(s) \in Nat /\ Len(s) # 0
  OBVIOUS
<1>2. \A i \in 1 .. Len(s) - 1 : s[i] \in S
  <2> SUFFICES ASSUME NEW i \in 1 .. Len(s) - 1 PROVE s[i] \in S
    OBVIOUS
  <2>1. i \in 1 .. Len(s)
    BY <1>1
  <2> QED BY <2>1, ElementOfSeq
<1>3. /\ Pop(s) \in Seq(S)
      /\ Len(Pop(s)) = Len(s) - 1
      /\ \A i \in 1 .. Len(s) - 1 : Pop(s)[i] = s[i]
  <2> DEFINE n == Len(s) - 1
  <2>0. n \in Nat
    BY <1>1
  <2>2. Pop(s) = SubSeq(s, 1, n)
    BY DEF Pop
  <2> HIDE DEF n
  <2>1. n \in Int /\ 1 \in Int /\ n - 1 + 1 = n /\ (1 <= n \/ n = 0)
    BY <2>0
  <2>3. \A i \in 1 .. n : 1 + i - 1 = i
    BY <2>0
  <2>4. /\ SubSeq(s, 1, n) \in Seq(S)
        /\ Len(SubSeq(s, 1, n)) = IF 1 <= n THEN n - 1 + 1 ELSE 0
        /\ \A i \in 1 .. n - 1 + 1 : SubSeq(s, 1, n)[i] = s[1 + i - 1]
    BY <1>2, <2>1, SubSeqProperties DEF n
  <2>5. /\ SubSeq(s, 1, n) \in Seq(S)
        /\ Len(SubSeq(s, 1, n)) = n
        /\ \A i \in 1 .. n : SubSeq(s, 1, n)[i] = s[i]
    BY <2>1, <2>3, <2>4
  <2> QED BY <2>2, <2>5 DEF n
<1>4. Top(s) \in S
  BY <1>1 DEF Top
<1> QED BY <1>1, <1>2, <1>3, <1>4

\* Whoever may read the top of the stack finds an engine there: the semaphore
\* lets in no more threads than there are engines.
LEMMA StackNotEmpty ==
  ASSUME PoolAssumption, PoolInv, In({"reading", "popping"}) # {}
  PROVE  Enginespoll # <<>>
<1>1. PICK t \in Threads : poolState[t] \in {"reading", "popping"}
  BY DEF In
<1>2. Users \subseteq Inside \ {t} /\ t \in Inside
  BY <1>1 DEF Users, Inside, In, PoolStates
<1>3. Cardinality(Users) <= Cardinality(Inside) - 1
  <2>1. IsFiniteSet(Inside) /\ Cardinality(Inside) \in Nat
    BY PoolFinite DEF Inside
  <2>2. /\ IsFiniteSet(Inside \ {t})
        /\ Cardinality(Inside \ {t}) = Cardinality(Inside) - 1
    BY <2>1, <1>2, FS_RemoveElement
  <2>3. Cardinality(Users) <= Cardinality(Inside \ {t})
    BY <2>2, <1>2, FS_Subset
  <2> QED BY <2>2, <2>3
<1>4. Cardinality(Users) \in Nat /\ Cardinality(Inside) \in Nat
  BY PoolFinite DEF Users, Inside
<1>5. Cardinality(Users) < CMAX_NUM
  BY <1>3, <1>4 DEF PoolInv, PoolCounts, PoolTypeOK, PoolAssumption
<1>6. Len(Enginespoll) # 0
  BY <1>4, <1>5 DEF PoolInv, PoolCounts, PoolTypeOK, PoolAssumption
<1> QED BY <1>6


-----------------------------------------------------------------------------
LEMMA PoolInitInv ==
  ASSUME PoolAssumption, PoolInit
  PROVE  PoolInv
<1>1. PoolTypeOK
  BY DEF PoolAssumption, PoolInit, PoolTypeOK, Engines, PoolStates
<1>2. Users = {} /\ Inside = {} /\ In({"popping"}) = {}
  BY DEF PoolInit, Users, Inside, In
<1>3. PoolCounts
  BY <1>2, FS_EmptySet DEF PoolInit, PoolCounts, PoolAssumption
<1>4. MutexHolder
  BY DEF PoolInit, MutexHolder, PoolAssumption
<1>5. StackDistinct
  BY DEF PoolInit, StackDistinct, PoolAssumption
<1>6. EachEngineSomewhere
  <2> SUFFICES ASSUME NEW e \in Engines
               PROVE  \E i \in 1 .. Len(Enginespoll) : Enginespoll[i] = e
    BY DEF EachEngineSomewhere
  <2>1. e + 1 \in 1 .. CMAX_NUM /\ Len(Enginespoll) = CMAX_NUM
    BY DEF PoolInit, Engines, PoolAssumption
  <2>2. Enginespoll[e + 1] = e
    BY <2>1 DEF PoolInit, Engines, PoolAssumption
  <2> QED BY <2>1, <2>2
<1>7. TopRead /\ EngineExclusive
  BY <1>2 DEF TopRead, EngineExclusive
<1> QED BY <1>1, <1>3, <1>4, <1>5, <1>6, <1>7 DEF PoolInv

\* What the step of a thread does to the two counts.
LEMMA CountsStep ==
  ASSUME PoolAssumption, PoolInv, NEW t \in Threads,
         popEngineIndex(t) \/ pushEngineIndex(t), PoolTypeOK'
  PROVE  PoolCounts'
<1> USE DEF PoolInv
<1>0. /\ Cardinality(Inside) \in Nat /\ Cardinality(Users) \in Nat
      /\ Len(Enginespoll) \in Nat /\ Len(Enginespoll') \in Nat
      /\ sem \in Nat /\ sem' \in Nat /\ CMAX_NUM \in Nat /\ SEM_COUNT \in Nat
  BY PoolFinite DEF Inside, Users, PoolTypeOK, PoolAssumption
<1>1. CASE Acquire(t)
  <2>1. Move(t, "out", "admitted") /\ sem' = sem - 1 /\ Enginespoll' = Enginespoll
    BY <1>1 DEF Acquire
  <2>2. Cardinality(Inside') = Cardinality(Inside) + 1 /\ Users' = Users
    BY <2>1, InsideMoves, UsersMoves DEF PoolStates
  <2> QED BY <1>0, <2>1, <2>2 DEF PoolCounts
<1>2. CASE LockForPop(t)
  <2>1. Move(t, "admitted", "reading") /\ sem' = sem /\ Enginespoll' = Enginespoll
    BY <1>2 DEF LockForPop
  <2>2. Inside' = Inside /\ Users' = Users
    BY <2>1, InsideMoves, UsersMoves DEF PoolStates
  <2> QED BY <1>0, <2>1, <2>2 DEF PoolCounts
<1>3. CASE ReadTop(t)
  <2>1. Move(t, "reading", "popping") /\ sem' = sem /\ Enginespoll' = Enginespoll
    BY <1>3 DEF ReadTop
  <2>2. Inside' = Inside /\ Users' = Users
    BY <2>1, InsideMoves, UsersMoves DEF PoolStates
  <2> QED BY <1>0, <2>1, <2>2 DEF PoolCounts
<1>4. CASE PopTop(t)
  <2>1. Move(t, "popping", "using") /\ sem' = sem
    BY <1>4 DEF PopTop
  <2>2. Inside' = Inside /\ Cardinality(Users') = Cardinality(Users) + 1
    BY <2>1, InsideMoves, UsersMoves DEF PoolStates
  <2>3. Len(Enginespoll') = Len(Enginespoll) - 1
    BY <1>4, PopStack DEF PopTop, PoolTypeOK
  <2> QED BY <1>0, <2>1, <2>2, <2>3 DEF PoolCounts
<1>5. CASE LockForPush(t)
  <2>1. Move(t, "using", "pushing") /\ sem' = sem /\ Enginespoll' = Enginespoll
    BY <1>5 DEF LockForPush
  <2>2. Inside' = Inside /\ Users' = Users
    BY <2>1, InsideMoves, UsersMoves DEF PoolStates
  <2> QED BY <1>0, <2>1, <2>2 DEF PoolCounts
<1>6. CASE PushIndex(t)
  <2>1. Move(t, "pushing", "leaving") /\ sem' = sem
    BY <1>6 DEF PushIndex
  <2>2. Inside' = Inside /\ Cardinality(Users') = Cardinality(Users) - 1
    BY <2>1, InsideMoves, UsersMoves DEF PoolStates
  <2>3. Len(Enginespoll') = Len(Enginespoll) + 1
    BY <1>6, <1>0 DEF PushIndex, PoolTypeOK
  <2> QED BY <1>0, <2>1, <2>2, <2>3 DEF PoolCounts
<1>7. CASE Release(t)
  <2>1. Move(t, "leaving", "out") /\ sem' = sem + 1 /\ Enginespoll' = Enginespoll
    BY <1>7 DEF Release
  <2>2. Cardinality(Inside') = Cardinality(Inside) - 1 /\ Users' = Users
    BY <2>1, InsideMoves, UsersMoves DEF PoolStates
  <2> QED BY <1>0, <2>1, <2>2 DEF PoolCounts
<1> QED
  BY <1>1, <1>2, <1>3, <1>4, <1>5, <1>6, <1>7
  DEF popEngineIndex, pushEngineIndex

-----------------------------------------------------------------------------
LEMMA PoolTypeStep ==
  ASSUME PoolAssumption, PoolInv, NEW t \in Threads,
         popEngineIndex(t) \/ pushEngineIndex(t)
  PROVE  PoolTypeOK'
<1> USE DEF PoolInv, PoolTypeOK, Move
<1>1. CASE Acquire(t)
  BY <1>1 DEF Acquire, PoolStates, PoolAssumption
<1>2. CASE LockForPop(t)
  BY <1>2 DEF LockForPop, LockMutex, PoolStates
<1>3. CASE ReadTop(t)
  <2>1. Top(Enginespoll) \in Engines
    BY <1>3, PopStack DEF ReadTop
  <2> QED BY <1>3, <2>1 DEF ReadTop, PoolStates
<1>4. CASE PopTop(t)
  <2>1. Pop(Enginespoll) \in Seq(Engines)
    BY <1>4, PopStack DEF PopTop
  <2> QED BY <1>4, <2>1 DEF PopTop, UnlockMutex, PoolStates
<1>5. CASE LockForPush(t)
  BY <1>5 DEF LockForPush, LockMutex, PoolStates
<1>6. CASE PushIndex(t)
  <2>1. t \in Users
    BY <1>6 DEF PushIndex, Users, In
  <2>2. curEngineIndex[t] \in Engines
    BY <2>1 DEF EngineExclusive
  <2>3. Append(Enginespoll, curEngineIndex[t]) \in Seq(Engines)
    BY <2>2, AppendProperties
  <2> QED BY <1>6, <2>3 DEF PushIndex, UnlockMutex, PoolStates
<1>7. CASE Release(t)
  <2>1. t \in Inside
    BY <1>7 DEF Release, Inside, In, PoolStates
  <2>2. IsFiniteSet(Inside) /\ Cardinality(Inside) \in Nat
    BY PoolFinite DEF Inside
  <2>3. Cardinality(Inside) # 0
    BY <2>1, <2>2, FS_EmptySet
  <2>4. sem + 1 \in 0 .. SEM_COUNT
    BY <2>2, <2>3 DEF PoolCounts, PoolAssumption
  <2> QED BY <1>7, <2>4 DEF Release, PoolStates
<1> QED
  BY <1>1, <1>2, <1>3, <1>4, <1>5, <1>6, <1>7
  DEF popEngineIndex, pushEngineIndex

LEMMA MutexStep ==
  ASSUME PoolAssumption, PoolInv, NEW t \in Threads,
         popEngineIndex(t) \/ pushEngineIndex(t)
  PROVE  MutexHolder'
<1> USE DEF PoolInv, PoolTypeOK, Move, MutexHolder, PoolAssumption
<1>1. CASE Acquire(t) \/ ReadTop(t) \/ Release(t)
  BY <1>1 DEF Acquire, ReadTop, Release
<1>2. CASE LockForPop(t) \/ LockForPush(t)
  BY <1>2 DEF LockForPop, LockForPush, LockMutex
<1>3. CASE PopTop(t) \/ PushIndex(t)
  BY <1>3 DEF PopTop, PushIndex, UnlockMutex
<1> QED BY <1>1, <1>2, <1>3 DEF popEngineIndex, pushEngineIndex

\* Only the holder of the mutex moves the stack, so what it read on top stays
\* there, and the engine it pops is nobody else's.
LEMMA StackStep ==
  ASSUME PoolAssumption, PoolInv, NEW t \in Threads,
         popEngineIndex(t) \/ pushEngineIndex(t), PoolTypeOK'
  PROVE  /\ StackDistinct'
         /\ TopRead'
         /\ EngineExclusive'
         /\ EachEngineSomewhere'
<1> USE DEF PoolInv
<1>1. CASE Acquire(t) \/ LockForPop(t) \/ LockForPush(t) \/ Release(t)
  <2>1. UNCHANGED <<Enginespoll, curEngineIndex>>
    BY <1>1 DEF Acquire, LockForPop, LockForPush, Release
  <2>2. Users' = Users /\ In({"popping"})' = In({"popping"})
    BY <1>1 DEF Acquire, LockForPop, LockForPush, Release, Move, Users, In, PoolTypeOK
  <2> QED
    BY <2>1, <2>2 DEF StackDistinct, TopRead, EngineExclusive, EachEngineSomewhere
<1>2. CASE ReadTop(t)
  <2>1. /\ Enginespoll' = Enginespoll /\ Enginespoll # <<>>
        /\ curEngineIndex' = [curEngineIndex EXCEPT ![t] = Top(Enginespoll)]
    BY <1>2 DEF ReadTop
  <2>2. Users' = Users /\ t \notin Users /\ In({"popping"})' = In({"popping"}) \cup {t}
    BY <1>2 DEF ReadTop, Move, Users, In, PoolTypeOK
  <2>3. \A u \in Threads : u # t => curEngineIndex'[u] = curEngineIndex[u]
    BY <2>1 DEF PoolTypeOK
  <2>4. curEngineIndex'[t] = Top(Enginespoll)
    BY <2>1 DEF PoolTypeOK
  <2>5. Users \subseteq Threads /\ In({"popping"}) \subseteq Threads
    BY DEF Users, In
  <2>6. StackDistinct'
    BY <2>1 DEF StackDistinct
  <2>7. TopRead'
    BY <2>1, <2>2, <2>3, <2>4, <2>5 DEF TopRead
  <2>8. EngineExclusive'
    BY <2>1, <2>2, <2>3, <2>5 DEF EngineExclusive
  <2>9. EachEngineSomewhere'
    BY <2>1, <2>2, <2>3, <2>5 DEF EachEngineSomewhere
  <2> QED BY <2>6, <2>7, <2>8, <2>9
<1>3. CASE PopTop(t)
  <2> DEFINE n == Len(Enginespoll)
             e == curEngineIndex[t]
  <2>1. /\ Enginespoll' = Pop(Enginespoll) /\ Enginespoll # <<>>
        /\ UNCHANGED curEngineIndex
    BY <1>3 DEF PopTop
  <2>2. Users' = Users \cup {t} /\ t \notin Users
    BY <1>3 DEF PopTop, Move, Users, In, PoolTypeOK
  <2>3. /\ n \in Nat \ {0} /\ Len(Enginespoll') = n - 1
        /\ \A i \in 1 .. n - 1 : Enginespoll'[i] = Enginespoll[i]
    BY <2>1, PopStack DEF PoolTypeOK
  <2>4. e = Enginespoll[n] /\ e \in Engines
    BY <1>3, PopStack DEF PopTop, Move, TopRead, In, Top, PoolTypeOK
  <2>5. In({"popping"})' = {}
    BY <1>3 DEF PopTop, Move, MutexHolder, In, PoolTypeOK
  <2> HIDE DEF n
  <2>6. StackDistinct'
    BY <2>3 DEF StackDistinct, n
  <2>7. TopRead'
    BY <2>5 DEF TopRead
  <2>8. \A i \in 1 .. n - 1 : Enginespoll[i] # e
    BY <2>3, <2>4 DEF StackDistinct, n
  <2>9. \A u \in Users : curEngineIndex[u] # e
    BY <2>3, <2>4 DEF EngineExclusive, n
  <2>10. EngineExclusive'
    BY <2>1, <2>2, <2>3, <2>4, <2>8, <2>9 DEF EngineExclusive, n
  <2>11. EachEngineSomewhere'
    <3> SUFFICES ASSUME NEW x \in Engines,
                        ~ \E u \in Users' : curEngineIndex'[u] = x
                 PROVE  \E i \in 1 .. Len(Enginespoll') : Enginespoll'[i] = x
      BY DEF EachEngineSomewhere
    <3>1. x # e /\ ~ \E u \in Users : curEngineIndex[u] = x
      BY <2>1, <2>2
    <3>2. PICK i \in 1 .. n : Enginespoll[i] = x
      BY <3>1 DEF EachEngineSomewhere, n
    <3>3. i \in 1 .. n - 1
      BY <2>3, <2>4, <3>1, <3>2
    <3> QED BY <2>3, <3>2, <3>3
  <2> QED BY <2>6, <2>7, <2>10, <2>11
<1>4. CASE PushIndex(t)
  <2> DEFINE n == Len(Enginespoll)
             e == curEngineIndex[t]
  <2>1. /\ Enginespoll' = Append(Enginespoll, e)
        /\ curEngineIndex' = [curEngineIndex EXCEPT ![t] = Nobody]
    BY <1>4 DEF PushIndex
  <2>2. Users' = Users \ {t} /\ t \in Users
    BY <1>4 DEF PushIndex, Move, Users, In, PoolTypeOK
  <2>3. e \in Engines /\ \A i \in 1 .. n : Enginespoll[i] # e
    BY <2>2 DEF EngineExclusive
  <2>4. /\ n \in Nat /\ Len(Enginespoll') = n + 1
        /\ \A i \in 1 .. n : Enginespoll'[i] = Enginespoll[i]
        /\ Enginespoll'[n + 1] = e
    BY <2>1, <2>3, AppendProperties DEF PoolTypeOK
  <2>5. \A u \in Users' : u # t /\ curEngineIndex'[u] = curEngineIndex[u]
    BY <2>1, <2>2 DEF Users, In, PoolTypeOK
  <2>6. \A u \in Users' : curEngineIndex[u] # e
    BY <2>2 DEF EngineExclusive
  <2>7. In({"popping"})' = {}
    BY <1>4 DEF PushIndex, Move, MutexHolder, In, PoolTypeOK
  <2> HIDE DEF n, e
  <2>8. StackDistinct'
    BY <2>3, <2>4 DEF StackDistinct, n
  <2>9. TopRead'
    BY <2>7 DEF TopRead
  <2>10. EngineExclusive'
    BY <2>2, <2>4, <2>5, <2>6 DEF EngineExclusive, n
  <2>11. EachEngineSomewhere'
    <3> SUFFICES ASSUME NEW x \in Engines,
                        ~ \E u \in Users' : curEngineIndex'[u] = x
                 PROVE  \E i \in 1 .. Len(Enginespoll') : Enginespoll'[i] = x
      BY DEF EachEngineSomewhere
    <3>1. CASE x = e
      BY <2>4, <3>1
    <3>2. CASE x # e
      <4>1. ~ \E u \in Users : curEngineIndex[u] = x
        BY <2>2, <2>5, <3>2 DEF e
      <4>2. PICK i \in 1 .. n : Enginespoll[i] = x
        BY <4>1 DEF EachEngineSomewhere, n
      <4> QED BY <2>4, <4>2
    <3> QED BY <3>1, <3>2
  <2> QED BY <2>8, <2>9, <2>10, <2>11
<1> QED
  BY <1>1, <1>2, <1>3, <1>4 DEF popEngineIndex, pushEngineIndex

-----------------------------------------------------------------------------
LEMMA PoolInvStep == PoolInv /\ [PoolNext]_poolVars => PoolInv'
<1> SUFFICES ASSUME PoolInv, [PoolNext]_poolVars PROVE PoolInv'
  OBVIOUS
<1>1. CASE PoolNext
  <2>1. PICK t \in Threads : popEngineIndex(t) \/ pushEngineIndex(t)
    BY <1>1 DEF PoolNext
  <2> QED
    BY <2>1, PoolAssumption, PoolTypeStep, MutexStep, StackStep, CountsStep DEF PoolInv
<1>2. CASE UNCHANGED poolVars
  BY <1>2 DEF poolVars, PoolInv, PoolTypeOK, MutexHolder, StackDistinct,
     TopRead, PoolCounts, EngineExclusive, EachEngineSomewhere, Users, Inside, In
<1> QED BY <1>1, <1>2

\* PoolInv is inductive.
THEOREM PoolInvariant == PoolSpec => []PoolInv
<1>1. PoolInit => PoolInv
  BY PoolAssumption, PoolInitInv
<1> QED BY <1>1, PoolInvStep, PTL DEF PoolSpec

\* A restart of the process sets the pool up again.
LEMMA PoolRestartInv == PoolRestart => PoolInv'
<1>1. PoolInit => PoolInv
  BY PoolAssumption, PoolInitInv
<1>2. PoolRestart => PoolInit'
  BY DEF PoolRestart, PoolInit
<1> QED BY <1>1, <1>2, PTL

\* The variables of popEngineIndex and pushEngineIndex keep their types; the
\* semaphore never exceeds its initial count.
THEOREM PoolTypeCorrect == PoolSpec => []PoolTypeOK
BY PoolInvariant, PTL DEF PoolInv

\* popEngineIndex never hands an engine to two threads, nor one that is still
\* on the stack, whatever the number of threads.
THEOREM PoolExclusion == PoolSpec => []EngineExclusive
BY PoolInvariant, PTL DEF PoolInv

\* Enginespoll.top() and pop() are never called on an empty stack.
THEOREM PoolTopIsDefined == PoolSpec => []TopIsDefined
<1>1. PoolInv => TopIsDefined
  BY PoolAssumption, StackNotEmpty DEF TopIsDefined
<1> QED BY <1>1, PoolInvariant, PTL

\* No engine is lost or duplicated by popEngineIndex and pushEngineIndex.
THEOREM PoolConservation == PoolSpec => []PoolConserved
<1>1. PoolInv => PoolConserved
  BY DEF PoolInv, EachEngineSomewhere, StackDistinct, PoolConserved
<1> QED BY <1>1, PoolInvariant, PTL
=============================================================================
