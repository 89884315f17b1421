------------------------- MODULE GuestServerProofs -------------------------
(***************************************************************************)
(* Proofs about GuestServer, for any number of threads, requests and       *)
(* pictures and for any clock.  While clearList is between free and erase  *)
(* the first entry of the list points at freed memory, and the heap may    *)
(* have given the block away again; the entries from First on are those    *)
(* with a picture.  HeapShared says that each of them, and each handler    *)
(* that carries a picture, has a block of its own.                         *)
(***************************************************************************)
EXTENDS GuestServer, SequenceTheorems, FiniteSetTheorems, TLAPS

\* Who holds or awaits the lock, by the position in the handler.
LockMatchesPc ==
  \A t \in Threads :
    /\ t \in lock.writers <=> pc[t] \in {"pushing", "freeing", "erasing"}
    /\ t \in lock.readers <=> pc[t] = "scanning"
    /\ t \in lock.waiting <=> pc[t] = "writeLocking"

LockExclusive ==
  /\ lock.writers # {} => lock.readers = {}
  /\ \A t, u \in lock.writers : t = u

First == IF Erasing = {} THEN 1 ELSE 2

HeapShared ==
  /\ Erasing # {} => guestList # <<>>
  /\ \A k \in 1 .. Len(guestList) : k >= First => guestList[k].data \in heap
  /\ \A j, k \in 1 .. Len(guestList) :
       j >= First /\ k >= First /\ guestList[j].data = guestList[k].data => j = k
  /\ \A t \in Carrying : guestPic[t].data \in heap
  /\ \A t \in Carrying : \A k \in 1 .. Len(guestList) :
       k >= First => guestList[k].data # guestPic[t].data
  /\ \A t, u \in Carrying : guestPic[t].data = guestPic[u].data => t = u

GuestInv == GuestTypeOK /\ LockMatchesPc /\ LockExclusive /\ HeapShared

-----------------------------------------------------------------------------
LEMMA DayTime ==
  ASSUME GuestAssumption, GuestTypeOK, NEW s \in Int
  PROVE  QTime(s) \in Times
<1>1. Day \in Nat /\ Day > 0 /\ now + s \in Int
  BY DEF GuestAssumption, GuestTypeOK
<1>2. (now + s) % Day \in 0 .. Day - 1
  BY <1>1
<1> QED BY <1>1, <1>2 DEF QTime, Times

\* A lock after each of its calls.
LEMMA LockValues ==
  ASSUME NEW T, NEW l \in Locks(T), NEW t
  PROVE  /\ ReadBy(l, t).readers = l.readers \cup {t}
         /\ ReadBy(l, t).writers = l.writers
         /\ ReadBy(l, t).waiting = l.waiting
         /\ QueuedBy(l, t).readers = l.readers
         /\ QueuedBy(l, t).writers = l.writers
         /\ QueuedBy(l, t).waiting = l.waiting \cup {t}
         /\ WrittenBy(l, t).readers = l.readers
         /\ WrittenBy(l, t).writers = l.writers \cup {t}
         /\ WrittenBy(l, t).waiting = l.waiting \ {t}
         /\ ReleasedBy(l, t).readers = l.readers \ {t}
         /\ ReleasedBy(l, t).writers = l.writers \ {t}
         /\ ReleasedBy(l, t).waiting = l.waiting
BY DEF Locks, ReadBy, QueuedBy, WrittenBy, ReleasedBy

LEMMA LockTypes ==
  ASSUME NEW T, NEW l \in Locks(T), NEW t \in T
  PROVE  /\ ReadBy(l, t) \in Locks(T) /\ QueuedBy(l, t) \in Locks(T)
         /\ WrittenBy(l, t) \in Locks(T) /\ ReleasedBy(l, t) \in Locks(T)
<1>1. ReadBy(l, t) \in Locks(T) /\ QueuedBy(l, t) \in Locks(T)
  BY DEF Locks, ReadBy, QueuedBy
<1>2. WrittenBy(l, t) \in Locks(T)
  BY DEF Locks, WrittenBy
<1>3. ReleasedBy(l, t) \in Locks(T)
  BY DEF Locks, ReleasedBy
<1> QED BY <1>1, <1>2, <1>3

LEMMA GuestInitInv == ASSUME Init PROVE GuestInv
<1>1. Start \in Nat /\ now = Start /\ SomeId \in Ids
  BY GuestAssumption DEF GuestAssumption, Init, SomeId
<1>2. QTime(0) \in Times
  <2>1. Day \in Nat /\ Day > 0 /\ now + 0 \in Int
    BY <1>1, GuestAssumption DEF GuestAssumption
  <2>2. (now + 0) % Day \in 0 .. Day - 1
    BY <2>1
  <2> QED BY <2>1, <2>2 DEF QTime, Times
<1>3. guestPic \in [Threads -> GuestPics] /\ curTime \in [Threads -> Times]
  BY <1>1, <1>2 DEF Init, GuestPics
<1>4. lock \in Locks(Threads) /\ received \in 0 .. MaxRequests
  BY GuestAssumption DEF Init, Unlocked, Locks, GuestAssumption
<1>5. GuestTypeOK
  BY <1>1, <1>3, <1>4 DEF Init, GuestTypeOK, PCs
<1>6. LockMatchesPc /\ LockExclusive
  BY DEF Init, Unlocked, LockMatchesPc, LockExclusive
<1>7. HeapShared
  BY DEF Init, HeapShared, Erasing, Carrying
<1> QED BY <1>5, <1>6, <1>7 DEF GuestInv

-----------------------------------------------------------------------------
\* A list of pictures stays one.
LEMMA ListTypes ==
  ASSUME NEW S, NEW s \in Seq(S)
  PROVE  /\ \A x \in S : Append(s, x) \in Seq(S)
         /\ s # <<>> => Tail(s) \in Seq(S)
         /\ Len(s) \in Nat
         /\ \A k \in 1 .. Len(s) : s[k] \in S
BY AppendProperties, HeadTailProperties, LenProperties, ElementOfSeq

\* What the handlers' locals, the clock and the count are after a step.
LocalsOK ==
  /\ pc \in [Threads -> PCs]
  /\ guestPic \in [Threads -> GuestPics]
  /\ it \in [Threads -> Nat \ {0}]
  /\ flag \in [Threads -> Nat]
  /\ curTime \in [Threads -> Times]
  /\ received \in 0 .. MaxRequests
  /\ now \in Nat

LEMMA LocalsStep ==
  ASSUME GuestTypeOK, NEW t \in Threads,
         \/ Handle(t)
         \/ \E i \in Ids : BeginQuery(t, i) \/ \E b \in Blocks : BeginAdd(t, i, b)
  PROVE  LocalsOK'
<1> USE DEF Go, PCs, LocalsOK
<1>0. LocalsOK
  BY DEF GuestTypeOK
<1>1. CASE \E i \in Ids, b \in Blocks : BeginAdd(t, i, b)
  <2>1. PICK i \in Ids, b \in Blocks : BeginAdd(t, i, b)
    BY <1>1
  <2>2. [id |-> i, data |-> b, addTime |-> QTime(0)] \in GuestPics
    BY DayTime, GuestAssumption DEF GuestPics
  <2>3. guestPic' \in [Threads -> GuestPics]
    BY <1>0, <2>1, <2>2 DEF BeginAdd
  <2>4. received' \in 0 .. MaxRequests
    BY <1>0, <2>1, GuestAssumption DEF BeginAdd, Receive, GuestAssumption
  <2> QED BY <1>0, <2>1, <2>3, <2>4 DEF BeginAdd
<1>2. CASE \E i \in Ids : BeginQuery(t, i)
  <2>1. PICK i \in Ids : BeginQuery(t, i)
    BY <1>2
  <2>2. guestPic' \in [Threads -> GuestPics]
    <3>1. [guestPic[t] EXCEPT !.id = i] \in GuestPics
      BY <1>0 DEF GuestPics
    <3> QED BY <1>0, <2>1, <3>1 DEF BeginQuery
  <2>3. received' \in 0 .. MaxRequests
    BY <1>0, <2>1, GuestAssumption DEF BeginQuery, Receive, GuestAssumption
  <2> QED BY <1>0, <2>1, <2>2, <2>3 DEF BeginQuery
<1>3. CASE onStringMessage_add(t)
  BY <1>0, <1>3 DEF onStringMessage_add, QueueToWrite, LockToWrite, PushBack, locals
<1>4. CASE BeginClearing(t)
  <2>1. QTime(-RetainTime) \in Times
    BY DayTime, GuestAssumption DEF GuestAssumption
  <2> QED BY <1>0, <1>4, <2>1 DEF BeginClearing
<1>5. CASE GiveUpClearing(t) \/ FreeFront(t) \/ EraseFront(t) \/ EndClearing(t) \/ EndScan(t)
  BY <1>0, <1>5 DEF GiveUpClearing, FreeFront, EraseFront, EndClearing, EndScan, locals
<1>6. CASE BeginScan(t)
  BY <1>0, <1>6 DEF BeginScan
<1>7. CASE ScanNext(t)
  <2>1. it' \in [Threads -> Nat \ {0}]
    BY <1>0, <1>7 DEF ScanNext
  <2>2. flag' \in [Threads -> Nat]
    BY <1>0, <1>7 DEF ScanNext
  <2> QED BY <1>0, <1>7, <2>1, <2>2 DEF ScanNext
<1> QED
  BY <1>1, <1>2, <1>3, <1>4, <1>5, <1>6, <1>7 DEF Handle, clearList, onStringMessage_query

-----------------------------------------------------------------------------
\* The lock is taken and given back where LockMatchesPc says.
LEMMA LockStep ==
  ASSUME GuestInv, NEW t \in Threads,
         \/ Handle(t)
         \/ \E i \in Ids : BeginQuery(t, i) \/ \E b \in Blocks : BeginAdd(t, i, b)
  PROVE  lock' \in Locks(Threads) /\ LockMatchesPc' /\ LockExclusive'
<1> USE DEF Go, LockMatchesPc, LockExclusive
<1>0. /\ lock \in Locks(Threads) /\ pc \in [Threads -> PCs]
      /\ LockMatchesPc /\ LockExclusive
      /\ lock.readers \subseteq Threads /\ lock.writers \subseteq Threads
      /\ lock.waiting \subseteq Threads
  BY DEF GuestInv, GuestTypeOK, Locks
<1>1. CASE \E i \in Ids : BeginQuery(t, i) \/ \E b \in Blocks : BeginAdd(t, i, b)
  BY <1>0, <1>1 DEF BeginQuery, BeginAdd
<1>2. CASE QueueToWrite(t)
  <2>1. lock' = QueuedBy(lock, t) /\ pc' = [pc EXCEPT ![t] = "writeLocking"] /\ pc[t] = "queueing"
    BY <1>2 DEF QueueToWrite
  <2>2. lock' \in Locks(Threads)
    BY <1>0, <2>1, LockTypes
  <2>3. /\ lock'.readers = lock.readers /\ lock'.writers = lock.writers
        /\ lock'.waiting = lock.waiting \cup {t}
    BY <1>0, <2>1, LockValues
  <2> QED BY <1>0, <2>1, <2>2, <2>3
<1>3. CASE LockToWrite(t)
  <2>1. lock' = WrittenBy(lock, t) /\ pc' = [pc EXCEPT ![t] = "pushing"] /\ pc[t] = "writeLocking"
        /\ lock.writers = {} /\ lock.readers = {}
    BY <1>3 DEF LockToWrite, WriteAllowed
  <2>2. lock' \in Locks(Threads)
    BY <1>0, <2>1, LockTypes
  <2>3. /\ lock'.readers = lock.readers /\ lock'.writers = lock.writers \cup {t}
        /\ lock'.waiting = lock.waiting \ {t}
    BY <1>0, <2>1, LockValues
  <2> QED BY <1>0, <2>1, <2>2, <2>3
<1>4. CASE PushBack(t)
  <2>1. lock' = ReleasedBy(lock, t) /\ pc' = [pc EXCEPT ![t] = "clearing"] /\ pc[t] = "pushing"
    BY <1>4 DEF PushBack
  <2>2. lock' \in Locks(Threads)
    BY <1>0, <2>1, LockTypes
  <2>3. /\ lock'.readers = lock.readers \ {t} /\ lock'.writers = lock.writers \ {t}
        /\ lock'.waiting = lock.waiting
    BY <1>0, <2>1, LockValues
  <2> QED BY <1>0, <2>1, <2>2, <2>3
<1>5. CASE BeginClearing(t)
  <2>1. lock' = WrittenBy(lock, t) /\ pc' = [pc EXCEPT ![t] = "freeing"] /\ pc[t] = "clearing"
        /\ lock.writers = {} /\ lock.readers = {}
    BY <1>5 DEF BeginClearing, WriteAllowed
  <2>2. lock' \in Locks(Threads)
    BY <1>0, <2>1, LockTypes
  <2>3. /\ lock'.readers = lock.readers /\ lock'.writers = lock.writers \cup {t}
        /\ lock'.waiting = lock.waiting \ {t}
    BY <1>0, <2>1, LockValues
  <2> QED BY <1>0, <2>1, <2>2, <2>3
<1>6. CASE EndClearing(t)
  <2>1. lock' = ReleasedBy(lock, t) /\ pc' = [pc EXCEPT ![t] = "idle"] /\ pc[t] = "freeing"
    BY <1>6 DEF EndClearing
  <2>2. lock' \in Locks(Threads)
    BY <1>0, <2>1, LockTypes
  <2>3. /\ lock'.readers = lock.readers \ {t} /\ lock'.writers = lock.writers \ {t}
        /\ lock'.waiting = lock.waiting
    BY <1>0, <2>1, LockValues
  <2> QED BY <1>0, <2>1, <2>2, <2>3
<1>7. CASE BeginScan(t)
  <2>1. lock' = ReadBy(lock, t) /\ pc' = [pc EXCEPT ![t] = "scanning"] /\ pc[t] = "readLocking"
        /\ lock.writers = {}
    BY <1>7 DEF BeginScan, ReadAllowed
  <2>2. lock' \in Locks(Threads)
    BY <1>0, <2>1, LockTypes
  <2>3. /\ lock'.readers = lock.readers \cup {t} /\ lock'.writers = lock.writers
        /\ lock'.waiting = lock.waiting
    BY <1>0, <2>1, LockValues
  <2> QED BY <1>0, <2>1, <2>2, <2>3
<1>8. CASE EndScan(t)
  <2>1. lock' = ReleasedBy(lock, t) /\ pc' = [pc EXCEPT ![t] = "idle"] /\ pc[t] = "scanning"
    BY <1>8 DEF EndScan
  <2>2. lock' \in Locks(Threads)
    BY <1>0, <2>1, LockTypes
  <2>3. /\ lock'.readers = lock.readers \ {t} /\ lock'.writers = lock.writers \ {t}
        /\ lock'.waiting = lock.waiting
    BY <1>0, <2>1, LockValues
  <2> QED BY <1>0, <2>1, <2>2, <2>3
<1>9. CASE GiveUpClearing(t) \/ FreeFront(t) \/ EraseFront(t) \/ ScanNext(t)
  BY <1>0, <1>9 DEF GiveUpClearing, FreeFront, EraseFront, ScanNext
<1> QED
  BY <1>1, <1>2, <1>3, <1>4, <1>5, <1>6, <1>7, <1>8, <1>9
  DEF Handle, onStringMessage_add, clearList, onStringMessage_query

\* The list and the heap keep their types.
LEMMA ListStep ==
  ASSUME GuestInv, NEW t \in Threads,
         \/ Handle(t)
         \/ \E i \in Ids : BeginQuery(t, i) \/ \E b \in Blocks : BeginAdd(t, i, b)
  PROVE  guestList' \in Seq(GuestPics) /\ heap' \subseteq Blocks
<1>0. guestList \in Seq(GuestPics) /\ heap \subseteq Blocks
  BY DEF GuestInv, GuestTypeOK
<1>1. CASE PushBack(t)
  <2>1. guestPic[t] \in GuestPics
    BY DEF GuestInv, GuestTypeOK
  <2>2. guestList' = Append(guestList, guestPic[t]) /\ heap' = heap
    BY <1>1 DEF PushBack
  <2> QED BY <1>0, <2>1, <2>2, ListTypes
<1>2. CASE EraseFront(t)
  <2>1. guestList' = Tail(guestList) /\ heap' = heap
    BY <1>2 DEF EraseFront
  <2>2. guestList # <<>>
    BY <1>2 DEF GuestInv, HeapShared, Erasing, EraseFront, Go
  <2> QED BY <1>0, <2>1, <2>2, ListTypes
<1>3. CASE \E i \in Ids : BeginQuery(t, i) \/ \E b \in Blocks : BeginAdd(t, i, b)
  BY <1>0, <1>3 DEF BeginQuery, BeginAdd
<1>4. CASE \/ QueueToWrite(t) \/ LockToWrite(t) \/ GiveUpClearing(t) \/ BeginClearing(t)
           \/ FreeFront(t) \/ EndClearing(t) \/ onStringMessage_query(t)
  BY <1>0, <1>4 DEF QueueToWrite, LockToWrite, GiveUpClearing, BeginClearing, FreeFront,
     EndClearing, onStringMessage_query, BeginScan, ScanNext, EndScan
<1> QED BY <1>1, <1>2, <1>3, <1>4 DEF Handle, onStringMessage_add, clearList

-----------------------------------------------------------------------------
\* Nothing about who has which block changes: the heap and the list stay, and so do
\* the handlers that carry a picture or are about to erase one.
LEMMA HeapSame ==
  ASSUME GuestInv, UNCHANGED <<guestList, heap>>, Erasing' = Erasing, Carrying' \subseteq Carrying,
         \A u \in Carrying' : guestPic'[u].data = guestPic[u].data
  PROVE  HeapShared'
<1>1. First' = First
  BY DEF First
<1>2. HeapShared
  BY DEF GuestInv
<1>3. /\ Erasing' # {} => guestList' # <<>>
      /\ \A k \in 1 .. Len(guestList') : k >= First' => guestList'[k].data \in heap'
      /\ \A j, k \in 1 .. Len(guestList') :
           j >= First' /\ k >= First' /\ guestList'[j].data = guestList'[k].data => j = k
  BY <1>1, <1>2 DEF HeapShared
<1>4. /\ \A t \in Carrying' : guestPic'[t].data \in heap'
      /\ \A t \in Carrying' : \A k \in 1 .. Len(guestList') :
           k >= First' => guestList'[k].data # guestPic'[t].data
      /\ \A t, u \in Carrying' : guestPic'[t].data = guestPic'[u].data => t = u
  BY <1>1, <1>2 DEF HeapShared
<1> QED BY <1>3, <1>4 DEF HeapShared

LEMMA HeapSteps ==
  ASSUME GuestInv, NEW t \in Threads,
         \/ QueueToWrite(t) \/ LockToWrite(t) \/ GiveUpClearing(t) \/ BeginClearing(t)
         \/ EndClearing(t) \/ onStringMessage_query(t) \/ \E i \in Ids : BeginQuery(t, i)
  PROVE  HeapShared'
<1>0. pc \in [Threads -> PCs] /\ guestPic \in [Threads -> GuestPics]
  BY DEF GuestInv, GuestTypeOK
<1>1. CASE \E i \in Ids : BeginQuery(t, i)
  <2>1. PICK i \in Ids : BeginQuery(t, i)
    BY <1>1
  <2>2. Erasing' = Erasing /\ Carrying' = Carrying /\ t \notin Carrying
    BY <1>0, <2>1 DEF BeginQuery, Go, Erasing, Carrying
  <2>3. \A u \in Carrying' : guestPic'[u] = guestPic[u]
    BY <1>0, <2>1, <2>2 DEF BeginQuery
  <2> QED BY <2>1, <2>2, <2>3, HeapSame DEF BeginQuery
<1>2. CASE \/ QueueToWrite(t) \/ LockToWrite(t) \/ GiveUpClearing(t) \/ BeginClearing(t)
           \/ EndClearing(t) \/ onStringMessage_query(t)
  <2>1. Erasing' = Erasing /\ Carrying' = Carrying
    BY <1>0, <1>2 DEF QueueToWrite, LockToWrite, GiveUpClearing, BeginClearing, EndClearing,
       onStringMessage_query, BeginScan, ScanNext, EndScan, Go, Erasing, Carrying
  <2>2. UNCHANGED <<guestList, heap, guestPic>>
    BY <1>2 DEF QueueToWrite, LockToWrite, GiveUpClearing, BeginClearing, EndClearing,
       onStringMessage_query, BeginScan, ScanNext, EndScan, locals
  <2> QED BY <2>1, <2>2, HeapSame
<1> QED BY <1>1, <1>2

\* malloc returns a block that is not in the heap; it may be the one that clearList
\* has just freed.
LEMMA BeginAddHeap ==
  ASSUME GuestInv, NEW t \in Threads, NEW i \in Ids, NEW b \in Blocks, BeginAdd(t, i, b)
  PROVE  HeapShared'
<1>1. /\ guestList' = guestList /\ heap' = heap \cup {b} /\ b \notin heap
      /\ pc[t] = "idle" /\ pc' = [pc EXCEPT ![t] = "queueing"]
      /\ guestPic' = [guestPic EXCEPT ![t] = [id |-> i, data |-> b, addTime |-> QTime(0)]]
  BY DEF BeginAdd, Go
<1>2. pc \in [Threads -> PCs] /\ guestPic \in [Threads -> GuestPics] /\ HeapShared
  BY DEF GuestInv, GuestTypeOK
<1>3. Erasing' = Erasing /\ First' = First /\ Carrying' = Carrying \cup {t} /\ t \notin Carrying
  BY <1>1, <1>2 DEF Erasing, First, Carrying
<1>4. guestPic'[t].data = b /\ \A u \in Carrying : guestPic'[u].data = guestPic[u].data
  BY <1>1, <1>2, <1>3 DEF Carrying
<1>5. /\ Erasing' # {} => guestList' # <<>>
      /\ \A k \in 1 .. Len(guestList') : k >= First' => guestList'[k].data \in heap'
      /\ \A j, k \in 1 .. Len(guestList') :
           j >= First' /\ k >= First' /\ guestList'[j].data = guestList'[k].data => j = k
  BY <1>1, <1>2, <1>3 DEF HeapShared
<1>6. \A u \in Carrying' : guestPic'[u].data \in heap'
  BY <1>1, <1>2, <1>3, <1>4 DEF HeapShared
<1>7. \A u \in Carrying' : \A k \in 1 .. Len(guestList') :
        k >= First' => guestList'[k].data # guestPic'[u].data
  BY <1>1, <1>2, <1>3, <1>4 DEF HeapShared
<1>8. \A u, v \in Carrying' : guestPic'[u].data = guestPic'[v].data => u = v
  BY <1>1, <1>2, <1>3, <1>4 DEF HeapShared
<1> QED BY <1>5, <1>6, <1>7, <1>8 DEF HeapShared

\* The picture goes from its handler to the list, while nobody erases.
LEMMA PushBackHeap ==
  ASSUME GuestInv, NEW t \in Threads, PushBack(t)
  PROVE  HeapShared'
<1>1. /\ guestList' = Append(guestList, guestPic[t]) /\ UNCHANGED <<heap, guestPic>>
      /\ pc[t] = "pushing" /\ pc' = [pc EXCEPT ![t] = "clearing"]
  BY DEF PushBack, Go, locals
<1>2. /\ pc \in [Threads -> PCs] /\ guestPic \in [Threads -> GuestPics]
      /\ guestList \in Seq(GuestPics) /\ HeapShared
  BY DEF GuestInv, GuestTypeOK
<1>3. Erasing = {} /\ Erasing' = {} /\ Carrying' = Carrying \ {t} /\ t \in Carrying
  BY <1>1, <1>2 DEF GuestInv, LockMatchesPc, LockExclusive, Erasing, Carrying
<1> DEFINE n == Len(guestList)
<1>4. /\ n \in Nat /\ Len(guestList') = n + 1
      /\ guestList'[n + 1] = guestPic[t]
      /\ \A k \in 1 .. n : guestList'[k] = guestList[k]
  BY <1>1, <1>2, AppendProperties, LenProperties
<1>5. /\ \A k \in 1 .. n : guestList[k].data \in heap
      /\ \A j, k \in 1 .. n : guestList[j].data = guestList[k].data => j = k
      /\ \A u \in Carrying : \A k \in 1 .. n : guestList[k].data # guestPic[u].data
  BY <1>2, <1>3, <1>4 DEF HeapShared, First
<1>6. /\ \A u \in Carrying : guestPic[u].data \in heap
      /\ \A u, v \in Carrying : guestPic[u].data = guestPic[v].data => u = v
  BY <1>2 DEF HeapShared
<1> HIDE DEF n
<1>7. \A k \in 1 .. n + 1 : guestList'[k].data \in heap'
  BY <1>1, <1>3, <1>4, <1>5, <1>6
<1>8. \A j, k \in 1 .. n + 1 : guestList'[j].data = guestList'[k].data => j = k
  BY <1>3, <1>4, <1>5
<1>9. \A u \in Carrying' : /\ guestPic'[u].data \in heap'
                           /\ \A k \in 1 .. n + 1 : guestList'[k].data # guestPic'[u].data
  BY <1>1, <1>3, <1>4, <1>5, <1>6
<1>10. \A u, v \in Carrying' : guestPic'[u].data = guestPic'[v].data => u = v
  BY <1>1, <1>3, <1>6
<1> QED BY <1>3, <1>4, <1>7, <1>8, <1>9, <1>10 DEF HeapShared

\* The first picture goes, and no other entry has its block.
LEMMA FreeFrontHeap ==
  ASSUME GuestInv, NEW t \in Threads, FreeFront(t)
  PROVE  HeapShared'
<1>1. /\ heap' = heap \ {guestList[1].data} /\ guestList # <<>> /\ UNCHANGED <<guestList, guestPic>>
      /\ pc[t] = "freeing" /\ pc' = [pc EXCEPT ![t] = "erasing"]
  BY DEF FreeFront, FrontOutdated, Go, locals
<1>2. /\ pc \in [Threads -> PCs] /\ guestList \in Seq(GuestPics) /\ HeapShared
  BY DEF GuestInv, GuestTypeOK
<1>3. Erasing = {} /\ Erasing' # {} /\ Carrying' = Carrying
  BY <1>1, <1>2 DEF GuestInv, LockMatchesPc, LockExclusive, Erasing, Carrying
<1>4. First = 1 /\ First' = 2
  BY <1>3 DEF First
<1>5. Len(guestList) \in Nat /\ 1 \in 1 .. Len(guestList)
  BY <1>1, <1>2, EmptySeq, LenProperties
<1>6. /\ \A k \in 1 .. Len(guestList) : guestList[k].data \in heap
      /\ \A j, k \in 1 .. Len(guestList) : guestList[j].data = guestList[k].data => j = k
      /\ \A u \in Carrying : \A k \in 1 .. Len(guestList) : guestList[k].data # guestPic[u].data
  BY <1>2, <1>4, <1>5 DEF HeapShared
<1>7. \A k \in 1 .. Len(guestList) : k >= 2 => guestList[k].data \in heap'
  BY <1>1, <1>5, <1>6
<1>8. \A u \in Carrying : guestPic[u].data \in heap'
  BY <1>1, <1>2, <1>5, <1>6 DEF HeapShared
<1>9. \A u, v \in Carrying : guestPic[u].data = guestPic[v].data => u = v
  BY <1>2 DEF HeapShared
<1> QED BY <1>1, <1>3, <1>4, <1>6, <1>7, <1>8, <1>9 DEF HeapShared

\* Its entry goes too, and the others move up.
LEMMA EraseFrontHeap ==
  ASSUME GuestInv, NEW t \in Threads, EraseFront(t)
  PROVE  HeapShared'
<1>1. /\ guestList' = Tail(guestList) /\ UNCHANGED <<heap, guestPic>>
      /\ pc[t] = "erasing" /\ pc' = [pc EXCEPT ![t] = "freeing"]
  BY DEF EraseFront, Go, locals
<1>2. /\ pc \in [Threads -> PCs] /\ guestList \in Seq(GuestPics) /\ HeapShared
  BY DEF GuestInv, GuestTypeOK
<1>3. Erasing = {t} /\ Erasing' = {} /\ Carrying' = Carrying
  BY <1>1, <1>2 DEF GuestInv, LockMatchesPc, LockExclusive, Erasing, Carrying
<1>4. First = 2 /\ First' = 1 /\ guestList # <<>>
  BY <1>2, <1>3 DEF First, HeapShared
<1> DEFINE n == Len(guestList)
<1>5. /\ n \in Nat /\ n >= 1 /\ Len(guestList') = n - 1
      /\ \A k \in 1 .. n - 1 : guestList'[k] = guestList[k + 1]
  BY <1>1, <1>2, <1>4, HeadTailProperties, EmptySeq, LenProperties
<1>6. /\ \A k \in 2 .. n : guestList[k].data \in heap
      /\ \A j, k \in 2 .. n : guestList[j].data = guestList[k].data => j = k
      /\ \A u \in Carrying : \A k \in 2 .. n : guestList[k].data # guestPic[u].data
  BY <1>2, <1>4, <1>5 DEF HeapShared
<1>7. /\ \A u \in Carrying : guestPic[u].data \in heap
      /\ \A u, v \in Carrying : guestPic[u].data = guestPic[v].data => u = v
  BY <1>2 DEF HeapShared
<1> HIDE DEF n
<1>8. \A k \in 1 .. n - 1 : k + 1 \in 2 .. n
  BY <1>5
<1>9. /\ \A k \in 1 .. n - 1 : guestList'[k].data \in heap'
      /\ \A u \in Carrying : \A k \in 1 .. n - 1 : guestList'[k].data # guestPic[u].data
  BY <1>1, <1>5, <1>6, <1>8
<1>10. \A j, k \in 1 .. n - 1 : guestList'[j].data = guestList'[k].data => j = k
  <2> SUFFICES ASSUME NEW j \in 1 .. n - 1, NEW k \in 1 .. n - 1,
                      guestList'[j].data = guestList'[k].data
               PROVE  j = k
    OBVIOUS
  <2>1. j + 1 = k + 1
    BY <1>5, <1>6, <1>8
  <2> QED BY <2>1
<1> QED BY <1>1, <1>3, <1>5, <1>7, <1>9, <1>10 DEF HeapShared

-----------------------------------------------------------------------------
LEMMA GuestNextInv == ASSUME GuestInv, [Next]_vars PROVE GuestInv'
<1>1. ASSUME NEW t \in Threads,
             \/ Handle(t)
             \/ \E i \in Ids : BeginQuery(t, i) \/ \E b \in Blocks : BeginAdd(t, i, b)
      PROVE  GuestInv'
  <2>1. GuestTypeOK'
    <3>1. LocalsOK'
      BY <1>1, LocalsStep DEF GuestInv
    <3> QED BY <1>1, <3>1, LockStep, ListStep DEF LocalsOK, GuestTypeOK
  <2>2. HeapShared'
    BY <1>1, HeapSteps, BeginAddHeap, PushBackHeap, FreeFrontHeap, EraseFrontHeap
    DEF Handle, onStringMessage_add, clearList
  <2> QED BY <1>1, <2>1, <2>2, LockStep DEF GuestInv
<1>2. CASE Tick
  <2>1. GuestTypeOK'
    BY <1>2 DEF Tick, GuestInv, GuestTypeOK, locals
  <2>2. LockMatchesPc' /\ LockExclusive'
    BY <1>2 DEF Tick, GuestInv, LockMatchesPc, LockExclusive
  <2>3. HeapShared'
    BY <1>2, HeapSame DEF Tick, Erasing, Carrying, locals
  <2> QED BY <2>1, <2>2, <2>3 DEF GuestInv
<1>3. CASE UNCHANGED vars
  <2>1. GuestTypeOK'
    BY <1>3 DEF vars, GuestInv, GuestTypeOK, locals
  <2>2. LockMatchesPc' /\ LockExclusive'
    BY <1>3 DEF vars, GuestInv, LockMatchesPc, LockExclusive
  <2>3. HeapShared'
    BY <1>3, HeapSame DEF vars, Erasing, Carrying, locals
  <2> QED BY <2>1, <2>2, <2>3 DEF GuestInv
<1> QED BY <1>1, <1>2, <1>3 DEF Next

LEMMA GuestInvariant == Spec => []GuestInv
BY GuestInitInv, GuestNextInv, PTL DEF Spec

-----------------------------------------------------------------------------
(***************************************************************************)
(* Counting.  HeapIsListed follows the blocks from the codec to the list   *)
(* and from there to free: each step that changes the heap, the list or    *)
(* who carries a picture changes two of the three counts by one.  That no  *)
(* two entries share a block (HeapShared) is what a free needs.            *)
(***************************************************************************)
Listed == IF Erasing = {} THEN guestList ELSE Tail(guestList)
Carried == {guestPic[t].data : t \in Carrying}

HeapCounted ==
  /\ IsFiniteSet(heap)
  /\ Data(Listed) \cup Carried = heap
  /\ Len(Listed) + Cardinality(Carrying) = Cardinality(heap)

\* What a step of t leaves alone.
LEMMA OthersSame ==
  ASSUME GuestTypeOK, NEW t \in Threads, NEW u \in Threads, u # t,
         \/ Handle(t)
         \/ \E i \in Ids : BeginQuery(t, i) \/ \E b \in Blocks : BeginAdd(t, i, b)
  PROVE  /\ pc'[u] = pc[u] /\ guestPic'[u] = guestPic[u]
         /\ it'[u] = it[u] /\ flag'[u] = flag[u] /\ curTime'[u] = curTime[u]
<1> USE DEF Go, locals, GuestTypeOK
<1>1. CASE \E i \in Ids : BeginQuery(t, i) \/ \E b \in Blocks : BeginAdd(t, i, b)
  BY <1>1 DEF BeginQuery, BeginAdd
<1>2. CASE onStringMessage_add(t) \/ clearList(t)
  BY <1>2 DEF onStringMessage_add, QueueToWrite, LockToWrite, PushBack,
     clearList, GiveUpClearing, BeginClearing, FreeFront, EraseFront, EndClearing
<1>3. CASE onStringMessage_query(t)
  BY <1>3 DEF onStringMessage_query, BeginScan, ScanNext, EndScan
<1> QED BY <1>1, <1>2, <1>3 DEF Handle

\* The pictures of a list with one more entry, and of one without its first.
LEMMA DataOfList ==
  ASSUME NEW S, NEW s \in Seq(S)
  PROVE  /\ \A x \in S : Data(Append(s, x)) = Data(s) \cup {x.data}
         /\ s # <<>> => Data(s) = Data(Tail(s)) \cup {Head(s).data}
<1>1. Len(s) \in Nat /\ DOMAIN s = 1 .. Len(s)
  BY LenProperties
<1>2. ASSUME NEW x \in S PROVE Data(Append(s, x)) = Data(s) \cup {x.data}
  <2>1. /\ DOMAIN Append(s, x) = 1 .. Len(s) + 1
        /\ \A k \in 1 .. Len(s) : Append(s, x)[k] = s[k]
        /\ Append(s, x)[Len(s) + 1] = x
    BY AppendProperties, LenProperties
  <2> QED BY <1>1, <2>1 DEF Data
<1>3. ASSUME s # <<>> PROVE Data(s) = Data(Tail(s)) \cup {Head(s).data}
  <2>1. /\ Len(s) >= 1 /\ DOMAIN Tail(s) = 1 .. Len(s) - 1 /\ Head(s) = s[1]
        /\ \A k \in 1 .. Len(s) - 1 : Tail(s)[k] = s[k + 1]
    BY <1>1, <1>3, HeadTailProperties, EmptySeq, LenProperties
  <2>2. \A k \in 1 .. Len(s) : k = 1 \/ (k - 1 \in 1 .. Len(s) - 1 /\ s[k] = Tail(s)[k - 1])
    BY <1>1, <2>1
  <2>3. Data(s) \subseteq Data(Tail(s)) \cup {Head(s).data}
    <3>1. ASSUME NEW k \in 1 .. Len(s)
          PROVE  s[k].data \in Data(Tail(s)) \cup {Head(s).data}
      BY <2>1, <2>2 DEF Data
    <3> QED BY <1>1, <3>1 DEF Data
  <2>4. Data(Tail(s)) \cup {Head(s).data} \subseteq Data(s)
    <3>1. 1 \in DOMAIN s /\ \A k \in 1 .. Len(s) - 1 : k + 1 \in DOMAIN s
      BY <1>1, <2>1
    <3> QED BY <1>1, <2>1, <3>1 DEF Data
  <2> QED BY <2>3, <2>4
<1> QED BY <1>2, <1>3

LEMMA CarryingFinite == GuestAssumption => IsFiniteSet(Carrying)
BY FS_Subset DEF GuestAssumption, Carrying

LEMMA CountSame ==
  ASSUME HeapCounted, UNCHANGED <<guestList, heap>>, Erasing' = Erasing, Carrying' = Carrying,
         \A u \in Carrying : guestPic'[u].data = guestPic[u].data
  PROVE  HeapCounted'
<1>1. Listed' = Listed /\ Carried' = Carried
  BY DEF Listed, Carried
<1> QED BY <1>1 DEF HeapCounted, Data

LEMMA CountSteps ==
  ASSUME GuestInv, HeapCounted, NEW t \in Threads,
         \/ QueueToWrite(t) \/ LockToWrite(t) \/ GiveUpClearing(t) \/ BeginClearing(t)
         \/ EndClearing(t) \/ onStringMessage_query(t) \/ \E i \in Ids : BeginQuery(t, i)
  PROVE  HeapCounted'
<1>0. pc \in [Threads -> PCs] /\ guestPic \in [Threads -> GuestPics]
  BY DEF GuestInv, GuestTypeOK
<1>1. CASE \E i \in Ids : BeginQuery(t, i)
  <2>1. PICK i \in Ids : BeginQuery(t, i)
    BY <1>1
  <2>2. Erasing' = Erasing /\ Carrying' = Carrying /\ t \notin Carrying
    BY <1>0, <2>1 DEF BeginQuery, Go, Erasing, Carrying
  <2>3. \A u \in Carrying : guestPic'[u] = guestPic[u]
    BY <1>0, <2>1, <2>2 DEF BeginQuery, Carrying
  <2> QED BY <2>1, <2>2, <2>3, CountSame DEF BeginQuery
<1>2. CASE \/ QueueToWrite(t) \/ LockToWrite(t) \/ GiveUpClearing(t) \/ BeginClearing(t)
           \/ EndClearing(t) \/ onStringMessage_query(t)
  <2>1. Erasing' = Erasing /\ Carrying' = Carrying
    BY <1>0, <1>2 DEF QueueToWrite, LockToWrite, GiveUpClearing, BeginClearing, EndClearing,
       onStringMessage_query, BeginScan, ScanNext, EndScan, Go, Erasing, Carrying
  <2>2. UNCHANGED <<guestList, heap, guestPic>>
    BY <1>2 DEF QueueToWrite, LockToWrite, GiveUpClearing, BeginClearing, EndClearing,
       onStringMessage_query, BeginScan, ScanNext, EndScan, locals
  <2> QED BY <2>1, <2>2, CountSame
<1> QED BY <1>1, <1>2

\* One block more, and one handler that carries it.
LEMMA BeginAddCount ==
  ASSUME GuestAssumption, GuestInv, HeapCounted,
         NEW t \in Threads, NEW i \in Ids, NEW b \in Blocks, BeginAdd(t, i, b)
  PROVE  HeapCounted'
<1>1. /\ guestList' = guestList /\ heap' = heap \cup {b} /\ b \notin heap
      /\ pc[t] = "idle" /\ pc' = [pc EXCEPT ![t] = "queueing"]
      /\ guestPic' = [guestPic EXCEPT ![t] = [id |-> i, data |-> b, addTime |-> QTime(0)]]
  BY DEF BeginAdd, Go
<1>2. pc \in [Threads -> PCs] /\ guestPic \in [Threads -> GuestPics]
  BY DEF GuestInv, GuestTypeOK
<1>3. Erasing' = Erasing /\ Listed' = Listed /\ Carrying' = Carrying \cup {t} /\ t \notin Carrying
  BY <1>1, <1>2 DEF Erasing, Listed, Carrying
<1>4. guestPic'[t].data = b /\ \A u \in Carrying : guestPic'[u].data = guestPic[u].data
  BY <1>1, <1>2, <1>3 DEF Carrying
<1>5. Carried' = Carried \cup {b}
  BY <1>3, <1>4 DEF Carried
<1>6. /\ Cardinality(Carrying') = Cardinality(Carrying) + 1
      /\ Cardinality(Carrying) \in Nat
  BY <1>3, CarryingFinite, FS_AddElement, FS_CardinalityType
<1>7. /\ IsFiniteSet(heap') /\ Cardinality(heap') = Cardinality(heap) + 1
      /\ Cardinality(heap) \in Nat
  BY <1>1, FS_AddElement, FS_CardinalityType DEF HeapCounted
<1>8. Len(Listed) \in Nat
  BY LenProperties, ListTypes DEF GuestInv, GuestTypeOK, HeapShared, Listed
<1>9. Data(Listed') \cup Carried' = heap'
  BY <1>1, <1>3, <1>5 DEF HeapCounted
<1>10. Len(Listed') + Cardinality(Carrying') = Cardinality(heap')
  BY <1>3, <1>6, <1>7, <1>8 DEF HeapCounted
<1> QED BY <1>7, <1>9, <1>10 DEF HeapCounted, Data

\* One carries less, and one entry is there more.
LEMMA PushBackCount ==
  ASSUME GuestAssumption, GuestInv, HeapCounted, NEW t \in Threads, PushBack(t)
  PROVE  HeapCounted'
<1>1. /\ guestList' = Append(guestList, guestPic[t]) /\ UNCHANGED <<heap, guestPic>>
      /\ pc[t] = "pushing" /\ pc' = [pc EXCEPT ![t] = "clearing"]
  BY DEF PushBack, Go, locals
<1>2. /\ pc \in [Threads -> PCs] /\ guestPic[t] \in GuestPics /\ guestList \in Seq(GuestPics)
  BY DEF GuestInv, GuestTypeOK
<1>3. Erasing = {} /\ Erasing' = {} /\ Carrying' = Carrying \ {t} /\ t \in Carrying
  BY <1>1, <1>2 DEF GuestInv, LockMatchesPc, LockExclusive, Erasing, Carrying
<1>4. Listed = guestList /\ Listed' = Append(guestList, guestPic[t])
  BY <1>1, <1>3 DEF Listed
<1>5. Carried = Carried' \cup {guestPic[t].data}
  BY <1>1, <1>3 DEF Carried
<1>6. Data(Append(guestList, guestPic[t])) = Data(guestList) \cup {guestPic[t].data}
  BY <1>2, DataOfList
<1>7. Len(guestList) \in Nat /\ Len(Append(guestList, guestPic[t])) = Len(guestList) + 1
  BY <1>2, AppendProperties, LenProperties
<1>8. /\ Cardinality(Carrying') = Cardinality(Carrying) - 1
      /\ Cardinality(Carrying) \in Nat
  BY <1>3, CarryingFinite, FS_RemoveElement, FS_CardinalityType
<1>9. Data(Listed') \cup Carried' = heap'
  BY <1>1, <1>4, <1>5, <1>6 DEF HeapCounted
<1>10. Len(Listed') + Cardinality(Carrying') = Cardinality(heap')
  BY <1>1, <1>4, <1>7, <1>8 DEF HeapCounted
<1> QED BY <1>1, <1>9, <1>10 DEF HeapCounted, Data

\* The first entry counts no more, and its block belonged to nobody else.
LEMMA FreeFrontCount ==
  ASSUME GuestAssumption, GuestInv, HeapCounted, NEW t \in Threads, FreeFront(t)
  PROVE  HeapCounted'
<1>1. /\ heap' = heap \ {Head(guestList).data} /\ guestList # <<>>
      /\ UNCHANGED <<guestList, guestPic>>
      /\ pc[t] = "freeing" /\ pc' = [pc EXCEPT ![t] = "erasing"]
  BY DEF FreeFront, FrontOutdated, Go, locals
<1>2. /\ pc \in [Threads -> PCs] /\ guestList \in Seq(GuestPics) /\ HeapShared
  BY DEF GuestInv, GuestTypeOK
<1>3. Erasing = {} /\ Erasing' # {} /\ Carrying' = Carrying
  BY <1>1, <1>2 DEF GuestInv, LockMatchesPc, LockExclusive, Erasing, Carrying
<1>4. Listed = guestList /\ Listed' = Tail(guestList) /\ Carried' = Carried /\ First = 1
  BY <1>1, <1>3 DEF Listed, Carried, First
<1> DEFINE n == Len(guestList)
<1>5. /\ n \in Nat /\ n >= 1 /\ Head(guestList) = guestList[1]
      /\ Len(Tail(guestList)) = n - 1 /\ DOMAIN Tail(guestList) = 1 .. n - 1
      /\ \A k \in 1 .. n - 1 : Tail(guestList)[k] = guestList[k + 1]
  BY <1>1, <1>2, HeadTailProperties, EmptySeq, LenProperties
<1>6. Data(guestList) = Data(Tail(guestList)) \cup {Head(guestList).data}
  BY <1>1, <1>2, DataOfList
<1>7. Head(guestList).data \notin Data(Tail(guestList))
  <2>1. \A k \in 1 .. n - 1 : k + 1 \in 1 .. n /\ k + 1 # 1
    BY <1>5
  <2>2. \A k \in 1 .. n - 1 : guestList[k + 1].data # guestList[1].data
    BY <1>2, <1>4, <1>5, <2>1 DEF HeapShared
  <2> QED BY <1>5, <2>2 DEF Data
<1>8. Head(guestList).data \notin Carried
  BY <1>2, <1>4, <1>5 DEF HeapShared, Carried
<1>9. Data(Listed') \cup Carried' = heap'
  BY <1>1, <1>4, <1>6, <1>7, <1>8 DEF HeapCounted
<1>10. /\ IsFiniteSet(heap') /\ Cardinality(heap') = Cardinality(heap) - 1
       /\ Cardinality(heap) \in Nat
  <2>1. Head(guestList).data \in heap
    BY <1>4, <1>6 DEF HeapCounted
  <2> QED BY <1>1, <2>1, FS_RemoveElement, FS_CardinalityType DEF HeapCounted
<1>11. Cardinality(Carrying) \in Nat
  BY CarryingFinite, FS_CardinalityType
<1>12. Len(Listed') + Cardinality(Carrying') = Cardinality(heap')
  BY <1>3, <1>4, <1>5, <1>10, <1>11 DEF HeapCounted
<1> QED BY <1>9, <1>10, <1>12 DEF HeapCounted, Data

LEMMA EraseFrontCount ==
  ASSUME GuestInv, HeapCounted, NEW t \in Threads, EraseFront(t)
  PROVE  HeapCounted'
<1>1. /\ guestList' = Tail(guestList) /\ UNCHANGED <<heap, guestPic>>
      /\ pc[t] = "erasing" /\ pc' = [pc EXCEPT ![t] = "freeing"]
  BY DEF EraseFront, Go, locals
<1>2. Erasing = {t} /\ Erasing' = {} /\ Carrying' = Carrying
  <2>1. pc'[t] = "freeing" /\ \A u \in Threads : u # t => pc'[u] = pc[u] /\ pc[u] # "erasing"
    BY <1>1 DEF GuestInv, GuestTypeOK, LockMatchesPc, LockExclusive
  <2> QED BY <1>1, <2>1 DEF Erasing, Carrying
<1>3. Listed' = Listed /\ Carried' = Carried
  BY <1>1, <1>2 DEF Listed, Carried
<1> QED BY <1>1, <1>2, <1>3 DEF HeapCounted, Data

LEMMA CountNext ==
  ASSUME GuestAssumption, GuestInv, HeapCounted, [Next]_vars
  PROVE  HeapCounted'
<1>1. CASE Tick \/ UNCHANGED vars
  BY <1>1, CountSame DEF Tick, vars, locals, Erasing, Carrying
<1> QED
  BY <1>1, CountSteps, BeginAddCount, PushBackCount, FreeFrontCount, EraseFrontCount
  DEF Next, Handle, onStringMessage_add, clearList

LEMMA CountInit == ASSUME Init PROVE HeapCounted
<1>1. heap = {} /\ guestList = <<>> /\ Erasing = {} /\ Carrying = {}
  BY DEF Init, Erasing, Carrying
<1>2. Listed = <<>> /\ Carried = {} /\ Data(<<>>) = {} /\ Len(<<>>) = 0
  BY <1>1, EmptySeq DEF Listed, Carried, Data
<1> QED BY <1>1, <1>2, FS_EmptySet DEF HeapCounted

-----------------------------------------------------------------------------
(***************************************************************************)
(* A scan.  The read lock keeps the list as it is until the iterator is at *)
(* its end, so what has been counted stays counted.                        *)
(***************************************************************************)
LEMMA ListStableDuringScan ==
  ASSUME GuestInv, NEW t \in Threads, NEW u \in Threads, pc[u] = "scanning",
         \/ Handle(t)
         \/ \E i \in Ids : BeginQuery(t, i) \/ \E b \in Blocks : BeginAdd(t, i, b)
  PROVE  guestList' = guestList
<1>1. lock.writers = {}
  BY DEF GuestInv, LockMatchesPc, LockExclusive
<1>2. pc[t] \notin {"pushing", "erasing"}
  BY <1>1 DEF GuestInv, LockMatchesPc
<1>3. ~PushBack(t) /\ ~EraseFront(t)
  BY <1>2 DEF PushBack, EraseFront, Go
<1> QED
  BY <1>3 DEF Handle, BeginQuery, BeginAdd, onStringMessage_add, QueueToWrite, LockToWrite,
     clearList, GiveUpClearing, BeginClearing, FreeFront, EndClearing,
     onStringMessage_query, BeginScan, ScanNext, EndScan

\* The entries of a guest before the n-th; the iterator goes past one more.
Below(list, i, n) == {k \in Matching(list, i) : k < n}

LEMMA MatchingBelow ==
  ASSUME NEW S, NEW list \in Seq(S), NEW i, NEW n \in Nat \ {0}, n <= Len(list)
  PROVE  /\ Cardinality(Below(list, i, n)) \in Nat
         /\ Cardinality(Below(list, i, n + 1)) =
              IF list[n].id = i THEN Cardinality(Below(list, i, n)) + 1
              ELSE Cardinality(Below(list, i, n))
<1>1. DOMAIN list = 1 .. Len(list) /\ Len(list) \in Nat
  BY LenProperties
<1>2. IsFiniteSet(Below(list, i, n)) /\ n \notin Below(list, i, n)
  <2>1. Below(list, i, n) \in SUBSET (1 .. Len(list)) /\ IsFiniteSet(1 .. Len(list))
    BY <1>1, FS_Interval DEF Matching, Below
  <2>2. n \notin Below(list, i, n)
    BY DEF Below
  <2> QED BY <2>1, <2>2, FS_Subset
<1>3. Below(list, i, n + 1) = IF list[n].id = i THEN Below(list, i, n) \cup {n} ELSE Below(list, i, n)
  BY <1>1 DEF Matching, Below
<1> QED BY <1>2, <1>3, FS_AddElement, FS_CardinalityType

LEMMA SentStep ==
  ASSUME GuestInv, SentMatchesList, NEW t \in Threads,
         \/ Handle(t)
         \/ \E i \in Ids : BeginQuery(t, i) \/ \E b \in Blocks : BeginAdd(t, i, b)
  PROVE  SentMatchesList'
<1>0. /\ pc \in [Threads -> PCs] /\ guestList \in Seq(GuestPics) /\ GuestTypeOK
      /\ it \in [Threads -> Nat \ {0}] /\ flag \in [Threads -> Nat]
  BY DEF GuestInv, GuestTypeOK
<1> SUFFICES ASSUME NEW u \in Threads, pc'[u] = "scanning"
             PROVE  flag'[u] = Cardinality({k \in Matching(guestList', guestPic'[u].id) : k < it'[u]})
  BY DEF SentMatchesList
<1>1. CASE u # t
  <2>1. /\ pc[u] = "scanning" /\ guestPic'[u] = guestPic[u]
        /\ it'[u] = it[u] /\ flag'[u] = flag[u]
    BY <1>0, <1>1, OthersSame
  <2>2. guestList' = guestList
    BY <2>1, ListStableDuringScan
  <2> QED BY <2>1, <2>2 DEF SentMatchesList
<1>2. CASE u = t /\ BeginScan(t)
  <2>1. it'[t] = 1 /\ flag'[t] = 0 /\ guestList' = guestList
    BY <1>0, <1>2 DEF BeginScan
  <2>2. {k \in Matching(guestList', guestPic'[t].id) : k < 1} = {}
    BY <1>0, <2>1, LenProperties DEF Matching
  <2> QED BY <1>2, <2>1, <2>2, FS_EmptySet
<1>3. CASE u = t /\ ScanNext(t)
  <2>1. /\ pc[t] = "scanning" /\ it[t] <= Len(guestList)
        /\ UNCHANGED <<guestList, guestPic>>
    BY <1>3 DEF ScanNext, Go
  <2>2. it'[t] = it[t] + 1
    BY <1>0, <1>3 DEF ScanNext
  <2>3. flag'[t] = IF guestList[it[t]].id = guestPic[t].id THEN flag[t] + 1 ELSE flag[t]
    BY <1>0, <1>3 DEF ScanNext
  <2>4. flag[t] = Cardinality(Below(guestList, guestPic[t].id, it[t]))
    BY <2>1 DEF SentMatchesList, Below
  <2>5. Cardinality(Below(guestList, guestPic[t].id, it[t] + 1)) =
          IF guestList[it[t]].id = guestPic[t].id THEN flag[t] + 1 ELSE flag[t]
    BY <1>0, <2>1, <2>4, MatchingBelow
  <2> QED BY <1>3, <2>1, <2>2, <2>3, <2>5 DEF Below
<1>4. CASE u = t /\ ~BeginScan(t) /\ ~ScanNext(t)
  BY <1>0, <1>4 DEF Go, Handle, BeginQuery, BeginAdd, onStringMessage_add, QueueToWrite,
     LockToWrite, PushBack, clearList, GiveUpClearing, BeginClearing, FreeFront, EraseFront,
     EndClearing, onStringMessage_query, EndScan
<1> QED BY <1>1, <1>2, <1>3, <1>4

LEMMA SentNext == ASSUME GuestInv, SentMatchesList, [Next]_vars PROVE SentMatchesList'
<1>1. CASE Tick \/ UNCHANGED vars
  BY <1>1 DEF Tick, vars, locals, SentMatchesList, Matching
<1> QED BY <1>1, SentStep DEF Next

-----------------------------------------------------------------------------
(***************************************************************************)
(* The clock.  WithinDay says that the server runs between two midnights,  *)
(* and has not been started in the first RetainTime of the day; then a     *)
(* time of day is the moment it stands for (SameDay).  Without it the two  *)
(* properties below are wrong: the run guest_midnight_claim.               *)
(***************************************************************************)
WithinDay == RetainTime <= Start /\ Start < Day /\ MaxNow < Day

SameDay(time) == time.day = time.moment

Entries == 1 .. Len(guestList)

ClockInv ==
  /\ now \in Start .. Day - 1
  /\ \A k \in Entries : SameDay(guestList[k].addTime)
  /\ \A t \in Threads : SameDay(guestPic[t].addTime) /\ SameDay(curTime[t])
  /\ \A t \in Threads :
       pc[t] \in {"freeing", "erasing"} => curTime[t].moment + RetainTime <= now

LEMMA QTimeSameDay ==
  ASSUME GuestAssumption, WithinDay, now \in Start .. Day - 1
  PROVE  /\ SameDay(QTime(0)) /\ SameDay(QTime(-RetainTime))
         /\ QTime(0).moment = now /\ QTime(-RetainTime).moment + RetainTime = now
<1>1. /\ Day \in Nat /\ Start \in Nat /\ RetainTime \in 1 .. Day - 1
      /\ RetainTime <= Start /\ now \in Start .. Day - 1
  BY DEF GuestAssumption, WithinDay
<1>2. now + 0 \in 0 .. Day - 1 /\ now + (-RetainTime) \in 0 .. Day - 1
  BY <1>1
<1>3. (now + 0) % Day = now + 0 /\ (now + (-RetainTime)) % Day = now + (-RetainTime)
  BY <1>1, <1>2
<1>4. now + 0 = now /\ (now + (-RetainTime)) + RetainTime = now
  BY <1>1
<1> QED BY <1>3, <1>4 DEF SameDay, QTime

\* The times that are kept are integers.
LEMMA TimesAreInts ==
  ASSUME GuestTypeOK
  PROVE  /\ now \in Nat /\ Len(guestList) \in Nat
         /\ \A k \in Entries : guestList[k].addTime.day \in Int /\ guestList[k].addTime.moment \in Int
         /\ \A t \in Threads : /\ guestPic[t].addTime.moment \in Int
                               /\ curTime[t].day \in Int /\ curTime[t].moment \in Int
<1>1. \A time \in Times : time.day \in Int /\ time.moment \in Int
  BY DEF Times
<1>2. \A p \in GuestPics : p.addTime \in Times
  BY DEF GuestPics
<1>3. now \in Nat /\ Len(guestList) \in Nat /\ \A k \in Entries : guestList[k] \in GuestPics
  BY ListTypes DEF GuestTypeOK, Entries
<1> QED BY <1>1, <1>2, <1>3 DEF GuestTypeOK

\* The list after a step: as it was, with one entry more, or without its first.
LEMMA ListSteps ==
  ASSUME GuestInv, NEW t \in Threads,
         \/ Handle(t)
         \/ \E i \in Ids : BeginQuery(t, i) \/ \E b \in Blocks : BeginAdd(t, i, b)
  PROVE  \/ guestList' = guestList
         \/ /\ PushBack(t)
            /\ Len(guestList') = Len(guestList) + 1
            /\ \A k \in Entries : guestList'[k] = guestList[k]
            /\ guestList'[Len(guestList) + 1] = guestPic[t]
         \/ /\ EraseFront(t)
            /\ Len(guestList') = Len(guestList) - 1
            /\ \A k \in Entries' : guestList'[k] = guestList[k + 1]
<1>0. guestList \in Seq(GuestPics) /\ guestPic[t] \in GuestPics
  BY DEF GuestInv, GuestTypeOK
<1>1. CASE PushBack(t)
  BY <1>0, <1>1, AppendProperties, LenProperties DEF PushBack, Entries
<1>2. CASE EraseFront(t)
  <2>1. guestList # <<>> /\ guestList' = Tail(guestList)
    BY <1>2 DEF GuestInv, HeapShared, Erasing, EraseFront, Go
  <2>2. /\ Len(guestList') = Len(guestList) - 1
        /\ \A k \in 1 .. Len(guestList') : guestList'[k] = guestList[k + 1]
    BY <1>0, <2>1, HeadTailProperties, LenProperties
  <2> QED BY <1>2, <2>2 DEF Entries
<1>3. CASE ~PushBack(t) /\ ~EraseFront(t)
  BY <1>3 DEF Handle, BeginQuery, BeginAdd, onStringMessage_add, QueueToWrite, LockToWrite,
     clearList, GiveUpClearing, BeginClearing, FreeFront, EndClearing,
     onStringMessage_query, BeginScan, ScanNext, EndScan
<1> QED BY <1>1, <1>2, <1>3

\* The locals that hold times change where the clock is read.
LEMMA LocalTimes ==
  ASSUME GuestTypeOK, NEW t \in Threads, NEW u \in Threads,
         \/ Handle(t)
         \/ \E i \in Ids : BeginQuery(t, i) \/ \E b \in Blocks : BeginAdd(t, i, b)
  PROVE  /\ now' = now
         /\ \/ guestPic'[u].addTime = guestPic[u].addTime
            \/ /\ u = t /\ guestPic'[u].addTime = QTime(0)
               /\ pc[u] = "idle" /\ guestList' = guestList
         /\ \/ /\ curTime'[u] = curTime[u]
               /\ pc'[u] \in {"freeing", "erasing"} => pc[u] \in {"freeing", "erasing"}
            \/ curTime'[u] = QTime(-RetainTime)
<1> USE DEF Go, locals, GuestTypeOK
<1>0. now' = now
  BY DEF Handle, BeginQuery, BeginAdd, onStringMessage_add, QueueToWrite, LockToWrite, PushBack,
     clearList, GiveUpClearing, BeginClearing, FreeFront, EraseFront, EndClearing,
     onStringMessage_query, BeginScan, ScanNext, EndScan
<1>1. CASE u # t
  BY <1>0, <1>1, OthersSame
<1>2. CASE u = t /\ \E i \in Ids, b \in Blocks : BeginAdd(t, i, b)
  BY <1>0, <1>2 DEF BeginAdd
<1>3. CASE u = t /\ \E i \in Ids : BeginQuery(t, i)
  <2>1. PICK i \in Ids : BeginQuery(t, i)
    BY <1>3
  <2>2. guestPic'[t] = [guestPic[t] EXCEPT !.id = i]
    BY <2>1 DEF BeginQuery
  <2>3. guestPic[t] \in [id : Ids, data : Blocks \cup {NoBlock}, addTime : Times]
    BY DEF GuestPics
  <2>4. guestPic'[t].addTime = guestPic[t].addTime
    BY <2>2, <2>3
  <2> QED BY <1>0, <1>3, <2>1, <2>4 DEF BeginQuery
<1>4. CASE u = t /\ BeginClearing(t)
  BY <1>0, <1>4 DEF BeginClearing
<1>5. CASE u = t /\ Handle(t) /\ ~BeginClearing(t)
  BY <1>0, <1>5 DEF Handle, onStringMessage_add, QueueToWrite, LockToWrite, PushBack,
     clearList, GiveUpClearing, FreeFront, EraseFront, EndClearing,
     onStringMessage_query, BeginScan, ScanNext, EndScan
<1> QED BY <1>1, <1>2, <1>3, <1>4, <1>5

LEMMA ClockInit == ASSUME GuestAssumption, WithinDay, Init PROVE ClockInv
<1>1. now \in Start .. Day - 1 /\ Len(guestList) = 0
  BY EmptySeq DEF GuestAssumption, WithinDay, Init
<1>2. SameDay(QTime(0))
  BY <1>1, QTimeSameDay
<1> QED BY <1>1, <1>2 DEF Init, ClockInv, Entries

LEMMA ClockNext ==
  ASSUME GuestAssumption, WithinDay, GuestInv, ClockInv, [Next]_vars
  PROVE  ClockInv'
<1>0. GuestTypeOK /\ now \in Start .. Day - 1
  BY DEF GuestInv, ClockInv
<1>1. CASE UNCHANGED vars
  BY <1>1 DEF vars, locals, ClockInv, Entries
<1>2. CASE Tick
  <2>1. now' \in Start .. Day - 1 /\ now <= now'
    BY <1>0, <1>2 DEF Tick, WithinDay, GuestAssumption
  <2>2. \A t \in Threads :
          pc[t] \in {"freeing", "erasing"} => curTime[t].moment + RetainTime <= now'
    BY <1>0, <2>1, TimesAreInts DEF ClockInv, GuestAssumption
  <2> QED BY <1>2, <2>1, <2>2 DEF Tick, locals, ClockInv, Entries
<1>3. ASSUME NEW t \in Threads,
             \/ Handle(t)
             \/ \E i \in Ids : BeginQuery(t, i) \/ \E b \in Blocks : BeginAdd(t, i, b)
      PROVE  ClockInv'
  <2>1. now' \in Start .. Day - 1
    BY <1>0, <1>3, LocalTimes
  <2>2. \A k \in Entries' : SameDay(guestList'[k].addTime)
    <3>1. CASE guestList' = guestList
      BY <3>1 DEF ClockInv, Entries
    <3>2. CASE /\ Len(guestList') = Len(guestList) + 1
               /\ \A k \in Entries : guestList'[k] = guestList[k]
               /\ guestList'[Len(guestList) + 1] = guestPic[t]
      BY <1>0, <3>2, TimesAreInts DEF ClockInv, Entries
    <3>3. CASE /\ Len(guestList') = Len(guestList) - 1
               /\ \A k \in Entries' : guestList'[k] = guestList[k + 1]
      BY <1>0, <3>3, TimesAreInts DEF ClockInv, Entries
    <3> QED BY <1>3, <3>1, <3>2, <3>3, ListSteps
  <2>3. ASSUME NEW u \in Threads
        PROVE  /\ SameDay(guestPic'[u].addTime) /\ SameDay(curTime'[u])
               /\ pc'[u] \in {"freeing", "erasing"} => curTime'[u].moment + RetainTime <= now'
    <3>1. /\ SameDay(QTime(0)) /\ SameDay(QTime(-RetainTime))
          /\ QTime(-RetainTime).moment + RetainTime = now
      BY <1>0, QTimeSameDay
    <3>2. now <= now
      BY <1>0
    <3> QED BY <1>0, <1>3, <3>1, <3>2, LocalTimes DEF ClockInv
  <2> QED BY <2>1, <2>2, <2>3 DEF ClockInv
<1> QED BY <1>1, <1>2, <1>3 DEF Next

\* What clearList frees first has been there for RetainTime.
LEMMA FreesOutdated ==
  ASSUME GuestInv, ClockInv, GuestAssumption, NEW t \in Threads, FreeFront(t)
  PROVE  Head(guestList).addTime.moment + RetainTime <= now
<1>1. /\ pc[t] = "freeing" /\ guestList # <<>>
      /\ Head(guestList).addTime.day <= curTime[t].day
  BY DEF FreeFront, FrontOutdated, Go
<1>2. 1 \in Entries /\ Head(guestList) = guestList[1]
  BY <1>1, EmptySeq, LenProperties DEF GuestInv, GuestTypeOK, Entries
<1>3. guestList[1].addTime.moment <= curTime[t].moment
  BY <1>1, <1>2 DEF ClockInv, SameDay
<1>4. curTime[t].moment + RetainTime <= now
  BY <1>1 DEF ClockInv
<1> QED BY <1>2, <1>3, <1>4, TimesAreInts DEF GuestInv, GuestAssumption

(***************************************************************************)
(* Order.  With one thread, as main.cpp has, times are pushed in the order *)
(* they are read in, so that the list is sorted and clearList may stop at  *)
(* the first entry that is young enough.  With two this is wrong: one may  *)
(* read the clock and be overtaken while it waits for the lock.            *)
(***************************************************************************)
OneThread == \A t, u \in Threads : t = u

OrderInv ==
  /\ \A k \in Entries : guestList[k].addTime.moment <= now
  /\ \A j, k \in Entries : j <= k => guestList[j].addTime.moment <= guestList[k].addTime.moment
  /\ \A t \in Carrying :
       /\ guestPic[t].addTime.moment <= now
       /\ \A k \in Entries : guestList[k].addTime.moment <= guestPic[t].addTime.moment

LEMMA OrderNext ==
  ASSUME GuestAssumption, WithinDay, OneThread, GuestInv, ClockInv, OrderInv, [Next]_vars
  PROVE  OrderInv'
<1>0. GuestTypeOK /\ now \in Start .. Day - 1
  BY DEF GuestInv, ClockInv
<1>1. CASE UNCHANGED vars
  BY <1>1 DEF vars, locals, OrderInv, Entries, Carrying
<1>2. CASE Tick
  <2>1. /\ now' = now + 1
        /\ UNCHANGED <<guestList, guestPic, pc>>
    BY <1>2 DEF Tick, locals
  <2>2. Entries' = Entries /\ Carrying' = Carrying
    BY <2>1 DEF Entries, Carrying
  <2>3. /\ \A k \in Entries : guestList[k].addTime.moment <= now'
        /\ \A t \in Carrying : guestPic[t].addTime.moment <= now'
    BY <1>0, <2>1, TimesAreInts DEF OrderInv, Carrying
  <2> QED BY <2>1, <2>2, <2>3 DEF OrderInv
<1>3. ASSUME NEW t \in Threads,
             \/ Handle(t)
             \/ \E i \in Ids : BeginQuery(t, i) \/ \E b \in Blocks : BeginAdd(t, i, b)
      PROVE  OrderInv'
  <2>1. now' = now
    BY <1>0, <1>3, LocalTimes
  <2>2. CASE PushBack(t)
    <3>1. /\ Len(guestList') = Len(guestList) + 1
          /\ \A k \in Entries : guestList'[k] = guestList[k]
          /\ guestList'[Len(guestList) + 1] = guestPic[t]
      BY <1>0, <2>2, ListTypes, AppendProperties, LenProperties DEF PushBack, GuestTypeOK, Entries
    <3>2. t \in Carrying /\ Carrying' = {}
      BY <1>0, <2>2 DEF PushBack, Go, GuestTypeOK, Carrying, OneThread
    <3>3. /\ guestPic[t].addTime.moment <= now /\ guestPic[t].addTime.moment \in Int
          /\ \A k \in Entries : guestList[k].addTime.moment <= guestPic[t].addTime.moment
      BY <1>0, <3>2, TimesAreInts DEF OrderInv
    <3>4. \A k \in Entries' : k \in Entries \/ k = Len(guestList) + 1
      BY <1>0, <3>1, TimesAreInts DEF Entries
    <3>5. \A k \in Entries' : guestList'[k].addTime.moment <= now'
      BY <2>1, <3>1, <3>3, <3>4 DEF OrderInv
    <3>6. \A j, k \in Entries' :
            j <= k => guestList'[j].addTime.moment <= guestList'[k].addTime.moment
      <4> SUFFICES ASSUME NEW j \in Entries', NEW k \in Entries', j <= k
                   PROVE  guestList'[j].addTime.moment <= guestList'[k].addTime.moment
        OBVIOUS
      <4>1. CASE k \in Entries
        <5>1. j \in Entries
          BY <1>0, <4>1, TimesAreInts DEF Entries
        <5> QED BY <3>1, <4>1, <5>1 DEF OrderInv
      <4>2. CASE k = Len(guestList) + 1 /\ j \in Entries
        BY <3>1, <3>3, <4>2
      <4>3. CASE k = Len(guestList) + 1 /\ j = k
        BY <3>1, <3>3, <4>3
      <4> QED BY <3>4, <4>1, <4>2, <4>3
    <3> QED BY <3>2, <3>5, <3>6 DEF OrderInv
  <2>3. CASE EraseFront(t)
    <3>1. /\ Len(guestList') = Len(guestList) - 1
          /\ \A k \in Entries' : guestList'[k] = guestList[k + 1]
      <4>1. guestList # <<>> /\ guestList' = Tail(guestList)
        BY <2>3 DEF GuestInv, HeapShared, Erasing, EraseFront, Go
      <4>2. guestList \in Seq(GuestPics)
        BY <1>0 DEF GuestTypeOK
      <4> QED BY <4>1, <4>2, HeadTailProperties, LenProperties DEF Entries
    <3>2. Carrying' = Carrying /\ guestPic' = guestPic
      BY <1>0, <2>3 DEF EraseFront, Go, GuestTypeOK, Carrying, locals
    <3>3. \A k \in Entries' : k + 1 \in Entries
      BY <1>0, <3>1, TimesAreInts DEF Entries
    <3>4. \A j, k \in Entries' : j <= k => j + 1 <= k + 1
      BY DEF Entries
    <3> QED BY <2>1, <3>1, <3>2, <3>3, <3>4 DEF OrderInv
  <2>4. CASE guestList' = guestList
    <3>1. Entries' = Entries
      BY <2>4 DEF Entries
    <3>2. ASSUME NEW u \in Carrying'
          PROVE  /\ guestPic'[u].addTime.moment <= now
                 /\ \A k \in Entries : guestList[k].addTime.moment <= guestPic'[u].addTime.moment
      <4>1. u = t /\ u \in Threads
        BY <3>2 DEF Carrying, OneThread
      <4>2. CASE guestPic'[u].addTime = QTime(0)
        <5>1. QTime(0).moment = now /\ now <= now
          BY <1>0, QTimeSameDay
        <5> QED BY <4>2, <5>1 DEF OrderInv
      <4>3. CASE guestPic'[u].addTime = guestPic[u].addTime /\ u \in Carrying
        BY <4>3 DEF OrderInv
      <4>4. CASE u \notin Carrying
        <5>1. \E i \in Ids, b \in Blocks : BeginAdd(t, i, b)
          BY <1>0, <1>3, <3>2, <4>1, <4>4 DEF Carrying, GuestTypeOK, Go, Handle, BeginQuery,
             onStringMessage_add, QueueToWrite, LockToWrite, PushBack, clearList, GiveUpClearing,
             BeginClearing, FreeFront, EraseFront, EndClearing, onStringMessage_query,
             BeginScan, ScanNext, EndScan
        <5>2. guestPic'[u].addTime = QTime(0)
          BY <1>0, <4>1, <5>1 DEF BeginAdd, GuestTypeOK
        <5> QED BY <4>2, <5>2
      <4> QED BY <1>0, <1>3, <4>1, <4>2, <4>3, <4>4, LocalTimes
    <3> QED BY <2>1, <2>4, <3>1, <3>2 DEF OrderInv
  <2> QED BY <1>3, <2>2, <2>3, <2>4, ListSteps
<1> QED BY <1>1, <1>2, <1>3 DEF Next

\* Where clearList stops, all that follows is younger still.
LEMMA RestIsYounger ==
  ASSUME GuestInv, ClockInv, OrderInv, NEW t \in Threads, EndClearing(t)
  PROVE  \A k \in Entries : guestList[k].addTime.moment > curTime[t].moment
<1> SUFFICES ASSUME NEW k \in Entries
             PROVE  guestList[k].addTime.moment > curTime[t].moment
  OBVIOUS
<1>1. GuestTypeOK /\ guestList \in Seq(GuestPics) /\ Len(guestList) \in Nat
  BY LenProperties DEF GuestInv, GuestTypeOK
<1>2. 1 \in Entries /\ 1 <= k /\ guestList # <<>> /\ Head(guestList) = guestList[1]
  BY <1>1, EmptySeq, HeadTailProperties, LenProperties DEF Entries
<1>3. ~(guestList[1].addTime.day <= curTime[t].day)
  BY <1>2 DEF EndClearing, FrontOutdated
<1>4. ~(guestList[1].addTime.moment <= curTime[t].moment)
  BY <1>2, <1>3 DEF ClockInv, SameDay
<1>5. guestList[1].addTime.moment <= guestList[k].addTime.moment
  BY <1>2 DEF OrderInv
<1> QED BY <1>1, <1>2, <1>4, <1>5, TimesAreInts

-----------------------------------------------------------------------------
\* The variables of ARCGuestServer keep their types, and a time of day stays within
\* the day.
THEOREM GuestTypeCorrect == Spec => []GuestTypeOK
BY GuestInvariant, PTL DEF GuestInv

\* Whatever clearList frees meanwhile, onStringMessage_query sends no freed picture.
THEOREM SendsOnlyLiveData == Spec => []SendsLiveData
<1>1. GuestInv => SendsLiveData
  <2> SUFFICES ASSUME GuestInv, NEW t \in Threads, pc[t] = "scanning", it[t] <= Len(guestList)
               PROVE  guestList[it[t]].data \in heap
    BY DEF SendsLiveData
  <2>1. Erasing = {}
    BY DEF GuestInv, LockMatchesPc, LockExclusive, Erasing
  <2>2. Len(guestList) \in Nat /\ it[t] \in Nat \ {0}
    BY LenProperties DEF GuestInv, GuestTypeOK
  <2> QED BY <2>1, <2>2 DEF GuestInv, HeapShared, First
<1> QED BY <1>1, GuestInvariant, PTL

\* Every block that is allocated is on the list, or with a handler about to push it,
\* in one place only; what clearList has freed is erased before anybody can look.
THEOREM HeapAccountedFor == Spec => []HeapIsListed
<1>1. HeapCounted => HeapIsListed
  BY DEF HeapCounted, HeapIsListed, Listed, Carried
<1> QED BY <1>1, GuestAssumption, GuestInvariant, CountInit, CountNext, PTL DEF Spec

\* onStringMessage_query sends every picture of its guest that is on the list, each
\* once, whatever other handlers do meanwhile, and so says "empty" only if none is.
THEOREM QueryMatchesList == Spec => []SentMatchesList
<1>1. Init => SentMatchesList
  BY DEF Init, SentMatchesList
<1> QED BY <1>1, GuestInvariant, SentNext, PTL DEF Spec

\* Between two midnights clearList removes a picture only when it has been there for
\* RetainTime, whoever else adds, asks and clears.
THEOREM ClearsOnlyOutdated == ASSUME WithinDay PROVE Spec => OnlyOutdatedCleared
<1> DEFINE A == \A t \in Threads :
                  pc[t] = "freeing" /\ pc'[t] = "erasing" =>
                    Head(guestList).addTime.moment + RetainTime <= now
<1>1. ASSUME GuestInv, ClockInv, Next PROVE A
  <2> SUFFICES ASSUME NEW u \in Threads, pc[u] = "freeing", pc'[u] = "erasing"
               PROVE  Head(guestList).addTime.moment + RetainTime <= now
    OBVIOUS
  <2>1. PICK t \in Threads :
          \/ Handle(t)
          \/ \E i \in Ids : BeginQuery(t, i) \/ \E b \in Blocks : BeginAdd(t, i, b)
    BY <1>1 DEF Next, Tick
  <2>2. u = t
    BY <1>1, <2>1, OthersSame DEF GuestInv
  <2>3. FreeFront(u)
    BY <1>1, <2>1, <2>2 DEF GuestInv, GuestTypeOK, Go, Handle, BeginQuery, BeginAdd, onStringMessage_add,
       QueueToWrite, LockToWrite, PushBack, clearList, GiveUpClearing, BeginClearing,
       EraseFront, EndClearing, onStringMessage_query, BeginScan, ScanNext, EndScan
  <2> QED BY <1>1, <2>3, FreesOutdated, GuestAssumption
<1>2. Spec => []ClockInv
  BY ClockInit, ClockNext, GuestInvariant, GuestAssumption, PTL DEF Spec
<1>3. GuestInv /\ ClockInv /\ [Next]_vars => [A]_vars
  BY <1>1
<1>4. Spec => [][A]_vars
  BY <1>2, <1>3, GuestInvariant, PTL DEF Spec
<1> QED BY <1>4 DEF OnlyOutdatedCleared

\* With one thread and between two midnights, clearList leaves nothing behind that was
\* outdated when it read the clock: it may stop at the first entry that is not.
THEOREM ClearsAllOutdated == ASSUME WithinDay, OneThread PROVE Spec => NothingOutdatedLeft
<1> DEFINE A == \A t \in Threads :
                  pc[t] = "freeing" /\ pc'[t] = "idle" =>
                    \A k \in DOMAIN guestList :
                      guestList[k].addTime.moment > curTime[t].moment
<1>1. ASSUME GuestInv, ClockInv, OrderInv, Next PROVE A
  <2> SUFFICES ASSUME NEW u \in Threads, pc[u] = "freeing", pc'[u] = "idle"
               PROVE  \A k \in DOMAIN guestList :
                        guestList[k].addTime.moment > curTime[u].moment
    OBVIOUS
  <2>1. PICK t \in Threads :
          \/ Handle(t)
          \/ \E i \in Ids : BeginQuery(t, i) \/ \E b \in Blocks : BeginAdd(t, i, b)
    BY <1>1 DEF Next, Tick
  <2>2. u = t
    BY <1>1, <2>1, OthersSame DEF GuestInv
  <2>3. EndClearing(u)
    BY <1>1, <2>1, <2>2 DEF GuestInv, GuestTypeOK, Go, Handle, BeginQuery, BeginAdd, onStringMessage_add,
       QueueToWrite, LockToWrite, PushBack, clearList, GiveUpClearing, BeginClearing,
       EraseFront, FreeFront, onStringMessage_query, BeginScan, ScanNext, EndScan
  <2>4. DOMAIN guestList = Entries
    BY <1>1, LenProperties DEF GuestInv, GuestTypeOK, Entries
  <2> QED BY <1>1, <2>3, <2>4, RestIsYounger
<1>2. Spec => []ClockInv
  BY ClockInit, ClockNext, GuestInvariant, GuestAssumption, PTL DEF Spec
<1>3. Init => OrderInv
  BY EmptySeq DEF Init, OrderInv, Entries, Carrying
<1>4. Spec => []OrderInv
  BY <1>2, <1>3, OrderNext, GuestInvariant, GuestAssumption, PTL DEF Spec
<1>5. GuestInv /\ ClockInv /\ OrderInv /\ [Next]_vars => [A]_vars
  BY <1>1
<1>6. Spec => [][A]_vars
  BY <1>2, <1>4, <1>5, GuestInvariant, PTL DEF Spec
<1> QED BY <1>6 DEF NothingOutdatedLeft
=============================================================================
