----------------------------- MODULE GuestServer -----------------------------
(***************************************************************************)
(* ARCGuestServer (arcguestserver.cpp): the pictures that guests hand in   *)
(* ("appl") and the door keepers ask for ("qury"), kept in a list for      *)
(* RetainTime.  The list is guarded by a read-write lock; the pictures are *)
(* blocks of the heap that GuestCodec allocates and clearList frees.       *)
(* A QTime is a time of day, in seconds since midnight, so it wraps.       *)
(***************************************************************************)
EXTENDS Integers, Sequences, FiniteSets, ReadWriteLock

CONSTANTS
  Threads,      \* the IO threads; one in main.cpp
  Ids,          \* the ids that requests name
  Blocks,       \* what malloc can return
  NoBlock,
  Day,          \* seconds of a day
  RetainTime,
  Start,        \* when the server starts, in seconds after some midnight
  MaxNow,       \* bound on the clock
  MaxRequests   \* bound on the requests of a run

ASSUME GuestAssumption ==
  /\ IsFiniteSet(Threads)
  /\ Ids # {}
  /\ NoBlock \notin Blocks
  /\ Day \in Nat
  /\ RetainTime \in 1 .. Day - 1
  /\ Start \in Nat
  /\ MaxNow \in Nat
  /\ MaxRequests \in Nat

VARIABLES
  now,        \* seconds since the midnight before Start
  guestList,  \* list<GuestPic>
  heap,       \* the blocks that are allocated
  lock,
  pc,
  guestPic,   \* onStringMessage_add: local; its id is also query's argument
  it,         \* onStringMessage_query: position of the iterator
  flag,       \* onStringMessage_query: pictures sent
  curTime,    \* clearList: the latest time that is outdated
  received

locals == <<guestPic, it, flag, curTime>>
vars == <<now, guestList, heap, lock, pc, locals, received>>

PCs == {"idle", "queueing", "writeLocking", "pushing", "clearing", "freeing",
        "erasing", "readLocking", "scanning"}

\* QTime::currentTime().addSecs(s): a time of day.  moment is what a clock that
\* does not wrap would say; only the properties look at it.  The mutants take
\* a clock that does not wrap, and a wrong sign.
QTimeUnwrapped(s) == [day |-> now + s, moment |-> now + s]

QTimeAhead(s) == [day |-> (now - s) % Day, moment |-> now - s]

QTime(s) == [day |-> (now + s) % Day, moment |-> now + s]

SomeId == CHOOSE i \in Ids : TRUE

Init ==
  /\ now = Start
  /\ guestList = <<>>
  /\ heap = {}
  /\ lock = Unlocked
  /\ pc = [t \in Threads |-> "idle"]
  /\ guestPic = [t \in Threads |-> [id |-> SomeId, data |-> NoBlock, addTime |-> QTime(0)]]
  /\ it = [t \in Threads |-> 1]
  /\ flag = [t \in Threads |-> 0]
  /\ curTime = [t \in Threads |-> QTime(0)]
  /\ received = 0

Go(t, from, to) ==
  /\ pc[t] = from
  /\ pc' = [pc EXCEPT ![t] = to]

Receive(t) ==
  /\ received < MaxRequests
  /\ received' = received + 1

-----------------------------------------------------------------------------
(***************************************************************************)
(* onStringMessage_add.  The codec has allocated the picture; the time is  *)
(* read before the thread waits for the lock.                              *)
(***************************************************************************)
BeginAdd(t, i, b) ==
  /\ Go(t, "idle", "queueing")
  /\ Receive(t)
  /\ b \notin heap
  /\ heap' = heap \cup {b}
  /\ guestPic' = [guestPic EXCEPT ![t] = [id |-> i, data |-> b, addTime |-> QTime(0)]]
  /\ UNCHANGED <<now, guestList, lock, it, flag, curTime>>

\* lock.lockForWrite()
QueueToWrite(t) ==
  /\ Go(t, "queueing", "writeLocking")
  /\ lock' = QueuedBy(lock, t)
  /\ UNCHANGED <<now, guestList, heap, locals, received>>

LockToWrite(t) ==
  /\ Go(t, "writeLocking", "pushing")
  /\ WriteAllowed(lock)
  /\ lock' = WrittenBy(lock, t)
  /\ UNCHANGED <<now, guestList, heap, locals, received>>

\* guestList.push_back(guestPic); lock.unlock().  The mutant uses push_front.
PushFront(t) ==
  /\ Go(t, "pushing", "clearing")
  /\ guestList' = <<guestPic[t]>> \o guestList
  /\ lock' = ReleasedBy(lock, t)
  /\ UNCHANGED <<now, heap, locals, received>>

PushBack(t) ==
  /\ Go(t, "pushing", "clearing")
  /\ guestList' = Append(guestList, guestPic[t])
  /\ lock' = ReleasedBy(lock, t)
  /\ UNCHANGED <<now, heap, locals, received>>

-----------------------------------------------------------------------------
(***************************************************************************)
(* clearList, called at the end of onStringMessage_add, which then sends   *)
(* "ok".  It gives up when the lock is taken (a mutant goes on).           *)
(***************************************************************************)
GiveUpClearing(t) ==
  /\ Go(t, "clearing", "idle")
  /\ ~WriteAllowed(lock)
  /\ UNCHANGED <<now, guestList, heap, lock, locals, received>>

BeginClearingUnlocked(t) ==
  /\ Go(t, "clearing", "freeing")
  /\ curTime' = [curTime EXCEPT ![t] = QTime(-RetainTime)]
  /\ UNCHANGED <<now, guestList, heap, lock, guestPic, it, flag, received>>

BeginClearing(t) ==
  /\ Go(t, "clearing", "freeing")
  /\ WriteAllowed(lock)
  /\ lock' = WrittenBy(lock, t)
  /\ curTime' = [curTime EXCEPT ![t] = QTime(-RetainTime)]
  /\ UNCHANGED <<now, guestList, heap, guestPic, it, flag, received>>

\* it->addTime <= curTime && it != guestList.end().  The code reads addTime at
\* end() too; what it reads there does not matter, as the second test fails.
FrontOutdated(t) ==
  /\ guestList # <<>>
  /\ Head(guestList).addTime.day <= curTime[t].day

\* free(it_->data)
FreeFront(t) ==
  /\ Go(t, "freeing", "erasing")
  /\ FrontOutdated(t)
  /\ heap' = heap \ {Head(guestList).data}
  /\ UNCHANGED <<now, guestList, lock, locals, received>>

\* guestList.erase(it_).  The mutant forgets it and stops.
EraseForgotten(t) ==
  /\ Go(t, "erasing", "idle")
  /\ lock' = ReleasedBy(lock, t)
  /\ UNCHANGED <<now, guestList, heap, locals, received>>

EraseFront(t) ==
  /\ Go(t, "erasing", "freeing")
  /\ guestList' = Tail(guestList)
  /\ UNCHANGED <<now, heap, lock, locals, received>>

\* lock.unlock()
EndClearing(t) ==
  /\ Go(t, "freeing", "idle")
  /\ ~FrontOutdated(t)
  /\ lock' = ReleasedBy(lock, t)
  /\ UNCHANGED <<now, guestList, heap, locals, received>>

-----------------------------------------------------------------------------
\* onStringMessage_query
BeginQuery(t, i) ==
  /\ Go(t, "idle", "readLocking")
  /\ Receive(t)
  /\ guestPic' = [guestPic EXCEPT ![t].id = i]
  /\ UNCHANGED <<now, guestList, heap, lock, it, flag, curTime>>

\* lock.lockForRead(); int flag = 0; it = guestList.begin().  The mutant
\* forgets the lock.
BeginScanUnlocked(t) ==
  /\ Go(t, "readLocking", "scanning")
  /\ it' = [it EXCEPT ![t] = 1]
  /\ flag' = [flag EXCEPT ![t] = 0]
  /\ UNCHANGED <<now, guestList, heap, lock, guestPic, curTime, received>>

BeginScan(t) ==
  /\ Go(t, "readLocking", "scanning")
  /\ ReadAllowed(lock)
  /\ lock' = ReadBy(lock, t)
  /\ it' = [it EXCEPT ![t] = 1]
  /\ flag' = [flag EXCEPT ![t] = 0]
  /\ UNCHANGED <<now, guestList, heap, guestPic, curTime, received>>

\* One turn of the loop: the pictures of this guest are sent.
ScanNext(t) ==
  /\ Go(t, "scanning", "scanning")
  /\ it[t] <= Len(guestList)
  /\ flag' = [flag EXCEPT ![t] = IF guestList[it[t]].id = guestPic[t].id THEN @ + 1 ELSE @]
  /\ it' = [it EXCEPT ![t] = @ + 1]
  /\ UNCHANGED <<now, guestList, heap, lock, guestPic, curTime, received>>

\* if(flag == 0) "empty" is sent; lock.unlock(), which the mutant forgets.
EndScanLocked(t) ==
  /\ Go(t, "scanning", "idle")
  /\ it[t] > Len(guestList)
  /\ UNCHANGED <<now, guestList, heap, lock, locals, received>>

EndScan(t) ==
  /\ Go(t, "scanning", "idle")
  /\ it[t] > Len(guestList)
  /\ lock' = ReleasedBy(lock, t)
  /\ UNCHANGED <<now, guestList, heap, locals, received>>

-----------------------------------------------------------------------------
onStringMessage_add(t) == QueueToWrite(t) \/ LockToWrite(t) \/ PushBack(t)

clearList(t) ==
  \/ GiveUpClearing(t) \/ BeginClearing(t)
  \/ FreeFront(t) \/ EraseFront(t) \/ EndClearing(t)

onStringMessage_query(t) == BeginScan(t) \/ ScanNext(t) \/ EndScan(t)

Handle(t) == onStringMessage_add(t) \/ clearList(t) \/ onStringMessage_query(t)

Tick ==
  /\ now < MaxNow
  /\ now' = now + 1
  /\ UNCHANGED <<guestList, heap, lock, pc, locals, received>>

Next ==
  \/ \E t \in Threads :
       \/ \E i \in Ids : BeginQuery(t, i) \/ \E b \in Blocks : BeginAdd(t, i, b)
       \/ Handle(t)
  \/ Tick

Spec == Init /\ [][Next]_vars

\* An IO thread keeps running, and a lock that stays available is granted.
Fairness == \A t \in Threads : WF_vars(Handle(t))

FairSpec == Spec /\ Fairness

-----------------------------------------------------------------------------
Times == [day : 0 .. Day - 1, moment : Int]
GuestPics == [id : Ids, data : Blocks \cup {NoBlock}, addTime : Times]

\* Types of the guest server; a time of day is always before midnight.
GuestTypeOK ==
  /\ now \in Nat
  /\ guestList \in Seq(GuestPics)
  /\ heap \subseteq Blocks
  /\ lock \in Locks(Threads)
  /\ pc \in [Threads -> PCs]
  /\ guestPic \in [Threads -> GuestPics]
  /\ it \in [Threads -> Nat \ {0}]
  /\ flag \in [Threads -> Nat]
  /\ curTime \in [Threads -> Times]
  /\ received \in 0 .. MaxRequests

Data(list) == {list[k].data : k \in DOMAIN list}
Matching(list, i) == {k \in DOMAIN list : list[k].id = i}

\* onStringMessage_query only hands to conn->send pictures that clearList has
\* not freed.
SendsLiveData ==
  \A t \in Threads :
    pc[t] = "scanning" /\ it[t] <= Len(guestList) => guestList[it[t]].data \in heap

\* A query sends every picture of its guest that is on the list, each once, and
\* so answers "empty" only if there is none: the list is the same all along.
SentMatchesList ==
  \A t \in Threads :
    pc[t] = "scanning" =>
      flag[t] = Cardinality({k \in Matching(guestList, guestPic[t].id) : k < it[t]})

\* Every picture is freed once and none is lost: what is allocated is on the
\* list, or with a handler that is about to push it, and clearList erases the
\* entry whose picture it has freed before another thread can look.
Carrying == {t \in Threads : pc[t] \in {"queueing", "writeLocking", "pushing"}}
Erasing == {t \in Threads : pc[t] = "erasing"}

HeapIsListed ==
  LET listed == IF Erasing = {} THEN guestList ELSE Tail(guestList)
      carried == {guestPic[t].data : t \in Carrying}
  IN  /\ Data(listed) \cup carried = heap
      /\ Len(listed) + Cardinality(Carrying) = Cardinality(heap)

\* "clear outime Guest information" (arcguestserver.cpp:87-89): clearList
\* removes a picture only when it has been there for RetainTime.
OnlyOutdatedCleared ==
  [][\A t \in Threads :
       pc[t] = "freeing" /\ pc'[t] = "erasing" =>
         Head(guestList).addTime.moment + RetainTime <= now]_vars

\* When clearList is done, no picture is left that is outdated by the time it
\* has read: stopping at the first that is not is enough.
NothingOutdatedLeft ==
  [][\A t \in Threads :
       pc[t] = "freeing" /\ pc'[t] = "idle" =>
         \A k \in DOMAIN guestList : guestList[k].addTime.moment > curTime[t].moment]_vars

\* Every request is answered: no handler waits for the lock for ever.
GuestRequestsServed == \A t \in Threads : pc[t] # "idle" ~> pc[t] = "idle"
=============================================================================
