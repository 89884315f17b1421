# ARCServer in TLA+

ARCServer answers face-recognition gates.  A gate sends a picture and is told
"ok" or "no"; it can also register the face of a user or of a guest.  A second
server keeps the pictures that guests hand in until a door keeper asks for them.
This directory holds the specifications of both servers, the TLC instances that
check them and the TLAPS proofs about them.  Paths below are those of the
repository; `main.cpp` and `arcface*.cpp` are at its top, the servers under
`src/`.

## The system

| Part | State | Operations | Called by |
|---|---|---|---|
| `ARCCompareServer` (`src/CompareServer/arccompareserver.cpp`) | `engines`, `connections_` | `onStringMessage_comp`, `_addu`, `_addg`, `onConnection` | `CompareCodec`, the event loop |
| `ARCFaceEngines` (`arcfaceengines.cpp`) | `sem`, `mutex`, `Enginespoll`, `engines`, `db` | `startEngines`, `compareFace`, `addFeature`, `addFeature_g`, `popEngineIndex`, `pushEngineIndex` (`stopEngines` has no caller) | the compare server |
| `ARCFaceEngine` (`arcfaceengine.cpp`) | two SDK handles and their work buffers | `InitEngine`, `UninitialEngine`, `getFeature`, `compareFeature` | `ARCFaceEngines` |
| `ARCFaceFeatureDB` (`arcfacefeaturedb.cpp`) | MySQL tables `UserInformation` and `UserImport`, `cache`, `cache_guest`, `lock_user`, `lock_guest` | `updateFeature` (once), `addFeature_User`, `addFeature_Guest`, `queryADDonDB`, `getCache` / `freeUserLock`, `getCache_guest` / `freeGuestLock` | `ARCFaceEngines` |
| `ARCGuestServer` (`src/GuestServer/arcguestserver.cpp`) | `guestList`, `lock`, the heap blocks of the pictures | `onStringMessage_add`, `onStringMessage_query`, `clearList` | `GuestCodec` |
| `CompareCodec`, `GuestCodec` (`comparecodec.h`, `guestcodec.h`) | the connection's `muduo::net::Buffer` | `onMessage` | the event loop |
| `main.cpp` | one `EventLoop` | wires the two servers to ports 2018 and 2019 | |
| `AddFeatureServer` | none | none (empty class) | |
| `muduo/` | buffers, queues, objects of a process or a thread, HTTP contexts, log lines | the methods with a body in the headers; everything else is in a binary library | the codecs, the event loop and the library itself |
| `ARCFace/` | | declarations of a closed binary, and the formats of its pictures | `ARCFaceEngine` |

The compare server and the guest server share no state.  Within the compare
server everything is shared by the threads that run handlers: the pool, the
database connection and the two lists.

**How many threads?**  The code is written for several IO threads: it has
semaphores, mutexes and read-write locks, and `ARCCompareServer::setThreadNum`.
`main.cpp` never calls it (and `ARCGuestServer::setThreadNum` is declared but not
defined), so the program as built runs all handlers on one thread.  The
specifications have `Threads` as a parameter; one thread is an instance of each
of them, and where a property depends on the number, it is said below.

### What is hard here

* Interleavings: two handlers in the pool, a scan of a list against an insertion
  or a removal, a decision taken from two lists one after the other.
* Waiting: handlers wait for a lock while they hold an engine, and waiting
  writers block readers.
* Errors that are dropped: engines that do not start, `getFeature` and
  `FacePairMatching` that fail, a database that cannot be reached.
* Restarts: users survive in the table, guests and their pictures do not.
* Time: the guest server compares times of day.
* Framing: a stream cut anywhere, one frame handled for each read event, and a
  buffer that moves its data while somebody reads.
* Pointers that outlive what they point at: features that may lie in an engine's
  memory, buffers of engines that did not start, objects of threads that end,
  callbacks on objects that others give up.
* Wakeups: spurious, to a thread that comes too late, or to nobody.

`PROJECT.json` lists each hazard at its line with the property that covers it or
the reason why none does.

### What makes each part correct

* Pool: an engine is with at most one thread; none is lost; `top()` is never
  called on an empty stack.
* Requests: each takes effect at one moment; users come before guests; "ok" if
  and only if somebody matched; everything taken is given back.
* Database: the guests do not change under a scan; only rows with a feature are
  loaded.
* Guest server: no freed picture is sent, none is freed twice or lost; only
  outdated ones are removed, and all of those.
* Codecs: the requests handled are the requests sent, in order.
* Engines: no buffer is leaked or freed twice, whatever fails; a result is true.
* Features: what is compared and stored is what was extracted.
* `onConnection`: the list holds the connections that are up.
* Buffer: what is read is what was appended, and no index leaves the vector.
* Queues: no item is lost, doubled or left lying while somebody sleeps.
* Objects: one per process or thread, used only while it lives.
* HTTP contexts: a request has nothing of the one before it.

## Modules

| Module | Models | Uses |
|---|---|---|
| `ReadWriteLock` | Qt's `QReadWriteLock` as a value and the condition and effect of each call (external) | |
| `EnginePool` | `popEngineIndex`, `pushEngineIndex` | |
| `FeatureDB` | `ARCFaceFeatureDB`: tables, connection, lists, locks | `ReadWriteLock` |
| `FaceServer` | the three handlers and the methods of `ARCFaceEngines` they call, from request to answer, and a restart of the process | `EnginePool`, `FeatureDB`, `FaceGate` (as an instance) |
| `FaceGate` | abstract: what the compare server promises, one atomic step per request | |
| `FeatureMemory` | where the features lie that `compareFace`, `addFeature` and `addFeature_g` work with | `EnginePool` |
| `FaceEngine` | `InitEngine`, `UninitialEngine` under `startEngines`, `stopEngines` | |
| `Picture` | the pixel loop and `getFaceInputImg` | |
| `Connections` | `onConnection` of both servers | `Mutex` |
| `Buffer` | `muduo::net::Buffer` as a value and each method as an operator | |
| `BufferQueue` | a `Buffer` under any legal calls, beside a queue of bytes; `send` of the codecs, which has no caller | `Buffer` |
| `Codec` | `onMessage` of `CompareCodec` and `GuestCodec` on a stream cut into pieces | `Buffer` |
| `GuestServer` | `ARCGuestServer`: list, heap, lock and clock | `ReadWriteLock` |
| `Mutex` | `MutexLock` with its `holder_`, `Condition` | |
| `BlockingQueue`, `BoundedBlockingQueue` | the queues, each method split where the mutex is given up | `Mutex` |
| `Pipeline` | threads that use an `AtomicInteger` and both queues together | both queues (as instances) |
| `LocalObjects` | `Singleton`, `ThreadLocal`, `ThreadLocalSingleton` | |
| `WeakCallback` | `WeakCallback` | |
| `HttpSession` | `HttpContext`, `HttpRequest` on a connection that is kept alive | |
| `LogText` | `FixedBuffer`, `LogStream`, `StringPiece`, `Logger::SourceFile` | |
| `MCEnginePool`, `MCFaceServer`, `MCGuestServer`, `MCCodec` | the instances TLC checks | TLC |
| `MCThreads` | one instance of `Pipeline`, `Connections`, `LocalObjects` and `WeakCallback` | |
| `MCParts` | one instance of `BufferQueue`, `FaceEngine`, `Picture`, `HttpSession` and `LogText` | |
| `EnginePoolProofs`, `FaceServerProofs`, `FeatureMemoryProofs`, `GuestServerProofs`, `PipelineProofs` | theorems about the module they are named after, and in `FaceServerProofs` the refinement of `FaceGate` | TLAPS |
| `ObjectsProofs` | those about `Connections`, `LocalObjects`, `WeakCallback` | TLAPS |
| `BufferProofs` | those about `BufferQueue` and `Codec`, and lemmas about sequences | TLAPS |
| `PartsProofs` | those about `FaceEngine`, `HttpSession`, `Picture`, `LogText` | `BufferProofs` |

`MCThreads` and `MCParts` hold parts that have nothing to do with each other.  A
variable `part`, chosen at the start, says which of them a behaviour is about;
the others keep their initial values.  So one run checks the parts side by side,
with their numbers of states added and not multiplied.

**EnginePool.**  `popEngineIndex` is the four actions `Acquire`, `LockForPop`,
`ReadTop`, `PopTop` and `pushEngineIndex` the three `LockForPush`, `PushIndex`,
`Release`: one for each point where another thread can run.  `top()` and
`pop()` are separate, since without the mutex somebody could run between them.
`poolState[t]` is the position of thread `t`.  `startEngines` has filled the
stack with every index, also those of engines that did not start, so `PoolInit`
begins with the full stack.  `CMAX_NUM` and the initial value of the semaphore
are two constants, as in the code; the only assumption is
`SEM_COUNT \in 1 .. CMAX_NUM`.

**FeatureDB.**  A table row is an id with a feature or `NoModel`.  A select may
return its rows in any order.  `connected` is the state of the connection, which
the code opens once: it can be lost and never comes back in the same process.
`cache` is read when the process starts and not written afterwards; `lock_user`
is therefore only ever read-locked.  `lockForWrite` is two steps, queueing and
getting the lock.  `addFeature_User` is an `update`, so it changes a row only if
there is one.

**FaceServer.**  `pc[t]` is where thread `t` is in its handler; `request[t]`,
`localmodel[t]`, `it[t]` and `result[t]` are the locals.  A picture is the
feature of the face it shows, `NoFace` or `Unreadable`; equal features match.
`getFeature` fails on `NoFace` and on an engine that is not in `ready`, and
leaves `localmodel` zeroed (`NoModel`).  `compareFace` ignores that, and
`compareFeature` then compares an uninitialised number, so its result is either
one: that nondeterminism is in the model (`compareFeature`).  The order of the
steps is the code's, e.g. `addFeature` gives the engine back *before* it stores
the feature, `addFeature_g` after.  `Restart` is a crash at any moment followed by
the constructors.

The pixel conversion before `getFeature` is part of `Extract`; what it does to
the picture is abstracted.  A feature is a value.  Whether
`AFR_FSDK_FACEMODEL.pbFeature` points into memory of the engine, to be
overwritten by its next extraction, is decided inside the closed SDK;
`FaceServer` takes it to stay as it is, and `FeatureMemory` says what follows if
it does not.

**FaceGate.**  A request is asked, decided in one step, and answered.  The
refinement mapping in `FaceServer` (`Gate`) sends the lists, tables and the
connection to themselves, `request` to `asked`, `result` to `answer`, and
`reliable` is "every engine started".  A comparison is decided at the step that
writes `UserImport`, or when the scan of the guests has come to its end.
`FaceGate` says plainly what the code does where that is not what one may expect:
the known users are those of the last start; "ok" to "addu" does not mean that
anything was stored; without a recognisable face anybody may match.

**GuestServer.**  A request allocates the picture (`GuestCodec`), reads the clock,
waits for the lock, appends, unlocks; then `clearList` tries the lock and frees
and erases from the front.  Freeing and erasing are two steps.  A `QTime` is a
record of `day`, the seconds since midnight modulo `Day`, which is what the code
compares, and `moment`, the same without the modulus, which only the properties
read.  `onStringMessage_query` is one step per entry.

**Codec.**  A connection is the bytes under way (`wire`) and the connection's `Buffer`
(`inputBuffer`), with its vector and indices.  `Read(n)` is a read event: `n` bytes are
appended and `onMessage` runs once, which takes at most one frame (`if`, not `while`).
The two codecs are the same code with different flags, so one module with the sets
`ImageOnly`, `IdAndImage` and `IdOnly` stands for both.  A length, a flag and an id are
an `int32_t` of four bytes in two's complement (`Word`, `Number`), the length and the id
in the host's order, the flag in network order, as the code reads them; flags have the
values they have in the code.  A client that is `patient` waits for each answer; another
sends as it likes.  Clients send whole, well-formed frames, with known flags or not; the
model says nothing of lengths that contradict the frame.  The calls in `delivered` are
what `onStringMessage` of `FaceServer` and `BeginAdd` and `BeginQuery` of `GuestServer`
begin with.

**Buffer, BufferQueue.**  A buffer is its vector and two indices; a method is an
operator from buffers to buffers, `Copied` is `std::copy`.  Guards of `BufferQueue`
are what a method asserts of its caller, and only those: `BufferAsserts` is what the
class asserts of itself.  The methods for numbers of 8 to 64 bits differ in a width
only and are one operator with the number as its bytes.  The comment of `readInt64`
(`muduo/net/Buffer.h:253`) requires as many bytes as an `int32_t` has; the assertion in
`peekInt64` (`:292`) wants those of an `int64_t`, and the model has the assertion.
Beside it, `send` of the codecs puts a length in front that does not count itself, in
network order, which is not what `onMessage` reads: no part of the program calls it.
Its `int32_t` is `sizeofLength` bytes, in the order of the host (`HostBytes`) until
`hostToNetwork32` turns them round.

**FeatureMemory.**  `model[t]` is a feature by reference: the memory of an engine, or
memory of its own.  Both are modelled (`shared`), with all threads or with the only
one that `main.cpp` has (`crew`).  Each request takes an engine from `EnginePool`,
extracts, reads, stores and gives the engine back in the order of its method.

**FaceEngine.**  A half of an engine (detection, recognition) is a handle, a pointer
and a count of blocks.  `Fates` are the ways in which starting it may end.
`stopEngines` has no caller but is modelled with `startEngines`, since only both show
whether the pointers are right.  `startEngines` pushes every index, whatever became of
its engine, and `stopEngines` takes none away: `onStack` counts how often each is there.
So an engine that was refused is given to requests for good (`RefusedForGood`).
`EnginePool` begins after the one call that the constructor makes, with each index once.

**Picture.**  The loop byte by byte; a byte of the copy is named by the place it
comes from.  The loop ends when it has *read* as many bytes as the copy should
have, so a quarter of the copy is never written: `PixelsInPlace` says exactly
that.  It is no finding, because nothing in the repository says otherwise.  A picture
has any depth that Qt knows, since only `addFeature_g` asks for a JPEG; the planes fit
the copy just if a line has four bytes for each pixel (`PlanesFit`).  For a format that
`getFaceInputImg` does not support no plane is described, and its -1 is ignored.

**Connections.**  A change of the `std::set` begins and ends; in between another
thread may run if the mutex lets it.  The copy of the list in `onConnection` is
never taken, because nobody else ever holds the `shared_ptr`.

**Mutex, queues, Pipeline.**  A mutex is who owns it and what `holder_` says.
`wait` gives it up and joins the waiting threads in one step; a thread that has
been notified, or wakes up for no reason, must get the mutex again and look again
(`while`).  `Pipeline` has producers, relays and consumers, so that a thread may wait
for an element in one queue and for room in another.  An operation of `AtomicInteger`
is what it returns and what it leaves in memory.

**LocalObjects, WeakCallback.**  `pthread_once`, the keys of pthread and `shared_ptr`
are external.  The `Singleton` may be asked for while the process exits; `got` is all
that a thread was given.  Once `destroy` has run NULL is among it, since `ponce_` stays
done, although `instance` asserts that it is not (`muduo/base/Singleton.h:41`):
`OneInstance` says when.  No finding, since nothing in the program makes a `Singleton`.
Destructors of a thread's objects may ask for its objects again.  pthread goes through
the keys of a thread that ends in rounds (`round`, `due`), as long as a key holds
something again, but no more than `Iterations` times; `late` counts the objects made
in that time.  Only who makes one for each round leaves an object behind
(`LocalsLiveAsLongAsThread`).

**HttpSession.**  The parser is in the library: its calls and their order are taken
from the declarations and marked external.  The context is the code's.

**LogText.**  A text is a sequence of numbers; formatting a number is left out,
whether an item fits is not.  A `StringPiece` is a place and a length in the line.

## What TLC checks

| Run | Instance | Shows |
|---|---|---|
| `engine_pool` | 3 threads or one of them, 2 engines, 2 pictures, 2 guests | `EngineExclusive`, `TopIsDefined`, `PoolConserved`; `HeldFeatureIntact`, `UsersAsExtracted`, `GuestsAsExtracted`: more threads than engines, so that threads queue at the semaphore and meet an engine that another has used |
| `compare_server` | 2 threads, 2 engines, 3 requests out of 5 kinds, 1 registered user of 2 ids, any engines fail to start, the connection may break | `NoSharedEngine`, `IdleHoldsNothing`, `GuestsStableDuringScan`, and that `FaceServer` implements `FaceGate` |
| `compare_restart` | the same with 2 requests of 5 kinds (two of them that store a user) and 1 restart | the refinement across a crash: an "addu" before it is matched after it, an "addg" is not |
| `compare_liveness` | 3 threads, 2 engines, 3 requests | `RequestsAnswered` |
| `compare_match_claim` | as `compare_server` | violated: finding 1 |
| `guest_threads` | 2 threads, 4 requests, 3 pictures at a time, a day of 4 s, RetainTime 1 s, across midnight | `SendsLiveData`, `SentMatchesList`, `HeapIsListed` |
| `guest_clock` | 1 thread, 4 requests, 8 clock values of one day, RetainTime 2 s | `OnlyOutdatedCleared`, `NothingOutdatedLeft` |
| `guest_liveness` | 3 threads, 3 requests, RetainTime 1 s | `GuestRequestsServed` |
| `codec_pipelined` | 3 frames of known and unknown flags, or one of 262 bytes, pieces of any size, a buffer of 6 bytes that has to move and grow | `StreamInStep`, `AllHandled` |
| `thread_queues` | 1 producer, 2 relays, 2 consumers, room for 1, 3 items, 1 spurious wakeup; 2 IO threads, 3 connections; 2 threads with objects, 2 of each class, 2 rounds of destructors; 2 owners and 2 callers | `HoldersRight`, `NobodyForgotten`, `OnePlace`, `Delivered`; `ListMatchesCalls`; `OneInstance`, `LocalsLiveAsLongAsThread`; `CallsLiveObject` |
| `sequential_parts` | a buffer with 2 + 2 bytes and up to 3 readable; 2 engines started up to 3 times; pictures up to 5 x 5 of 1 to 64 bits; requests of up to 2 header lines; lines of 5 characters and 3 items | `ContentKept`, `BufferAsserts`; `BuffersRight`, `RefusedForGood`; `PixelsInPlace`, `PlanesFit`; `RequestIsItsOwn`; `LineOfWholeItems`, `OneOrder` |
| `guest_midnight_claim` | 1 thread, across midnight | violated: finding 2 |

**Bounds.**  `MaxRequests`, `MaxRestarts` and `MaxNow` bound a run; they occur in
guards of the actions that receive, restart and tick, and nowhere else; so do
`MaxGuests`, `MaxFrames`, `MaxItems`, `MaxSpurious`, `MaxStarts`, `MaxObjects`,
`MaxReadable` and `MaxLogged` in those that add one more.  (`Iterations` is no bound of the
model but pthread's own limit; 2 of 4 are enough for objects that come back in a later
round and for one that comes back too often.)  Three
requests on two threads are enough for a comparison that overlaps with an
insertion and meets what a third request left; two threads and two engines for
every race in the pool, where a third thread on two engines makes one wait (that is
the instance of `compare_liveness`).  The request kinds are one for each path
through a handler.  Two ids, one registered, give both outcomes of the `update`;
two features give a match and a difference.  Day lengths of 3 to 10 seconds keep
only what matters: whether a time is before or after another, and whether
midnight lies between.  Three threads on two engines let an engine that one thread
gave back be used by the next while a third still has the other one.  A buffer of
a few bytes reaches every branch of `makeSpace` at each of its boundaries, which
lie closer together the smaller it is.  A bounded queue of one place makes
producers wait at once; two threads on either side of it are what a lost or stolen
wakeup needs.  Pictures up to 5 x 5 have every remainder of the line length modulo
four.

**Deadlock** is checked in every run.  When all requests of a run are answered
(and the clock stands at its bound) the system rests: `AllServed` in the MC
modules is a stutter for that state only, so every other state without a
successor is an error.

**Fairness** is weak fairness of `Handle(t)`, the steps of a handler that has been
called: its thread keeps running, and a semaphore, mutex or lock that stays available is
granted in the end.  In `Codec` it is that what is on the wire arrives (`Read` is the
only way for it to leave the wire), and in `Pipeline` that threads at a queue keep
running (`Work`), not that they begin anything new or are woken for no reason.  No
fairness is assumed of requests, of the clock, of a restart or of the loss of the
connection.  With finitely many requests the locks do become available; TLC does not
speak about a never-ending stream of readers, where Qt's preference for waiting writers
is what helps and is modelled. `compare_liveness` starts with all engines ready and no
connection, because who waits for whom depends on neither (`MCFairInit`).

**One thread and one day.**  `NothingOutdatedLeft` is about the server as deployed.
With two threads `addTime` can be read in one order and pushed in the other, and
`clearList`, which stops at the first entry that is young enough, then leaves an
outdated one behind.  `OnlyOutdatedCleared` and `NothingOutdatedLeft` hold within a
day (`ClearsOnlyOutdated`, `ClearsAllOutdated`); across midnight see finding 2.

### Findings

1. `compareFace` may answer "ok" for a picture without a recognisable face
   (`OkOnlyOnMatch`, run `compare_match_claim`): `getFeature`'s failure is ignored
   (`arcfaceengines.cpp:76`), the SDK's failure to compare is ignored too and the
   uninitialised `res` is compared with 0.95 (`arcfaceengine.cpp:174-177`).  The
   comment at `arcfaceengines.cpp:50` says "return 0 : match success".
2. In the first half hour after midnight `clearList` frees every entry up to the first
   one that was added in the last minutes before midnight (as a rule the whole list, the
   picture just added included; `OnlyOutdatedCleared`, run `guest_midnight_claim`):
   `addSecs(-RetainTime)` wraps to the evening (`arcguestserver.cpp:92-94`).  The
   comment there says "clear outime Guest information".  The other half of the same
   mistake is that a picture from the last minutes before midnight may stay until
   the next night, and everything behind it on the list with it.

## What is proved

Every safety property that a passing run checks is also a theorem, for every value of
the constants (threads, engines, users, requests, restarts, connections, pictures,
owners, items, bytes, sizes):

| Module | Theorem | States |
|---|---|---|
| `EnginePoolProofs` | `PoolTypeCorrect`, `PoolExclusion`, `PoolTopIsDefined`, `PoolConservation` | `PoolTypeOK`, `EngineExclusive`, `TopIsDefined`, `PoolConserved` |
| `FaceServerProofs` | `ServerTypeCorrect`, `ServerExclusion`, `ServerReleases`, `ServerScansStableList` | `ServerTypeOK`, `NoSharedEngine`, `IdleHoldsNothing`, `GuestsStableDuringScan` |
| | `ServerImplementsGate` | `ImplementsGate`: `FaceServer` implements `FaceGate`, restarts included |
| `GuestServerProofs` | `GuestTypeCorrect`, `SendsOnlyLiveData`, `HeapAccountedFor`, `QueryMatchesList` | `GuestTypeOK`, `SendsLiveData`, `HeapIsListed`, `SentMatchesList` |
| | `ClearsOnlyOutdated`, `ClearsAllOutdated` | `OnlyOutdatedCleared` within a day; `NothingOutdatedLeft` within a day and with one thread |
| `FeatureMemoryProofs` | `HeldFeaturesStay`, `StoredAsExtracted`, `GuestsShareOneEngine` | `HeldFeatureIntact`, `UsersAsExtracted`, `GuestsAsExtracted` |
| `ObjectsProofs` | `ConnectionsMatchCalls`, `SingletonIsOne`, `ThreadLocalsFreed`, `WeakCallbackSafe` | `ListMatchesCalls`, `OneInstance`, `LocalsLiveAsLongAsThread`, `CallsLiveObject` |
| `PipelineProofs` | `QueueMutexesKept`, `QueuesForgetNobody`, `ItemsInOnePlace` | `HoldersRight`, `NobodyForgotten`, `OnePlace` |
| `BufferProofs` | `BufferIsAQueue`, `BufferAssertsHold` | `ContentKept`, `BufferAsserts` |
| | `CodecKeepsStep` | `StreamInStep` |
| `PartsProofs` | `EngineBuffersRight`, `RefusedEnginesStayOut` | `BuffersRight`, `RefusedForGood` |
| | `CopyIsOfPixels`, `PlanesOfAnyPicture` | `PixelsInPlace`, `PlanesFit` |
| | `RequestsAreTheirOwn` | `RequestIsItsOwn` |
| | `LinesAreOfWholeItems`, `PiecesAreOrdered` | `LineOfWholeItems`, `OneOrder` |

**Assumptions.**  Only the named assumptions on the constants, which TLC evaluates on
the instances: what kind of value each constant is; at least as many engines as permits
(`PoolAssumption`); finitely many threads where threads are counted
(`PipelineAssumption` and others); frames whose length fits in the `int32_t` that
announces it, with flags and ids that are an `int32_t` (`CodecAssumption`); header
lines, texts and appended data that are sequences of what they consist of.  Two theorems
say more, in their statement: `WithinDay`, that the clock stays between `RetainTime`
after midnight and the next midnight, and `OneThread`.  The run `guest_clock` is an
instance of both. Without the first, `OnlyOutdatedCleared` is false (finding 2), without
the second `NothingOutdatedLeft` is.

*The pool.*  `EngineExclusive` is not inductive.  `PoolInv` adds that the mutex is
held exactly in the two critical sections, that the stack has no repetitions, that a
thread between `top()` and `pop()` still sees on top what it read, that every engine
is on the stack or in use, and two counts: permits plus threads between `acquire`
and `release` make `SEM_COUNT`, stack plus engines in use make `CMAX_NUM`.  The
counts give `TopIsDefined`: a thread that is about to read the stack is inside
but does not use an engine, so fewer than `SEM_COUNT <= CMAX_NUM` engines are in
use.  Cardinalities of sets of threads change by one when a thread moves
(`MoveCounts`); that lemma and those about the stack without its top (`PopStack`)
carry the proof.

*The server.*  A step of `FaceServer` is a step of `EnginePool` or leaves the pool
alone, or restarts it (`StepOfPool`), so `PoolInv` is preserved by the lemma
already proved.  `ServerInv` adds `PcMatchesPool`, which ties the position in the
handler to the position in the pool, and `LocksMatchPc`, which says in which
positions a thread holds or awaits which lock; with them `NoSharedEngine` and
`IdleHoldsNothing` are one step.  `GuestLockExclusive`, one writer or any readers,
gives `GuestsStableDuringScan`: `AppendGuest` needs a writer and a scan a reader.

*The refinement.*  `FaceGate` decides a request in one step from the lists as they
are at that step, `FaceServer` compares entry by entry over many.  `CourseInv` remembers
what a handler has found out: the feature in its hands is one that its picture may
yield (`FeatureShown`), and no entry before the one it is at has the same feature
(`ListsCompared`).  For the users that stays true because `cache` is never
written; for the guests because the scan holds the lock (`GuestLockExclusive`).  Then
each action is a step of the gate with a lemma of its own (`LetUserInStep`,
`TurnAwayStep`, ..., `RebootStep`) or invisible to it (`UnseenSteps`).

*The guest server.*  `SendsLiveData` is not inductive: it depends on every block
having one owner.  `HeapShared` says that the entries from `First` on (all but the one
whose picture was just freed) and the handlers that carry a picture have blocks of
their own, which are in the heap.  `malloc` may hand the freed block out again before
its entry is erased, and the lemma about `BeginAdd` is where `First` is needed.  With
`LockMatchesPc` and `LockExclusive` nobody scans while somebody erases.
`HeapIsListed` is the other direction, that nothing else is in the heap: blocks and their
owners are counted (`HeapCounted`), and the counts move together.
For the clock, `ClockInv` says that every `QTime` in the program is of the present day,
where comparing times of day is comparing moments.  `OrderInv` adds for one
thread that times are pushed in the order they were read in, so that the list is sorted.

*Features.*  `FeatureInPlace` says when a request may read what it extracted: while it
has its engine, which is `EngineExclusive` and so the invariant of the pool, or if
nobody else can write there (`Safe`).  `LeftWithFeature` is what `addFeature` needs when
it stores without the engine.  `PoolInv` is used as it is: a step of a request is a
step of the pool or leaves it alone.  The guests' features outlive the requests; for them
`SameEngine` shows that one thread, which pushes its engine before it pops again, always
works with the engine that was pushed last at first.

*The queues.*  `MutexKept` and `NoLostWakeup` are inductive once it is known where a
waiting thread stands (`InInv`, `OutInv`), so the two queues need nothing of each other.
What `NoLostWakeup` counts, threads on the way against elements and places, changes by
at most one in a step.  `HandsOK` ties what a thread carries to where it is, and
`OnePlace` follows: a step takes an item from one of four places and puts it in another.

*Buffer and codecs.*  The invariant of a buffer is `BufOK`: its vector, two indices in
order, and at least `kCheapPrepend` bytes.  One lemma per method says what it does to the
readable bytes, byte by byte (`MadeSpace`, `AppendedData`, `PrependedData`,
`RetrievedBytes`, ...); both branches of `makeSpace` keep them.  `Found` finds the
first occurrence (`FoundIsFirst`).  For the codec, a number is what its four bytes say,
in either order (`NumberOf`, `SwappedWord`), `FrameBytes` says where the fields of a
frame lie, `TakenFrame` that `onMessage` takes a frame that is in front whole and
nothing else, and `CodecInv` that what is unread and on the wire is, after some number of
frames, the bytes of the others one behind the other.  Then the first four unread bytes are
the length of the next frame, so a buffer that holds as many bytes begins with that frame
(`SplitOff`, `HandledFrame`).

*Recursion over data.*  `FlattenSeq` of the community modules is a recursive function
on sequences.  What a recursive function yields cannot be proved here with the library's
induction theorems, which take a predicate as a parameter.  But they are not needed:
a statement about all numbers up to `n` that fails has a least number where it fails, since
the naturals are well-founded (`LeastNumber`), and the step to it from the one
before is a contradiction.  `FlattenAppend` and `FlattenCons`, an item more at the end or in
front, are proved so, and `LineOfWholeItems` and `StreamInStep` rest on them.

*The others.*  What one half of an engine may be (`HalfOK`), and that a half that was
refused keeps its dangling pointer (`RefusedOn`), when its engine is already on the stack
(`EngineInv`); whoever changes the list of
connections owns the mutex and works on the list as it is (`ChangingHolds`,
`TreeCurrent`); one thread at most is in `init`, and nothing was made before it is out
(`OnceInv`); a key holds the number of the one object that is alive (`LocalInv`), and each round of
pthread but the last has cost an object made late (`RoundInv`); a call
that is under way holds a reference (`CallHoldsRef`); the copy of a picture holds three of
each four bytes that were read (`PictureInv`), and where planes end is arithmetic on any
width and height; a request in the making has exactly the header lines that were read
(`HttpInv`); a line of the log is the items that were taken (`LogInv`).  For `OneOrder`,
`memcmp` is described by the first place where two texts differ (`Ahead`, `SameUpTo`), and
the order laws are facts about first places.

**Only model-checked:** liveness (`RequestsAnswered`, `GuestRequestsServed`, `AllHandled`,
`Delivered`), since fairness and `ENABLED` are beyond the prover; and the two findings, which are
counterexamples.

## Not modelled

* `setDatabase`: no caller.  The branch for unset engines in the handlers: the
  constructor always sets them.
* The event loop and TCP of `muduo/`, and the face SDK in `ARCFace/`: declarations
  whose code is in binary libraries that the repository does not hold.  What is
  relied on is in guards: one thread per connection, one read event after another.
* `muduo::net::HttpResponse` and `HttpServer` (the program serves no HTTP),
  `Condition::notifyAll` and `waitForSeconds` (no user in the headers),
  `CountDownLatch`, `ThreadPool` and `Thread` (code in the library).
* The database connection used from other threads than the one that opened it
  (`arcfacefeaturedb.cpp:108`): what Qt then does is not specified.
* Frames whose length contradicts them (`comparecodec.h:48`), and the read of an entry
  past the end of the list (`arcguestserver.cpp:94`), whose result is not used: what
  happens is undefined behaviour of the whole program, not of a step.
* Lengths and contents of pictures, IP addresses in `UserImport`, import times, what is logged.
* Memory that is never freed (`bmpdata`, the codec's `data` in the compare server).

## Plan

Done: (1) `ReadWriteLock`, `EnginePool`; (2) `FeatureDB`, `FaceServer`, `FaceGate`
and the refinement; (3) proofs of the pool and of the server's safety;
(4) `GuestServer`; (5) `Buffer`, `BufferQueue`, `Codec`; (6) `FeatureMemory`,
`FaceEngine`, `Picture`, `Connections`; (7) the headers of muduo that have code;
(8) proofs of the safety of every part; (9) the proof that `FaceServer` implements `FaceGate`.

Next: what `FaceGate` promises of its own, as theorems about it (an answer "ok" to a
comparison has somebody known behind it if every engine started and the picture shows a
face), which `ServerImplementsGate` carries over to the program.
