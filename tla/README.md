# A TLA+ verification of JCToolKit

JCToolKit is a small C++ toolkit: threads that run operations handed to them
(`src/src/Thread`), an event loop over epoll (`src/src/Poller`), sockets and
buffers (`src/src/Network`), and a clock, a list and an object pool
(`src/src/Util`). Almost all of its own logic is in how threads hand operations
to each other and in who owns what while they do, so that is what is modelled.

Line numbers below are those of the repository. `PROJECT.json` maps every
definition that stands for code to its lines.

## 1. Inventory

| part | state | operations | hard about it |
|---|---|---|---|
| `Semaphore` | `_count`, a mutex, a condition variable | `post(n)`, `wait()` | `notify_one` for one token and `notify_all` for more; spurious wakeups; destroyed as soon as `wait()` returns |
| `OperationQueue` | a list under a mutex, a `Semaphore` | `push_back`, `push_front`, `push_exit(n)`, `get_operation` | list and semaphore are never updated together; a token without an operation means "exit" |
| `Operation`, `OperationExecutorProtocol` | the function, held strongly by the handle and weakly by the operation | `async`, `asyncFirst`, `sync`, `syncFirst`, `cancel` | cancelling while it is fetched or run; waiting for oneself |
| `ThreadGroup` | map of threads, id of the last one created | `createThread`, `isThisThreadIn`, `joinAll` | a new thread runs before it is in the map, and reads the map unlocked; the system may refuse a thread |
| `ThreadPool` | queue, threads | `start`, `run`, destructor | exit tokens against threads, operations that throw, operations that use their own pool |
| `EventPoller`, operations | list, pipe, `_exitFlag`, `_loopThreadID` | `async_l`, `onPipeEvent`, `runLoop`, `shutdown`, destructor | full pipe, edge-triggered watch, exit in the middle of a batch, the owner taking over the loop's work |
| `EventPoller`, events | `_eventMap`, the epoll set | `addEvent`, `deleteEvent`, `modifyEvent`, dispatch | descriptors are closed and reused while events and calls are under way |
| `EventPoller`, shared buffer | `_sharedBuffer`, a weak pointer | `getSharedBuffer` | lives as long as somebody holds it, and holders may change its memory |
| `EventPoller`, delays | `_delayOperationMap` | `startDelayOperation`, `getMinDelay`, `flushDelayOperation` | time moves meanwhile; 0 means "none"; `int` timeout |
| `ThreadLoad` | the last intervals of sleeping and running | `startSleep`, `wakeUp`, `load` | two limits that drop old intervals, unsigned sums |
| `OperationExecutorProvider` | `_executors`, `_pos` | `getExecutor`, `getExecutorLoad` | no lock; loads change while it compares them |
| `EventPollerPool`, `WorkThreadPool` | singletons over the provider, `_preferCurrentThread` | `getPoller`, `preferCurrentThread`, `getFirstPoller` | called from the loop threads that are chosen among |
| `ReusePool` | list under an atomic flag, size limit | `obtain`, the deleter, `quit`, `setSize` | nobody waits for the flag; deleters outlive the pool; the allocator may throw |
| `PipeWrapper`, `SelectWrapper` | descriptors | `read`, `write` | non-blocking write whose result nobody reads |
| clock (`Utilities`) | time stamps written by a thread of its own | `getCurrentMillisecond` | steps of the system clock are left out; it is not the clock of `epoll_wait` |
| `SocketHandler`, `DNSCache` | a map of resolved names | `connect`, `listen`, `bindUdpSock`, ... | descriptors on failing paths, names resolved outside the lock |
| `BufferRaw` | `_data`, `_capacity`, `_size` | `setCapacity`, `setSize`, `assign` | memory is given back, the size is kept |
| `List` | nodes, both ends, a count | the usual ones, `swap`, `append` | aliasing of nodes |
| `uv_errno` | none | tables | – |

How they interact: `ThreadPool` owns an `OperationQueue`, which owns a
`Semaphore`; `sync()` waits on a `Semaphore` of its own. `EventPoller` has its
own list and wakes its loop through the pipe, whose event is one of those in the
event map; delayed operations and calls of `addEvent` and `deleteEvent` from
other threads travel as operations. Both are `OperationExecutor`s, so they are
`ThreadLoad`s too, and the provider chooses among pollers by their load.

What has to be right, per part:

* semaphore: no wakeup is lost; whoever returns from `wait()` may destroy it;
* queue: every operation has a token, and only an exit token finds nothing;
* executors: an operation begins at most once, never after `cancel()`; `sync()`
  returns when it is over; order of submission; destructors return, and lose
  nothing they should not;
* poller: its loop never sleeps on work, of any of its three kinds, and never
  calls a callback that was given up or belongs to another file;
* load and provider: loads are what was measured, the least one is chosen;
* shared buffer: whoever holds it holds the same one, and its data lie in its
  memory;
* object pool: one holder per object, no leak, no use after deletion;
* sockets and pollers: a descriptor has one owner from `socket()` to `close()`,
  on failing paths too; a cached address is no older than the cache promises;
* list: both ends and the count agree with the nodes, whatever was done before.

## 2. Modules

In the order they build on each other:

| module | models | says |
|---|---|---|
| `CountingSemaphore` | what `Semaphore` promises | tokens are added and taken atomically; the semaphore is weakly fair |
| `Semaphore` | `post` and `wait` statement by statement: mutex, wait set, spurious wakeups | implements `CountingSemaphore` |
| `OperationQueue` | the two halves of each call, on any threads | balance of tokens and operations |
| `ExecutorProtocol` | what both executors promise about one operation | life cycle of an operation and of `sync()` |
| `ThreadPool` | pool, thread group, workers, clients, owner | implements `OperationQueue` (through `Queue`) and `ExecutorProtocol` (through `Executor`) |
| `EventPoller` | clients, loop thread, owner, pipe, edge | implements `ExecutorProtocol` |
| `EventMap` | the epoll set, the callbacks, the dispatch of one `epoll_wait` | callbacks and descriptors |
| `BufferRaw` | the members as a record, the methods as operators | – |
| `SharedBuffer` | extends `EventMap` and `BufferRaw`: callbacks that get, keep, use and drop the buffer of their poller | one sound buffer |
| `DelayOperations` | the delay map, the flush, the sleep, the clock thread | no delayed operation is lost or slept on |
| `ThreadLoad` | the members as a record, the methods as operators | – |
| `ExecutorProvider` | several executors with a load each, `getPoller` with `getExecutor`, `getExecutorLoad` | the least loaded is returned |
| `ReusePool` | flag, list, deleters, end of the pool | ownership |
| `DNSCache` | the calls of `getDomainIP`, for one name | age of an address |
| `Descriptors` | extends it: `connect`, `listen`, `bindUdpSock`, queries of adapters, construction and end of a poller and its pipe | who owns a descriptor |
| `ListProtocol` | what a `List` promises | sequences |
| `List` | nodes, `next`, `_front`, `_back`, `_size` | implements `ListProtocol` |

`MC*.tla` give the sets for TLC, `*Proofs.tla` hold theorems: each about the module
of its name, `EventMapProofs` about `SharedBuffer` too, `EventPollerProofs` about
`ExecutorProvider` with its `ThreadLoad`, `ReusePoolProofs` about `List`, and
`DescriptorsProofs` about `DNSCache`.

How state corresponds to code: variables have the names of the members they
stand for. `pc`, `loop`, `owner`, `at` say where a thread is; an action goes
from one statement that another thread can see to the next one, so what happens
under one lock is one action, and what happens after an unlock is another.
Operations are numbers in the order of submission, which lets order be stated.
Operators whose names say what is wrong (`NotifyOnlyOne`, `JoinNobody`, ...)
stand before the one they would replace and are used by no specification; they
show that a property notices the slip. What they replace is often one condition
or assignment of the code with a name of its own (`Locks`, `Due`, `DropsWatch`).

Some choices a reader should know:

* **`Operation`.** A handle holds the function strongly, the operation weakly.
  `operator()` locks the weak pointer first, so from then on a cancel changes
  nothing: `Invoke` and `NextOperation` decide on `alive` in one step.
* **`ThreadPool::start`.** `createThread()` starts the thread and only then puts
  it into the map, without a lock (ThreadGroup.h:35). `isThisThreadIn()` on
  another thread is a data race while the owner is in `start()`; either answer
  is possible there, which is what `IsThisThreadIn` says.
* **A thread that cannot be created** (`CreateFails`) makes `start()` throw to
  the owner, who has a pool with the threads created so far and destroys it like
  any other. Thrown out of the constructor (`autoRun`), the exception ends the
  program when a thread runs already, which is not modelled.
* **The pipe's edge.** A write into an empty pipe raises the edge; a write into
  one that is readable may raise it again or not; a full pipe refuses the byte.
  `NoLostWakeup` holds under each of these.
* **The destructor of a poller** joins the loop and then runs `onPipeEvent()`
  itself, with `_loopThreadID` set to its own thread. The same actions model both
  runners, and share `at` and `batch`, since they exclude each other (`TypeOK`).
* **System calls** in `Descriptors` fail at will, one action each, and `Fds` is
  what `socket()`, `pipe()` and `epoll_create()` may return. `connect()` never
  connects: a misplaced parenthesis passes 0 as the length of the address
  (SocketHandler.cpp:278), `::connect()` fails, and the descriptor is returned
  because it does. A resolution that is interrupted fails like any other, since
  `getaddrinfo()` then returns `EAI_SYSTEM` and not -1 (SocketHandler.cpp:217).
* **Lists.** Every other model has a sequence where the code has a `List`, and
  `List` justifies that. Its memory is shared by the lists, because `swap()` and
  `append()` move nodes; deleted nodes keep their contents until they are
  allocated again, so that a pointer left behind would be followed.
* **The clock.** `Tick` is one look of the clock thread at the system clock,
  which may have gone back or by a second and more; `Expired` is what it makes of
  it. `epoll_wait` measures its timeout otherwise, so `TimeoutExpires` does not
  ask for the time: the loop may wake before anything is due.
* **`getPoller()`** on a loop thread that prefers itself returns its own poller
  and changes nothing, so `GetPoller` is about every other call. A loop thread
  that asks is awake and does not go to sleep meanwhile. The registry behind
  `getCurrentPoller()` is the constant `Home`: pollers of the singletons live as
  long as the program.
* **The shared buffer** is called for by nothing in the toolkit. Its holders do
  what `BufferRaw` allows, in callbacks, and drop it on any thread. An exception
  of `setSize()` ends the callback, which is `EndCallback` of `EventMap`.
* **`modifyEvent()`** changes nothing: watches are added with `EPOLLEXCLUSIVE`,
  for which Linux refuses `EPOLL_CTL_MOD`.
* **The user's side** of the bargain is part of a model where the code relies on
  it: the owner destroys a pool when no client is inside a call; files are
  closed after `deleteEvent()` has reported (`CloseEarly = FALSE`); nobody sets a
  capacity below the size of the data (`CutData = FALSE`).

### Readings of code that does not compile

Parts of the sources do not compile as they stand. They are modelled as they
are evidently meant:

* `EventPoller::async_l` (EventPoller.cpp:198, 202) appends `op`, a function, to
  a list of operations; modelled as appending `ret`, the operation it made.
* `Buffer.h:60` uses `string` unqualified and `Buffer.h` needs `struct iovec`;
  `SocketHandler.cpp` repeats default arguments (:18, :246) and never defines
  the constructor of `DNSCache`. `Descriptors` and `DNSCache` model the bodies as
  they stand, with a constructor of `DNSCache` that does nothing.

## 3. What the runs show

Sizes are the distinct states TLC finds. Bounds are constants, named in each
module.

| run | question | bounds | states |
|---|---|---|---|
| `semaphore` | Does every token wake somebody, whatever the order on the mutex? | 3 threads, posts of 0, 1, 2 tokens, at most 3 in all | 14 495 |
| `operation_queue` | Can a token and its operation miss each other? | 3 threads, list of 3, 3 exit tokens | 662 |
| `thread_pool` | What do interleavings of workers, clients, operations and the owner break, and does everything come to an end? | 2 workers, 1 client, 3 operations, a thread may be refused | 82 009 |
| `thread_pool_twice` | Is `num` the number of threads? **No.** | 2 possible threads, `num` 1, `start()` twice | – |
| `event_poller` | Can the loop sleep on work, or the destructor hang or lose operations? | 2 clients, 3 operations, pipe of 2 bytes read 1 at a time | about 206 000 |
| `event_map` | Can a callback run for the wrong file, or after its deletion, and is the buffer callbacks share sound? | 2 descriptors, 3 files, 2 queued calls; 2 holders, data of 1, 2 and 4, capacity 5, 4 for 2 K | 227 479 |
| `delay_operations` | Is a delayed operation lost, doubled or slept on? | 2 operations, delays 0 to 2, clock to 4 in steps of -1 to 3, 3 for a second, 16 for 2^32 | 17 307 |
| `delay_operations_zero` | The same with a delay of 0 from inside a delayed operation. **Slept on.** | – | – |
| `executor_provider` | Are loads right and is the least one chosen? | 2 executors, a loop thread and another caller, 2 intervals, 3 ticks, 3 turns each | 485 472 |
| `reuse_pool` | Who owns an object? | 2 threads, 3 addresses, sizes 0 to 2, throwing allocator | 41 916 |
| `descriptors` | Who closes what when calls fail, and how old is an answer? | 2 threads, 4 descriptors, addresses expire after 1 of 3 ticks | 216 215 |
| `list` | Do hand-kept ends and counts ever mislead? | 2 lists, 4 nodes, 2 values | 1 159 |

Why the bounds are enough:

* *Semaphore.* Two sleepers and a poster are needed to tell `notify_one` from
  `notify_all`; a post of 2 with one sleeper and one newcomer needs 3 tokens.
* *Pool.* Two workers race for one operation and one exit token each; a third
  operation is needed for one that is submitted by an operation while another
  is queued. The client is a role: a second one adds interleavings of pushes,
  which `operation_queue` has with three threads.
* *Poller.* A pipe of two bytes is filled by two clients while the loop is in
  an operation; the third operation then finds it full. `ReadSize = 1` makes the
  loop of `onPipeEvent()` go round.
* *Event map.* One more file than descriptors, so that a number is used again
  while calls about the old file are queued.
* *Buffer.* Data of 1, 2 and 4 against a capacity of 5 give all answers of
  `setCapacity()`: too small, small anyway, more than half, memory given back. Two
  holders can hold the old and the new buffer, if there were two.
* *Delays.* `IntSize` stands for 2^32 and is kept above the delays: a
  registration can be late by the bound of `int` only after 24 days. What a delay
  above it does is not in the run.
* *Provider.* Intervals of 1 to 3 ticks and a window of 2 give loads of 0, 33,
  50, 66 and 100 and make both limits drop intervals; three turns are one more
  than `_maxSize` intervals. Types are left to the other properties there: they
  evaluate every field.
* *Object pool.* A third address distinguishes an object that was deleted and
  allocated again from one that was pooled.

* *Descriptors.* A poller takes three and a socket one, so with four a poller and
  a socket compete for the last, and a number is used again at once. Two threads
  miss the same name together and store in either order.
* *List.* Two nodes in each list, or three in one and one in the other, are
  enough for `append()` and `swap()` to have a first, an inner and a last node on
  each side; the run counts states up to the names of the nodes.

Deadlock is checked except where a run may legitimately stop: `thread_pool`
(an operation can wait for its own pool while `start()` is at work, see below),
`thread_pool_twice` (the point of the run), the delays (the clock ends at its
bound) and the event map (all files closed).

### Properties worth knowing

* `NoWaitReturnsInsidePost` (`Semaphore`): `wait()` cannot return while a thread
  is inside `post()` with the mutex held; it is why `sync()` may keep its
  semaphore on the stack. Nothing protects the *unlock* itself.
* `NoSelfWait` (`ThreadPool`): the race in `createThread()` is the only way for
  an operation to wait for its own pool.
* `OnlyLateOperationsLost` (`EventPoller`): the destructor serves the list once.
  What operations queue again (with `may_sync` false) during that last round is
  dropped silently; a `sync()` on it would not return.
* `SubmissionOrder`: within the list, `asyncFirst()` is last in, first out, and
  operations of `async()` keep their order over list and batch. An `asyncFirst()`
  does not overtake the batch the loop has already taken.
* `CallbackIsCurrent` (`EventMap`) needs files to be closed in order. With
  `CloseEarly = TRUE` it fails: `deleteEvent()` erases the callback only if
  `epoll_ctl` succeeds (EventPoller.cpp:135), and `emplace()` keeps the callback
  that is there, so the next file with the same number gets the old callback.
* `SilentAfterDelete` (`EventMap`) is about the callback that was deleted. If the
  number is registered again within the same batch, the new callback gets the
  event of the old file (EventPoller.cpp:306), and no property forbids that.
* `FlagReleased` (`ReusePool`) has the exception the code has: if the allocator
  throws between `test_and_set()` and `clear()` (ReusePool.h:80), the flag stays
  set and the pool is out of use for good. What was and is in hand is still owned
  by one and deleted in the end (`EveryObjectAccounted`).
* `LoadIsMeasured` (`ExecutorProvider`) is about executors with one thread. A
  `ThreadPool` with several shares one `ThreadLoad` among them, and its intervals
  then overlap; nobody reads that load.
* `OneOwner` (`Descriptors`) has the exception the code has: if epoll does not
  take the pipe (EventPoller.cpp:40), the constructor throws, `~EventPoller()`
  does not run, and `_epollFd` stays open (`lost`).
* `AddressAge` (`DNSCache`): threads that miss together resolve together, and an
  older answer can replace a newer one with a new time stamp (SocketHandler.cpp:163).
  An address is therefore as old as `expireInterval` and the slowest store.
* `DestructorReturns` and `OperationsSettle` of the pool except the case that
  `NoSelfWait` leaves: a worker that waits for ever in `sync()` on its own pool.
* `NoOperationLost` and `OperationsSettle` (`ThreadPool`) are about a pool that has
  got at least one thread; without any, nobody fetches what is queued, and the
  destructor drops it.
* `OneSoundBuffer` (`SharedBuffer`) needs `CutData = FALSE`: `setCapacity()` gives
  memory back and keeps the size (Buffer.h:110). It does not say how large the
  buffer is. `getSharedBuffer()` makes one of `1 + SOCKET_DEFAULT_BUF_SIZE`, and as
  long as anybody keeps it everybody gets it as it has become: an `assign()` of
  a short text leaves it as short as that text. Callbacks have to ask for
  `getCapacity()` each time.
* `DueTasksRun` (`DelayOperations`) says that an operation is run in the end, not how
  late. The delay the loop sleeps is measured from when the flush began
  (EventPoller.cpp:444), so after long operations it oversleeps by their length.
* `LeastLoaded` (`ExecutorProvider`) compares what the executors *said*: by the time
  `getExecutor()` returns, another may have less to do.
* `_pos` of the provider is moved only to an executor without load, or around
  once to where it was; idle executors are not taken in turn.

### Disagreements between the code and its comments

1. `thread_pool_twice`. `start()` computes how many threads are missing
   (ThreadPool.h:46) and ignores it: on a pool that is started it creates all of
   them again. The comment at ThreadPool.h:23 calls `num` the number of threads.
   The exit tokens are then too few, and the destructor waits for ever.
2. `delay_operations_zero`. `flushDelayOperation()` returns the delay until the
   next operation, which is 0 if that one was registered with delay 0 by an
   operation of this very flush; `runLoop()` reads 0 as "none" and sleeps without
   a timeout (EventPoller.cpp:444, :300).

## 4. Fairness

Safety properties are checked of `Spec` alone or of a fair specification, which
makes no difference to them. Liveness assumes what a scheduler gives, and weakly but for one case:

* a thread that can take its next step inside the toolkit takes it in the end;
* operations end (`EndOperation`), as a user of an executor must see to;
* *no* fairness for clients, for `Shutdown`, `Cancel` or spurious wakeups;
* in `Semaphore`, that the mutex does not pass over a thread for ever (strong
  fairness of locking). It is the one assumption the code itself does not
  secure: `std::mutex` promises no order, and TLC shows that without it a thread
  that calls `post(0)` again and again can keep a waiter out. With it the
  semaphore is a `CountingSemaphore!FairSpec`: *somebody* takes a token while
  there are tokens. `ThreadPool` assumes no more than that of its workers: weak
  fairness of "some worker takes a token", not of each one;
* the clock thread sees time pass again and again, in steps below a second
  (in `DelayOperations`); a timeout of `epoll_wait` expires in the end, at no
  particular time of that clock.

## 5. What is proved

TLAPS checks these for every value of the constants (sets of threads finite,
bounds any natural numbers).

`SemaphoreProofs`. `NoLostWakeup` is not inductive: a post may only notify once
it knows that the thread it wakes will see the token. `IInv` adds who holds the
mutex (`MutexInv`), which amounts are being posted (`PostingInv`), and that a
thread about to sleep has seen zero tokens under the mutex (`BlockInv`). The step
for notifications counts the threads on their way to check: `notify_one` adds one
such thread for one token. `Refinement` is the safety part of
`ImplementsCountingSemaphore`. `WaitOutlastsPost` (`NoWaitReturnsInsidePost`) follows
from `MutexInv`.

`OperationQueueProofs`. `TokenBalance` says that tokens, calls between their two
halves and operations balance; it is inductive with `TypeOK`. From it follow
`ExitOnlyWhenAsked` and `NothingStranded`.

`ThreadPoolProofs`. `BaseInv` relates the owner's position to the set of threads
and to the map (`OwnerInv`), the workers' positions to what they hold (`RunInv`)
and the list to the number of operations (`LengthInv`).
`UsesQueueAsSpecified` shows that every step of the pool is a step of
`OperationQueue`, or leaves it alone. The theorems of the queue are then used as
they stand (`QueueFacts == INSTANCE OperationQueueProofs`): that no more workers
leave than exit tokens were posted is `ExitsAreAsked` seen through the
refinement, and `ExitsAfterShutdown` follows. `NothingLost` adds two invariants:
every operation is over, cancelled, in the queue or in a worker's hands
(`PlacedInv`), and when the last worker has left, the queue is empty (`OutInv`);
the latter needs `TokenBalance` of the queue. `NoWaitForOneself` follows from
`OwnerInv`: outside `start()`, the map is the set of running threads, as it is
after a `start()` that failed.

`Refinement` is `ImplementsExecutor`, step by step. It adds to these invariants
`OnceInv`: an operation that is not over is in one place only, the queue or the hands
of one worker, so that the operation that begins has not begun before, and the one
that ends is the one that ran.

The theorems of the pool also say that `NumThreads` and `MaxStarts` may be anything: the pool
started twice is covered, and loses nothing either, because its destructor then
does not return.

`EventMapProofs`, with `CloseEarly = FALSE`. `CallbackIsCurrent` depends on calls
that other threads made earlier and the loop carries out later, so `IInv` speaks
of the calls on their way (`Coming`, the batch and then the list): each is still
about the file behind its descriptor, which holds because a user waits for them
before he closes; an `addEvent()` among them is the only one of its file, and
that file is not watched (`CallInv`). `WatchInv` says a watched file has been
asked for (`TypeOK` says it too); with it `SilentAfterDelete` follows. That a callback belongs to the
event at the head (`TurnInv`) is needed for the types.

The same module, with `CutData = FALSE`: `OneSoundBuffer` is inductive with
the types of the buffers; the lemmas about `SetCapacity`, `SetSize` and `Assign`
carry it. `EventsBeside` shows that `SharedSpec` implements `Spec` of `EventMap`, so
that what is proved of the events holds beside the buffer (`CurrentBesideBuffer`).

`EventPollerProofs`. `RunInv` relates the positions of the loop thread, of the owner
and of whoever runs `onPipeEvent()` to the batch. `NoLostWakeup` only speaks of a
loop that waits; `WakeInv` states its two halves of every place at which they have
to hold for that: outside the reading of the pipe, bytes in it have raised the edge;
outside the reading and the swap, queued operations have a byte in the pipe or a
thread about to write one. The second half survives a full pipe because a write is
refused only where there are bytes. For `SubmissionOrder`, `ListInv` says what is in
batch and list (each operation once, none that is over, the exit only after
`shutdown()`), and `Ordered` says in which order; inserting at either end and
taking from the front keep it (`InsertedFacts` and the lemmas after it). `OnlyLateLost`
needs that everything else is over (`PlacedInv`), and that once the owner has taken
the list himself, only late operations are queued again (`LateInv`). `Refinement`
(`ImplementsExecutor`) uses all of these; who runs an operation changes, the protocol
does not notice.

The same module, of `ExecutorProvider`. `LoadIsMeasured` compares sums of recorded
lengths with the ticks an executor slept, and the lengths alone do not say which
ticks those are. `Measured` says it: behind the records stand moments, each record
goes from one to the next, the last moment is where the current interval began,
and the ticks of a record were slept or not as its flag says. `startSleep()` and
`wakeUp()` add a moment, `load()` and the limit of the list drop the first ones
(`Remembered`, `TrimMeasured`), a tick extends the current interval
(`TickMeasured`), and the sums are the distance of the first moment from the last
and the ticks between them that were not slept (`RecordSums`, by induction over the
moments). Before its first sleep an executor runs though its `ThreadLoad` says that
it sleeps (`Fresh`). `LeastLoaded` speaks of the executor that is returned and of what
it said. `readings` keeps all that was said in one `getExecutor()`, since the first
executor is asked twice and may say more the second time. `Compared` ties the
executor chosen so far (`best`) to the least of that (`minLoad`), at each turn of the
loop, and says who has been asked: the `i` executors before `at`, around the end of
the list (`Passed`), unless a load of 0 was met. What other callers do to `_pos` and
to the loads does not matter. That all loads are
percentages (`LoadsArePercentages`) says that no unsigned difference in `load()`
goes below zero.

`DelayOperationsProofs`. A multimap is a sequence that is sorted by due time, and
what `emplace()` keeps is proved of any such sequence (`EmplaceFacts`): it stays
sorted, and gains one entry. `EmplaceAll` repeats that as a recursive function, so its
lemmas go by induction, which is done with sets: `Counting` takes the set of numbers
for which a fact holds, and rests on the least element of a set of numbers
(`LeastNumber`, from the well-foundedness of `<`). `PlaceInv` says that an operation
not over has one entry in one of the three places; `EntriesKept` counts them.
`FlushInv` says that maps are sorted, and that a flush adds what is due no earlier
than it began, which keeps the timeout from being negative (`TypeCorrect`), and
later than it began if no operation asks for a delay of 0. That is one hypothesis
of `SleepsOnlyIdle`, and `delay_operations_zero` shows that it is needed. The other,
`TimeoutsFit`, is that the longest delay is below 2^31, and so is the longest delay
together with the time a flush takes: the timeout is measured from when the flush
began, and what an operation starts during it is due later than that by both.
`AheadInv` bounds due times against the clock for this, which may be at any time;
in the run the hypothesis holds of every state.

`ReusePoolProofs`. Ownership rests on the flag (`FlagInv`: two threads are never in
the list), on what a thread holds at each place of the deleter (`DeleterInv`) and on
the list being empty when nobody keeps the pool alive (`PoolInv`). `ExclusiveOwnership`
is inductive only together with `EveryObjectAccounted`, which the proof states of one
object at a time (`Placed`).

The same module, of `List`. `ListInv` says that each list has a chain: nodes, each
once, that its `next` pointers lead along from `_front` to `_back`, as many as
`_size` says, and no node is in two chains (`Chained`). One lemma for each operation
says which chains there are afterwards. `WellFormed` and `ImplementsSequences` speak
of the nodes that a walk along `next` meets; `WalkMeetsNodes` shows that a walk over
a chain meets that chain and stops at its end, before the bound on its steps, since
a chain cannot have more nodes than there are. Each operation on pointers then is
the operation on sequences of the same name (`Mirrored`). The chains are also what
makes an insertion safe: the node it takes is in no chain, so no other list changes.

`DescriptorsProofs`. `OneOwner` counts the owners of a descriptor; `Placed` and
`Exclusive` say without counting that an open one has an owner and that no two have
it. A call forgets its socket when it opens another, so `PlaceInv` says where it has
none, and `CallInv` which calls are there. For `AddressAgeBounded`, `TimeInv` bounds
how far a stored answer is behind its time stamp by the slowest store so far.

Assumed are only the named assumptions on constants, which TLC evaluates in the
runs, and the hypotheses that stand in a theorem (`CloseEarly = FALSE`,
`CutData = FALSE`, no delay of 0 from inside a flush, and `TimeoutsFit`).

Only model-checked is what is out of the prover's reach: liveness and `ENABLED`
(`DestructorReturns`, `OperationsSettle`, `FlagReleased`, `DueTasksRun`, and the
fairness of `ImplementsCountingSemaphore`). Every invariant and every action property of a
passing run is a theorem, some under the hypotheses above.

Induction over data is done by hand: a recursive function is compared with a witness,
step by step up to the least number at which they could differ (`LeastNumber`), so
that `EmplaceAll`, `Walk` and `Total` are recursive functions and not folds.

## 6. What is not modelled

* `SocketHandler`: the setters of options and multicast groups and the getters
  of addresses are single system calls; which address a name has.
* `BufferOffset`, a view that is fixed when it is made and that nothing makes, and
  `BufferList`, whose constructor, `send()` and `reOffset()` are declared and never
  defined.
* `List`: `append()` of a list to itself drops its nodes, and `clear()` inside
  `for_each()` frees the node the loop stands on; nothing in the toolkit calls
  `append()`, or changes a list from inside its `for_each()`.
* `SelectWrapper` and the `#else` branches: `EventPoller.h:13` always defines
  `HAS_EPOLL` on Linux.
* Thread priorities, object statistics, `uv_errno`, printing.
* The last pointer to an executor dropped by one of its own operations: the
  destructor would join itself, and `std::terminate` ends the program.
* The `ThreadLoad` that the workers of one `ThreadPool` share: their intervals
  overlap, and nobody reads that load.
* `isThreadIn()` and `removeThread()` of `ThreadGroup`, which nothing calls.
* The system time stamps of the clock, which nothing reads, and `Ticker`, which
  prints.

## 7. Plan

The model covers what the code lets run, and what TLC checks of its safety is proved.
What could follow: the users of `SocketHandler` when the repository has some, the shared
`ThreadLoad` of a `ThreadPool` when something reads it, and liveness for more than the
small instances.
