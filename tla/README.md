# A TLA+ specification of the PPView route server

PPView plans trips: a request names cities, dates and places, and the answer is an
order of visits for every day. The server takes requests from a RabbitMQ queue, plans
each on a processor thread with the help of a pool of search threads, and keeps its
place data current with a hot update from MySQL. This directory models the parts in
which threads, failures and pruning meet, checks them with TLC on small instances, and
proves the central safety properties with TLAPS for any number of threads, tables, jobs,
requests, clients and list elements.

Paths below are relative to the root of the repository. `PROJECT.json` maps every
definition to the lines it stands for, and lists the runs, the mutants (plausible bugs
that each property detects), the hazards and the theorems.

## 1. The system

    RabbitMQ ──> MQConsumer ──wait_list──> MQQueryProcessor x n ──MQProducer──> RabbitMQ
                 (1 thread)                   |           |
                                   read lock  |           | Route, one per processor thread
                                              v           v
               MJHotUpdate ── publishes ──> PrivateConstData   DFSearch / RouteSearch
               (1 thread, MySQL)                                  | wait_list
                                                                  v
                                                     MyThreadPool x m, a ThreadMemPool each

| Part | State | Operations | Hard because | Correct if |
|---|---|---|---|---|
| Hot update: `common/src/http/MJHotUpdate.cpp`, `PPView/Server/MYHotUpdate.cpp` | pointers to the current and the new data object, one registered pointer per processor thread, a writer-preferring rwlock, time stamps per table | `addSharedDataPtr`, `delSharedDataPtr`, `svc` (scan, poll, copy, reload, publish), `stop` | unlocked reads between locked sections, one-second time stamps, partial failures | no object is freed in use, none leaks, a request sees one version, no row is skipped |
| Private data: `Route/base/PrivateConstData.cpp`, `common/src/MJSquareGrid.cpp` | maps of places by id and partner, lists per city, shields; one grid for all objects | `PrivateLoad`, `Copy`, `Update` of a table, `DelLYPlace`, `DoInsert`, adding to and deleting from the grid | rows that make several places, replace a public one, move, fail half-way; a grid shared by the objects | lists, grid and maps agree; updates lead where a restart would |
| Task queue: `common/src/threads/{linked_list,wait_list}.hpp` | intrusive circular list, length, alive flag, mutex, condition variable | `put`, `get`, `get(abstime)`, `get_from_head`, `flush`, `len` | lost and spurious wake-ups, timeouts, stale links | an atomic queue; no wake-up lost |
| Search threads: `Route/bag/MyThreadPool.cpp`, `DFSearch.cpp`, `RouteSearch.cpp` | queue, thread ids, memory pools, the `_state` of jobs | `open`, `activate`, `svc`, `add_worker`, `wait_worker_done`, `stop`; a DFS and a route search per request | `_state` is polled without a lock; the pools have none | no job deleted in use, pools private, results complete |
| Day search: `Route/bag/DFS.cpp` | current path and totals, meals left, call count | `Search`, `SearchView`, `SearchRest`, `CalClash` | pruning, undoing, giving up on time | the best orders, or sound ones if cut short |
| Paths: `Route/bag/SPathHeap.cpp`, `SPathAlloc.h`, `ThreadMemPool.cpp`, `DFSWorker.cpp` | bounded heaps with a hash set, free lists | `CanPush`, `Push`, `New`, `Delete`, `JoinDayPath`, `MergeDFS`, `Clear` | objects recycled between heaps of several owners | no leak or double free; the best paths of each point set |
| Server: `PPView/Server/main.cpp`, `MQ*.cpp`, `common/src/MyRabbitMQ.cpp` | connections, queue, thread states | start, consume, acknowledge, submit, plan, publish with retry, stop, kill | lost acknowledgements and publishes, backlog limit read early, blocked `consume` | every request answered or dropped for a known reason |
| HTTP server: `common/src/http/{HttpServer,QueryProcessor,TaskBase}.cpp`, `MJHttpShell.h` | sessions (`_unreleaseWorkers`), workers, epoll registrations, the task queue | accept, read, submit, answer, partial write, close, clean up, stop | one-shot events, workers shared by three kinds of threads, descriptors and addresses that come back | no worker deleted in use, every client gets its own answer |
| HTTP client: `common/src/http/SocketClientEpoll.cpp` | sessions, count of the unfinished ones | `doHttpRequest`, `closeSession` | edge-triggered events, partial reads and writes, a timeout for all | no event lost, every socket closed once, the call returns |
| Bag planning, path construction, planner, parsing, post processing, ranking | the request, or nothing | sequential | heuristics, time arithmetic | see section 6 |
| General thread pool, connection pool, stores (`common/src`) | pools | | | see section 6 |

## 2. Modules

    SeqOps ── LinkedList                               PathHeap ── DaySearch
          └── WaitList                                         └── PathPool
                 │ implements                          HotUpdate
              TaskQueue                                PrivateData (what HotUpdate's objects hold)
                 ┆ operations used by                  HttpClient
                 BagPool, MQServer, HttpServer

`WaitListProofs`, `HotUpdateProofs`, `BagPoolProofs`, `DaySearchProofs`, `PathPoolProofs`, `MQServerProofs`,
`HttpServerProofs` and `HttpClientProofs` extend the module they are named after. `WaitListProofs` extends `LinkedList`
too, and `PathPoolProofs` extends `DaySearchProofs`, which has the lemmas about heaps of paths.
An `MC...` module adds the constants and the symmetry that TLC needs.

**HotUpdate.** `cur`, `new`, `threadData` are `s_sharedData_cur`, `s_sharedData_new`,
`s_threadData`; `live` and `content` are the heap: addresses that are allocated, and the
rows of every table that the object at an address has read. An address is used again
after `delete`. A row is `<<utime, k>>`, and `log` is the database, which anybody may
write at any moment (`Commit`, `Tick`). `Startup` is `initSharedData`; the
actions of `Svc` follow `MJHotUpdate::svc` from its sleep over the scan
(`ScanLock`, `ScanNext`, `ScanInUse`, `DeleteOld`), `getUpdateTime` (`Poll`, `Diff`),
`reloadData` (`Copy`, `Update`, `UpdateFails`, `UpdateCutShort`) to `Publish` and `Test`.
`ThreadStep` follows `MQQueryProcessor::svc` through its three read-locked sections. The
test of `s_sharedData_new` and the assignment that follows it are two steps, as are all
accesses to different shared variables that the lock alone protects. Every database
access may fail. Two kinds of tables are told apart: most are read by a window of time stamps and only
added to; those in `Cleared` (`source`, which `server.cfg` monitors, and `tag`) are cleared when their query
has succeeded and then read whole (`LoadPrivateSource`, `LoadTag`), so that a fetch cut short leaves fewer rows
than before. `incomplete` is history: which tables an object has read only in part.

**SeqOps, LinkedList.** The pointer operations of the list as updates of `next` and
`prev`; elements come with whatever links they had before. `contents` is auxiliary: the
list that the calls should have built.

**TaskQueue, WaitList.** `TaskQueue` is the abstract specification: atomic put, take of the
oldest, take of the newest, close. `WaitList` has the mutex, the condition variable with
spurious wake-ups and timeouts, and each method as the steps between its lock, its test,
its removal, its signal and its unlock. On top of a `LinkedList` that keeps its
representation, `list` can be a sequence.

**BagPool.** The pool of one `Route` with the caller's program: create the jobs, queue them,
poll `_state`, merge, delete. The queue is the atomic one. A job either finds a path or is
cut off by the time limit. A failing `pthread_create` leaves `open` at the barrier, as in
the code.

**PathHeap, DaySearch, PathPool.** `PathHeap` has `SPathCmp`, `CanPush` and `Push` as
operators. `DaySearch` is the recursion of `DFS` as a machine with an explicit stack, with
`CalClash` as an operator; the reference judges whole orders. `PathPool` has addresses,
free lists, the day heaps, the heaps per point set and the merge. A free list is a bag: a second
`Delete` of an object shows, the order does not matter. `joins` has what the recursion of
`JoinDayPath` adds up for every choice of a path of each day, extended day by day. Jobs run one after the
other there, because BagPool shows that pools are private.

**MQServer.** `main`, the consumer, the processors and the producer with the broker around
them. The broker is external: it keeps a request until the acknowledgement and delivers
it again otherwise. `Break` and `Kill` are the failures (`stop.sh` kills with -9).

**HttpServer.** One action per step of `svc(0)` (accept, `createSession`), `svc(2)`
(`checkUnreleaseWorker`), the event threads (`Lock`, `Wait`, `Read`, `ArmInput`,
`submitWorker`, `Write`, `closeSession`), the processors (`Get`, `doWork`, `writeResponse`,
`Done`) and of the stop of `MJHttpShell` (`StopProcessors`, `Join` with its signal). The
task queue is `TaskQueue`. A descriptor is the lowest free one, as the system gives it; a
worker is an address that `new` gives out again after `delete`. Clients, sockets and epoll
are external; `GivesUp` says when a client may go away. A client that leaves while its request is queued or processed is
noticed by the socket armed in `ArmInput`, so that an event thread closes the session of a worker that a processor has. Two
things can then go wrong for good: another thread has an event of that worker in hand when the session is closed
(the cleaner may delete the worker under it), or the answer is armed on a descriptor that has a new connection
(finding 1). The history variable `race` records either, and nothing is claimed after it.

**PrivateData.** An object is the set of its places, the entries of its lists and its
shields; `shared` is the one the threads use and `next` the one a reload builds. `PrivateLoad`, and `ReadTable` table
by table (`PrivateConstData::Update`), apply rows through `DelLYPlace` and
`DoInsert` as the code does: a row may be disabled, replace a public place, lack a position
or have one that cannot be parsed, and a tour makes places of its own. Some places take data from others at the moment
they are read, and keep it (`Take`): a ticket the position of its view, a tour which of the places it names there are, a hotel the
time zone of its city; `Named` says which object they look into, the one being built or, through `LYConstData`, the one of the start
(`fixed`), which no update reaches. `cells` and `where`
are the two maps of the grid, changed by whichever object is being built. The two loads of
the start and the reloads interleave with rows that are written or deleted (`Change`, `Delete`); the window of an `Update` goes by
`utime`, so that it never sees that a row is gone. An `Update` may fail (`TableFails`).
Time stamps and locks are those of `HotUpdate`, so that here a reload simply reads the
changed rows.

**HttpClient.** The one thread of `doHttpRequest` with the kernel and the servers around it.
epoll keeps a list of sockets on which something has happened since they were reported
(edge-triggered) and of what each is watched for; a change of interest by `modEpollIn` reports
what is ready at once. `Servers` says what the server of a session may be: one that answers takes the request, sends
its answer and closes; one that hangs never does; one that breaks refuses, answers before it has the request, closes in the
middle of its answer or resets the connection, at any moment.

## 3. Runs

| Run | Instance | What it shows |
|---|---|---|
| `hot_update` | 2 threads, 1 table, 3 addresses, 2 seconds with 2 rows each | no thread is registered with a freed object, one version per request; rows committed while the updater polls, copies or reads are picked up (`NoRowSkipped`) |
| `hot_update_live` | 1 thread, 2 tables, one of them cleared and read whole, 2 addresses, 1 second, fair | published data loses no row, whatever fails, but for the cleared table (`NeverGoesBack`); a published version is adopted, requests end, with reloads of either table that skip the other |
| `linked_list` | 4 elements | both chains represent the list, after any calls |
| `wait_list` | 3 threads, 2 elements, all operations, fair | no lost wake-up, refinement of `TaskQueue`; a task is taken while somebody waits, a flush ends every call |
| `bag_pool` | 2 threads, 3 jobs, fair | no job freed in use, complete results; a search ends, deleting the pool ends |
| `day_search` | 2160 days of 3 places, one order or two kept | pruning loses nothing (`Optimal`), undo is exact (`Consistent`), a search cut short is `Sound`, `CalClash` is exact, every step advances |
| `path_pool` | 4 rich paths, 2 pools | objects are conserved, the merge has the best paths of each point set |
| `mq_server` | 2 processors, 3 requests, 1 break, 1 kill, fair | bounded backlog, a double answer only after a double delivery, nothing vanishes; every request is answered or dropped for a reason, a stop ends the server unless it waits for a message |
| `http_server` | 2 clients, of which one may leave while its request waits or is processed, 2 event threads, 1 processor, 2 descriptors and addresses, up to `race`, fair | no worker is deleted in use (`NoUseAfterFree`) or handled by two threads (`Alone`); a client gets its own answer (`OwnAnswer`), all of it (`Replied`); closed workers are deleted, and `stop` returns unless nothing ever comes to wake a thread that blocked just after its signal |
| `http_server_leave` | the same with clients that leave at any moment, and what comes after `race`; violation | finding 1 |
| `private_data` | 9 rows of all tables in 22 forms, 3 of them written or deleted | the lists per city hold what the maps hold (`IndexExact`), the grid what the newest object holds (`GridExact`), and after any updates the object is what a restart would load, and its tickets, tours and hotels have taken what they would then take (`SameAsLoad`), with the exceptions of section 5 |
| `http_client` | 2 sessions, a server that answers or breaks and one that answers or hangs, requests of 3 pieces, answers of 2, room for 2, fair | the count of open sessions and the sockets agree (`Accounted`), no event is lost (`NoLostEdge`), a result is all that the server has sent (`WholeAnswer`), the call returns if it has a timeout or no server hangs |

**Bounds.** Three addresses are one more than the invariant allows alive while the third is
allocated (current, and new or under construction), so a freed address can come back while
a stale pointer to it would still exist; the third seat is what an object that leaks would
occupy. Two seconds with a row before and after the poll cover both borders of a window
`utime >= a and utime <= b`; for several tables and any number of threads the four properties of
that run are proved. Three threads on a wait list let one block while another
puts and the third overtakes the woken one. Three jobs over two threads make one thread take two jobs
while the other is still at its first. A day of three places has every relation of two restaurants
and a view, every position of a missing leg that matters, and windows that are closed when
the place is reached; the call limit is lowered from 20000 to 7 so that both complete and
interrupted searches occur. Four paths, three with one key, overfill a heap of two in one
pool and across pools. `Factor` is 0 instead of 3, so that three requests fill the backlog; one of them has an
empty body. Two clients are enough for a descriptor and an address to change hands; one
request and one answer come in two parts, and the send buffer holds one. Three changes of rows
are enough for a row to change before, between and after the loads, or to go and come back.
Two HTTP sessions let one event interrupt the work on the other; a request of three pieces needs two
rounds through a buffer of two, with a partial write in the first, and an answer of two can be cut in the middle.

**Fairness.** Weak fairness of the steps of a thread says that the operating system runs it:
sleeps end, MySQL answers or fails, planning returns (it has a time limit). Strong fairness
is assumed for taking a lock that is free again and again: the read lock of `HotUpdate`
(the updater sleeps between two write locks), `_mutex` of the wait list and the producer's
mutex (no thread keeps them for ever). No fairness is assumed for requests, commits, the
clock, timeouts, failures, or `stop`. In `mq_server` a connection can be made again
after a bounded number of breaks. `HttpServer` needs only that some thread of the server runs while one
can, and that a client reads what has arrived. `HttpClient` assumes that a server that answers does so and
closes, as HTTP/1.0 has it, that one that breaks goes on until it has closed or the connection is reset, and that a timeout runs out.

**Deadlock** is checked except where the system may really stop: a pool whose
`pthread_create` failed, a server that waits for a message or a client, a database that nobody changes any
more, a call without a timeout to a server that hangs.

## 4. Theorems

Liveness and `ENABLED`, and what recursive definitions compute, are left to TLC. What follows
holds for every value of the constants that satisfies the module's assumptions: positive
numbers of threads and tables, finite sets of threads, null pointers that are no address.

**HotUpdateProofs.** `HInv` is inductive (`Invariance`); `TypeCorrect` (`TypeOK`), `MemorySafety`
(`NoUseAfterFree`), `LeakFreedom` (`NoLeak`) and `RequestIsolation`
(`OneVersionPerRequest`) follow. That no registered object is freed is not inductive:
the object is deleted after a scan of several steps, so `ScanInv` says that the threads
already passed do not use `cur`; that they cannot start to is `RegisterInv` (a thread
that is about to take `cur` has seen `new = NULL`, which `PhaseInv` excludes during a scan)
together with `LockInv` (no reader while the updater writes). The addresses are
distinct by `PhaseInv`, so deleting one does not hit another.
`Completeness` (`NoRowSkipped`) and `NoLoss` (`NeverGoesBack`) rest on `RowInv`: `TimeInv` says that no time
stamp is ahead of the clock, so that a row committed now is older than none of them; `BuildInv` says what
the object under construction has, table by table. The argument goes through the reload: before it the current object
has every row older than `lastTS`, its copy starts with them, the window of a table adds those from
`lastTS` to `newTS`, and what is published has every row older than `newTS`. `Consumed` names the time stamp
that counts in each phase. `incomplete` excuses a table whose read failed or broke off: by `NoRowSkipped` it may lack
rows, and by `NeverGoesBack` it may lose some if it is one of `Cleared`, but no other table may. That a complete
read of a cleared table loses none is `HeldInv`: no object holds a row that was not committed.

The same module proves what those objects hold: `PrivateIndexExact` (`IndexExact` of `PrivateData`), for any finite set of rows
and any order of changes, loads, reloads and failures. Exact lists alone are not inductive. `DelLYPlace` finds a place by
an id and a ptid among ten maps, erases by `getUniqId`, and removes the entries of the one place it has found; had a key two
places, the entries of the other one would stay. `Tidy` therefore adds that a key is one place's alone in its
map, and an id with a ptid one view's, restaurant's or shop's. `Lookup` says which map answers `GetLYPlace`, `FoundRow` and `ErasedOf` that what is found for a row is what is
erased, `Deleted` that afterwards nothing has the row's key (`Fresh`), so that `Inserted` adds a place and its entries together. `RowsRead` and
`CopySteps` carry `Tidy` through a load, a table and a copy of any length. It assumes what `IdAssumption` says of the ids:
a key made by the code ("coreHotel_x", "x_gather", id and ptid) is not the id of a row.

`PrivateGridExact` (`GridExact`) rests on it. Its invariant `GridInv` is stated key by key. While an object is
current the grid shows, at each key, the position in the newest object and remembers nothing else (`GridUpTo` with no
cells left from before). After the first of the two loads the newest object is not the one the grid was filled from: all that is
known is that the cells of a key are those where a load of the database puts it (`TopPos`), which the second load
finds, keeps and completes, unless a row of the key has changed in between (`moved`). That both loads agree is
`LoadAt`: of several rows at a key that of the last table wins (`LastWins`), in any order of the rows of a table, because table, id
and ptid are the key of a row (`StartAssumption`; a change keeps it). `ReadAt` and `RowsAt` say what a row and a series of rows do at a key,
`CopyAt` that a copy has the same place at every key. That `Tidy` holds in between is what makes `DelLYPlace`
clear exactly the cell of the place that it erases.

`PrivateSameAsLoad` (`SameAsLoad`) compares the newest object with a load of all the rows. Its invariant `SameInv` has two parts.
The object is `Whole`: the core hotels and the places to meet in it are exactly those of the rows in it. And every row `z` that no
load has missed and no change has touched since (not `Unread`) is `Settled`: of `z` the object has exactly what the database says, its
shields included, but for a city that is disabled. `RowStep` and `RowSteps` say what reading a row does to all rows,
`AfterLast` and `RowsSettle` that the last form read settles a row and that other rows leave it alone, `LoadSettles` and `CopyIsWhole` the
same of a load and of a copy. Two objects settled by the same rows have the same places (`SettledIsSame`, by `SamePlain`,
`SameCities` and `SameTickets`). A ticket needs the order of the tables: a load reads the views first, so a ticket that it skips
(`TicketSkipped`) has its view shielded or absent, and a visible one has its view (`ViewFound`).

The other half is what places have taken from others. `Right` is what a row takes when it looks into an object that says what the database
says and nothing else (`Ideal`). `TakenInv` says that, ids aside whose rows have changed since the start (`touched`), the object of the start agrees
with the database (`Fits`), and the places of the newest object have taken what is right. `NamedByRight` is the core: looking first
into the object being built and then, through `LYConstData`, into another one that fits finds what `Ideal` has, shields included. A load meets
its premise because views, restaurants and shops are read before the tours, and cities before the hotels (`LoadTakes`, on `LoadedBefore`),
an update because both objects fit (`ReadsTake`, for rows in any order); rows that are not read again keep what they took
(`TakenKept`), which a change of another row leaves right (`FitsElsewhere`).

The theorem assumes two things more of the ids: `TableAssumption`, an id is in one table (had it two, the table updated last would
win, and in a load the one read last), and `RefAssumption`, a ticket names a view, a tour views, restaurants and shops, a hotel a city.
`NoneAssumption`, NULL is no object, is there because `None` stands for both. The other two theorems use neither of the first two.

**WaitListProofs.** `WInv` is inductive (`Invariance`), with `WakeupSafety`, `Ownership`,
`Order`, and `Refinement`: the wait list implements `TaskQueue` under `queue <- list,
open <- alive`. `NoLostWakeup` counts: an element more in the list comes with a thread more
at its signal, a signal hands that place to a waiting thread, and a thread leaves only with
an element. `EntryInv` is what the mutex adds: the element read before is still the first one.
`Representation` (`LInv`) is about the pointers below: both chains represent `contents`. Its lemmas say what inserting and
removing does to the neighbours in a sequence; each operation changes four links, and each link is shown for the
element before, at and after the place of the change.

**BagPoolProofs.** `BInv` is inductive (`Invariance`); `JobSafety`, `CallerExclusion`,
`PoolPrivacy`, `Results` and `Cleanliness` follow. `JobInv` says where a job is, and that a
job in the queue or with a thread is not yet `done`, so that the caller, which has seen
`done` on all jobs (`CallerInv`), deletes none in use. `IdInv` makes the indices of
the pools distinct: `nextId` counts the threads that have one. `HeapInv` keeps every path
found in the pool its job remembers until the merge.

**DaySearchProofs.** For days of any number of places, any traffic, windows, penalties and heap limit: `DFSTypes`
(`DFSTypeOK`), `DFSConsistent` (`Consistent`), `DFSSound` (`Sound`), `DFSOptimal` (`Optimal`), `DFSAdvances` (`Advances`)
and `DFSClash` (`ClashExact`).

- `StackInv` is about the stack. `Consistent` is not inductive: that the totals after an undo are those of the shorter
  path needs every leg of the path to exist and the path to be the beginning of a possible order (`PathOK`), and that the meal
  put back is the one of the shorter path needs the `need` of every loop, not only of the innermost (`FramesOK`). `Clock`
  says that `late` and a call count above the limit are the same, so that the premise of `Optimal` excludes a search cut short.
- `SearchInv` adds the heap. `HeapInv` says that the heap holds judged orders, at most `topK`, with its hash set in step.
  `NothingLost` says of every possible order that the search has *passed* (the order leaves the current path at
  some loop, for a place that the loop is through with) that the heap keeps it: it is in the heap, or the heap is full of better ones. At
  the end everything is passed, and a heap that keeps all is the best of all (`KeptIsBest`).
- Pruning is the heart: `PruneHeap` shows for an order that continues the current path that its score is no better than the
  one `CanPush` has seen, because no total shrinks when a path grows (`SumsGrow`, `ScoreFalls`), that `CanPush` with
  clash 0 and no penalty for an early lunch is therefore optimistic, and that what it turns away is kept by the full heap (`TurnedAwayKept`).
- That `Push` takes no new order for a known one is `HashInjective`: the number per order of the model is injective.
- `DFSClash` compares the greedy `CalClash` with any timetable that can be kept, place by place (`TimetableStep`): `CalClash` is never later, and
  has the same meals left, or has had the lunch where the timetable had the supper, and then no lunch is open any more (`SameMeals`).
  `InOrder`, the premise of `ClashExact`, is what `BasePlan` provides with its lunch from 11 to 14 and its supper from 18 to 21 o'clock;
  a restaurant whose visit the user has timed keeps all its opening hours as both, and there the property says nothing.
- `DFSAdvances`: the loop variables are the digits of `Position`; every action raises a digit and changes only lower ones (`Onwards`, `Inwards`, `Outwards`).

The sums along a path, the clash and the hash are recursive functions over the positions of a sequence. What they compute
for every length is proved with `Recursion` (such a function exists and obeys its equation) and `Upwards`, both of which argue
over a set of numbers with its least element, so that no induction rule with a predicate as a parameter is needed.

**PathPoolProofs.** `PoolInv` is inductive (`PoolInvariant`) and gives `Conservation` (`Conserved`): `Balanced`
says that the addresses of the objects in use and on the free list are disjoint and together `1..born`, each once;
it needs `HeapsOK` (the hash set of a heap is the set of the hashes in its queue, no hash twice, never more than the
limit, so that what `Push` returns is exactly what leaves the heap) and `Apart` (the heaps of a pool, the day heap and the
day lists share no object). `BestKept` (`MergedBest`) is about content. Its invariant
`BestInv` says of every path joined so far that some pool's heap *covers* it: the path is in the heap, or the
heap is full of better ones (`Covers`). Every heap of paths seen so far that covers all of them has the best ones
(`HeapIsBest`), and a push keeps what was covered (`PushCovers`); during the merge a path is covered by the merged heap
or has still to be pushed (`MergeCovers`). That `top`, the worst path of a queue, exists rests on the well-foundedness of
a subset of a finite set. `BestKept` assumes `NoCollision`, that the orders of one point set have different hashes
(`SPathHeap::Push` takes a path for a known one by its hash); TLC confirms it for the jobs of the run.

**MQServerProofs.** `ServerInv` is inductive (`ServerInvariant`); `Backlog` (`BacklogBounded`), `AnsweredOnce`
(`AtMostOnce`), `Kept` (`NothingVanishes`) and `Exclusive` follow. `Stages` has the argument for the backlog:
`IsReady` looks at the length long before `submitWorker`, but the consumer alone puts, so the
length can only have shrunk. `OneCopy` says that a request delivered once is in at most one of five places: unsent,
with the broker, on its way to the queue, in it, with a processor before its answer; that is what makes the count of
its answers inductive across breaks and restarts. `PublishAlone` is the producer's mutex, freed on every way out of `Publish`.

**HttpClientProofs.** `ClientInv` is inductive (`ClientInvariant`), with `AllAccounted` (`Accounted`), `EdgesKept`
(`NoLostEdge`) and `AnswersWhole` (`WholeAnswer`), for servers that do anything. What is true of a truncated answer is
in the statements: a result above 0 is all that the server sent before it closed, and the whole answer if the server closes only then; and
an answer that comes early may leave a request unsent. `Transfer` relates the counters of a session to what the kernel and the server have of it. `Watched`
has the argument for the edges: a socket that is neither on epoll's ready list nor reported nor in the thread's
hands is not ready for what its session wants next, and a full send buffer has been hit by a failed write, so that
its room will be reported.

**HttpServerProofs.** `FrontInv` is inductive (`ShellInvariant`): until `race` is recorded `ShellInv` holds. It gives `SessionsAgree` (`HttpInv`), `NoDangling`
(`NoUseAfterFree`), `OneThread` (`Alone`) and `AnswerIsOwn` (`OwnAnswer`), for clients that leave at any moment; `RaceNeedsLeaving` says that
`race` needs a client that leaves between the end of its request and the first part of the answer (`SomeLeft`).
`Registered` ties session, descriptor, registration and worker together, `Events` says that an event of a worker is
reported or handled only while its one-shot registration is spent, unless its client has left while it waited (`Left`): the end of the
stream is then another event, and so may be the answer. A submission comes after the socket is armed again, but
then the client has nothing more to say. `Processing` says that a queued or processed worker is in one place, and its session
open or closed but not forgotten, and `Exchange` how far request and answer of a session are. `Addresses` shows that `new` finds an address;
it needs as many addresses as clients (`AddressAssumption`).

**Only model-checked:** all liveness. `AnswerDropped` is a violation. Conversely `LeakFreedom`, `Ownership`, `Order`,
`CallerExclusion`, `PoolPrivacy`, `Cleanliness`, `Exclusive` and `SessionsAgree` are proved and in no run.

## 5. Findings

1. `QueryProcessor::writeResponse` means to do nothing when the connection is closed ("socket断开 什么都不做",
   `QueryProcessor.cpp:73`) and tests `m_socket < 0`; nothing ever makes it negative. A client that leaves after its
   request has its session closed, the next connection gets the descriptor, and the answer is armed on, and
   sent to, that connection. The other window that such a client opens is a session that one event thread closes while another has an
   event of its worker in hand: held up, say, between arming the socket and `submitWorker` for as long as the
   cleaner takes to run, the latter uses a worker that is deleted. `OwnAnswer`, `NoUseAfterFree` and `Alone` therefore hold until one of the two happens (`race`).

Disagreements that no run is kept for, each visible in the model:

- `stop()` of the hot update, called after `run()` but before the new thread executes the
  first statement of `svc` (`MJHotUpdate.cpp:290`, `m_status = 1`), is overwritten: the
  loop goes on and `stop()` stays in `pthread_join` (`SvcStart`). The header says of it "停止轮询".
- `PPViewUpdate::reloadData` (`MYHotUpdate.cpp:27`) publishes the new object although the
  `Update` of a table failed (`TableFails` of `PrivateData`, `UpdateFails` of `HotUpdate`); the header asks that a failed reload destroys its data
  (`MJHotUpdate.h:111`). The window of the failed table is not read again.
- `LoadPrivateSource` clears the names of the sources before it fetches the first row (`PrivateConstData.cpp:1198`),
  and the end of the rows and a broken connection look the same to it: a reload may publish fewer sources than
  requests had before. This is the exception of `NeverGoesBack`; the next change of the table repairs it.
- A city that is disabled stays until a restart (`PrivateConstData.cpp:553` skips disabled rows), a shield is
  never taken back, a ticket read before its view stays away, and a row that is deleted stays until a restart, since an `Update` selects
  by `utime`: the exceptions of `SameAsLoad`. Its other exception is stale data. A ticket keeps the position of its view
  (`PrivateConstData.cpp:924`), a tour its related places (`:889`) and a hotel the time zone of its city (`:1063`) until its own row is
  read again, whatever becomes of the other row; and even then a hotel finds the city of the start, because `LYConstData::getCity` looks
  into `m_privateConstData`, which is never updated (`Named`). A row that changes
  between the two loads of the start stays in its old cell too: the exception of `GridExact`.
- `doHttpRequest` takes `read() == 0` for the end of an answer (`SocketClientEpoll.cpp:383`) and does not compare its length with
  Content-Length: a server that dies in the middle of an answer leaves a result above 0 that is not the whole answer (`ReadEnd`, second
  conjunct of `WholeAnswer`). An answer that comes before the end of the request drops EPOLLOUT (`SocketClientEpoll.cpp:394`), and the
  rest of the request is sent no more (`ReadEmpty`, the exception of `NoLostEdge`). When `epoll_create` fails, the call returns -1 and
  leaves every session at -1, which no other return does (`CreateFails`, the last conjunct of `Accounted`).
- `doHttpRequest` takes whole milliseconds off its timeout after every event (`SocketClientEpoll.cpp:415`), so that
  events less than a millisecond apart use up none of it. The model has no clock: a timeout comes when nothing is ready.

## 6. What is not modelled

- The numbers of planning: `MyCluster`, scores of `RouteSearch`, ranking. Floating-point heuristics
  whose results no document specifies.
- `ReqParser`, `ReqChecker`, `DataChecker`, `PostProcessor`: JSON to structures and back, with no
  state that outlives a request.
- `LYConstData` and the configuration: loaded before the threads start and not written afterwards,
  except `m_gridMap`. That requests read it without a lock while a hot update changes it is listed
  among the hazards; the outcome of that race is undefined, and `PrivateData` has no readers.
- Redis, SSDB, MySQL and the older socket wrappers: input and output. The traffic lookups above them are sequential.
- POST bodies and a second request on one connection of the HTTP server, and a failing `epoll_ctl` or `accept` other than
  for want of descriptors.
- Ids of private places that coincide with other ids, or with the keys that the code makes, one id in two tables, and tickets,
  tours and hotels that name something of another kind (a view; a view, a restaurant or a shop; a city): `IdAssumption`, `TableAssumption` and `RefAssumption` of `PrivateData` exclude them.
- The tags of places, which are filtered by the tables of tags as they are when the place is read (`PrivateConstData.cpp:994`), and what
  `FillInfo` copies from the public data, which does not change. A tour names at most one place, and the public data have views only:
  a city that is not in the private database gives a hotel nothing, where the code takes the public city, which never changes, or the time zone 8.
- The boost, json, protobuf and other vendored libraries under `common/src/share`.
- `http/` and `threads/` at the root: older copies that the server does not build.
- The Python log tools.

In the modelled parts the following is abstracted: in `HotUpdate` a data object is the set of rows it has read, in
`PrivateData` its places; a position is its cell; a path found by a job is the job (`BagPool`) or its keys of comparison
(`PathPool`); the hash of an order is free of collisions within a day (`HashInjective` is about the model's hash, the code's may collide); a message, a request or an answer is its name or
a number of pieces.

## 7. Plan

1. **Action properties of the servers**, from the invariants at hand: that `sess` of `HttpServer` is closed once, that a result
   of `HttpClient` is final, that an acknowledged request of `MQServer` never returns to the broker.
2. **Planner dispatch** (`Processor`, `Planner`, `Route`) with its early returns, `BagPlan`
   as far as timeouts and blocks go, and the **time arithmetic** of `PathGenerator` as operators against a reference.
