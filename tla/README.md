# World Wind Java: the data pipeline in TLA+

NASA World Wind Java draws a virtual globe from imagery, elevations and place
names that it fetches piece by piece while the user moves about. This directory
models the part of it that is concurrent: the caches, queues and thread pools
between the rendering thread and the network. TLC checks the models on small
instances; TLAPS proves the main safety properties for every size.

Paths below are relative to `src/WorldWind/src/gov/nasa/worldwind/`.

## The system

| Component | State | Operations | Interacts with |
|---|---|---|---|
| Memory cache (`cache/BasicMemoryCache`) | entries, used capacity, capacity, low water level, listeners | add, remove, getObject, clear, setCapacity, setLowWater | every tile, elevation, file store and GPU cache is one; its listeners free textures |
| Retrieval service (`retrieve/BasicRetrievalService`) | unbounded priority queue, activeTasks, a thread pool, futures | isAvailable, runRetriever, contains, setRetrieverPoolSize, shutdown, the executor's hooks | layers, elevation models and file store submit; its workers call the retrievers |
| Task service (`util/ThreadedTaskService`) | bounded FIFO queue, activeTasks, a thread pool, interrupt flags | addTask, isFull, contains, shutdown, the executor's hooks | the rendering thread submits tile requests; tasks submit to the retrieval service |
| Absent resource list (`util/AbsentResourceList` on `cache/BasicSessionCache` and `util/BoundedHashMap`) | tries and time of the last failure per resource, three settings | isResourceAbsent, markResourceAbsent, unmarkResourceAbsent, the setters | asked before a request is made, told by tasks and post-processors |
| Network status (`util/BasicNetworkStatus`) | failed attempts per host, time of the last test | logUnavailableHost, logAvailableHost, isHostUnavailable, isNetworkUnavailable | layers and stores ask, retrievers report |
| Retrievers (`retrieve/URLRetriever`, `HTTPRetriever`, ...) | retriever state, buffer, progress | call, setState | run on the retrieval service's workers, call a post-processor |
| Post-processing (`retrieve/AbstractRetrievalPostProcessor`) | none of its own | run, handle... | saves files, marks resources absent |
| Data file store (`cache/BasicDataFileStore`, `AbstractFileStore`) | files, DB entries in a memory cache, an absent resource list | requestFile, removeFile, getLocalFileUrl | memory cache, retrieval service |
| Tiled image layers (`layers/BasicTiledImageLayer`), elevation model (`terrain/BasicElevationModel`) | tiles in memory, request queues, level sets with absent resource lists | request, load, retrieve | all of the above |
| GPU resource cache (`cache/BasicGpuResourceCache`) | a memory cache of textures and buffers | put, get, remove, clear | disposes OpenGL resources in a listener |
| Scheduled task service, bulk download, session cache clients, raster server cache, shape data cache | see `PROJECT.json` | | |
| Rendering, geometry, views, formats, OGC, symbology, applications, Android port, GDAL | sequential drawing, floating-point geometry, parsing, vendored code | | not modelled |

A tile's way through it: the rendering thread does not find a tile in the memory
cache, asks the absent resource list, and adds a request task to the task
service. The task looks for the tile's file; if there is none it asks the
retrieval service whether it is available and submits a retriever. A retrieval
worker runs it; its post-processor saves the file or marks the tile absent. The
next request task reads the file and adds the tile to the memory cache.

What makes this hard:

- every queue is looked into by one thread and changed by another, and the code
  uses a different lock for each piece, or none;
- duplicates are filtered by looking first and adding later, in two places each;
- both executors keep their own list of active tasks, compared with `equals()`,
  while workers add to it and remove from it;
- values are read before a lock and used inside it (the cache's capacity), or
  checked once and re-read in a loop;
- failures are counted by threads that began before the limit was reached;
- a file is found, checked, read and deleted by one task while another one's
  download writes it, under a lock that only two of these take;
- a pending request is remembered in a cache that may forget it, and the request
  itself may be lost, fail half-way, or outlive the session as half a file;
- shutdown, resizing and settings come at any moment.

## Modules

`MemoryCache` models `BasicMemoryCache`. `entries`, `usedCapacity`, `capacity`
and `lowWater` are the fields; `lock`, `pc` and `call` are the monitor, and where
each thread stands in `add()` with which arguments. `add()` is cut at each access
to state that another thread can change meanwhile: reading the capacity
(`AddReadCapacity`), stamping the entry (`AddNewEntry`), entering the lock and
replacing (`AddEnter`), `makeSpace()`'s check (`MakeSpace`) and each turn of its
loop (`Evict`, `EvictDone`), charging (`AddCharge`) and storing (`AddStore`).
The operations that hold the lock throughout are one action each, and
`setCapacity()` and `setLowWater()` may happen between any two steps, as they take
no lock. `unreported` is history: for each key and object, how many more `add()`s
have returned true than removals were reported to the listeners (`Report`). Sizes are
counted as sets of cells (`UnitsOf`), so that the provers can add them up. What
clients may add is the set `Additions`; an object may be added while it is cached,
under its key or another, as `layers/TextureTile.updateMemoryCache()` (lines 315-319)
does. Times are told apart up to `MaxTime`; equal stamps are allowed and
`LeastRecentlyUsed` then leaves the choice open, as the sort of equal elements of
a concurrent map does.

`ThreadPool` states what the services rely on in
`java.util.concurrent.ThreadPoolExecutor`, which is not part of the repository:
threads are started up to the core size even if others are idle, workers take
tasks, call the hooks around each and leave when the pool is shut down or when they
are more than the core or the maximum size. It follows the JDK of the code's time, in
which `setCorePoolSize()` accepts a core size above the maximum; newer JDKs throw.

`RetrievalService` and `TaskService` extend it with the queue, `activeTasks`,
the clients inside the synchronized submission, and the hooks. A task's worker
passes the stages begin, register, run, call, after: looking for a duplicate and
adding to `activeTasks` are two steps, because nothing makes them one.
`activeTasks` is a list of tasks compared with `equals()`, so a count per URL or
tile says all that can be observed of it. The order of the retrieval queue depends
on submission times and on priorities the clients choose, so any queued task may
be the next; the task service's queue is first in, first out. A request becomes
stale (`Age`) at any moment while it waits. `setRetrieverPoolSize()` is two actions,
`SetRetrieverPoolSize` for the core size and `SetMaximumSize` for the maximum: in
between, the threads an enlarged core has just started are above the maximum and may
leave again. One call is under way at a time. The body of a retrieval or of a task is
the stage call, which ends at any moment, normally or not.

`AbsentResources` models the list together with the threads that use it, because
the hazard is the long attempt between asking and marking. `order` is the
insertion order of the bounded map, `age` the time since a resource's last mark;
times above every interval are not told apart (`MaxAge`). A client that gives up
tells the list nothing, as an interrupted post-processor does. The history
variables `failures` and `quiet` count failures and the time since the last one
independently of the entries. Time only advances; a system clock that is set back
would lengthen an absence, and nothing in the code limits that.

`NetworkStatus` models `BasicNetworkStatus` with the clients between asking
`isHostUnavailable()` and reporting. `hostMap` holds a `HostInfo` per host, with the
limit and the interval in force when it was made; times are ages, counted up to
`MaxAge`. `isNetworkUnavailable()` is cut at its network tests (`BeginTest`,
`TestServer`, `TestSites`), which run while the object's monitor is held: nobody
asks or reports then, but setters and clock go on. What the server and the test
sites do is the environment. `announced`, `failures` and `quiet` are history: what
the listeners were told, the failures reported since the host's last success or since
it was last let through after its interval (`Tried`), and the time since the last of
them, counted independently of `hostMap`.

`RequestService` is what both services promise: a request waits, is executed at
most once or dropped, and is then over; so many are executed at a time.
`RetrievalService` and `TaskService` are shown to implement it
(`ImplementsRequestService` in each), a request's status being read off the queue,
the workers and its future (`RequestStatus`), or off the queue, the workers and the
client inside `addTask()` (`TaskStatus`). The modules below use it in place of the
detailed retrieval service.

`Download` is the way of a request through it: `URLRetriever.call()` with its
outcomes, the post-processor that runs in each, and `WWIO.saveBuffer()` cut into
opening (which empties the file), writing and failing. A file is "none", "empty"
(incomplete), "torn" (opened by two) or "full"; a download whose file is deleted
under its hands goes on writing to nowhere ("lost"). Which failures happen is left
open and counted by the modules that extend this one (`Fault`, at most `MaxFaults`
in one execution), so that liveness can say "once the failures cease".

`FileStore` composes `Download` with `BasicDataFileStore`: `db` holds the entries
(pending or local, with or without a URL, old or not), `absent` the addresses the
absent resource list would refuse now. `requestFile()` is synchronized and is one
action per outcome (`FindLocalFile`, `MakeLocal`; in the remaining cases it changes
nothing). Whether a saved file is found again depends on the address (`Found`): those
in `Hidden` are saved where `getLocalFileUrl()` does not look, in a temporary file
(`cacheRemoteFile` false, lines 349 and 475-478, or too long a path) or under a name
with a second suffix (line 361). Adding an entry may evict any others, as their sizes are the lengths of
the addresses. The post-processor's ways to save, to mark absent or to do neither
are an action each. `Restart` keeps the files and nothing else.

`TileLoading` composes `Download` with the request tasks of `BasicTiledImageLayer`.
A task finds the file, asks whether it has expired, reads it under `fileLock`,
unmarks or deletes it, and requests it, in steps of their own, since other tasks
and downloads run in between. `fileLock` is held by the download that is writing
(`FileLockIsFree`). The task service may let a second task for the same tile pass,
as `TaskService` shows; that, expiry and restarts count as faults. `damaged` records
where a write was left half-done.

The network status, the absent resource list and the task service enter these two
modules as the choices they offer (a host may be unavailable, an absence ends, a
task is run), which their own modules justify.

`MCMemoryCache`, `MCRetrievalService` and `MCTaskService` give the constants that a
configuration file cannot. Definitions whose comment says "Mutant of ..." are
plausible mistakes, kept to show that the properties notice them.

## Runs

| Run | Instance | Shows |
|---|---|---|
| `MemoryCache` | 2 threads, 3 keys, 2 objects, five kinds of additions with sizes 0 to 2, capacity 2 set to 1 or 3, low water 1 set to -1 (refused) or 0 | used capacity is the total size, the listeners hear of each addition once, `makeSpace()` is stuck only for an object that no longer fits, a capacity never lowered is respected, and then the lock is always released |
| `MemoryCacheSpin` | 1 thread, capacity lowered from 2 to 1 | violation: `add()` never ends |
| `RetrievalServiceSafety` | 2 clients, 2 workers, two requests for one URL and one for each of two others, queue size 1, pool size 0 (refused), 1 or 2 | no duplicates in the queue, overrun by one at most, `activeTasks` agrees with the workers, no queued request without a thread |
| `RetrievalServiceShutdown` | 1 client, 2 workers, 3 requests, shutdown of either kind at any moment | futures settle, the shutdown ends, nothing left in `activeTasks`; the service implements `RequestService` |
| `TaskServiceSafety` | 2 clients, 2 workers, 3 equal tasks and 2 others, queue size 2, shutdown of either kind | queue bounded although tasks overflow it, no duplicates in it, no leftovers in `activeTasks`; the service implements `RequestService` |
| `TaskServiceLiveness` | 1 client, 2 workers, 2 equal tasks and another, queue size 1, shutdown of either kind | queued tasks end, `activeTasks` empties again |
| `TaskServiceActive` | 1 client, 2 workers | violation: an executing task is not in `activeTasks` |
| `AbsentResources` | 2 clients, 3 resources, list of 2, limit of tries 2 set to 0 or 1, check interval 3 set to 1, try-again interval 3 set to 1 and back, times up to 4 | tries bounded, attempts keep their distance, no absence lasts for ever |
| `NetworkStatus` | 1 host, 2 clients, limits 0 (refused), 1 or 2, retry interval 0 or 2, check interval 2 | refused hosts are announced, attempts keep their distance, hosts are tried again, outage and recovery are noticed |
| `FileStore` | 2 files, one of them hidden once saved, 2 downloads, 2 entries (with evictions), 3 faults, restarts | no request is repeated within the timeout; every file becomes local once the failures cease, unless it is saved over and over without an entry |
| `FileStoreIncomplete` | 1 file, 1 download, 1 fault | violation: an empty file is returned as the retrieved one |
| `TileLoading` | 1 tile, 2 tasks, 2 downloads, 3 faults, restarts | the lock shows whole files only, unless a write failed; a tile in view is loaded again and again |

The bounds are the smallest at which the cases of interest occur: two threads
inside or around one lock; an addition that meets two cached entries, of which it
replaces one and evicts the other, or evicts both; an object that is added again
under its key, and one under two keys; a pool that is enlarged with requests queued,
and one that is made smaller with both threads alive; two duplicates in the pool while a third is
submitted; a queue that is full, a list that ejects; two tasks and two downloads
for one file while a third party deletes it; a failure, a failure while recovering
from it, and one more. The two intervals of the absent resource list move past each
other in both directions, since the code relates neither to the other. Tiles share nothing but threads and the lock, so one tile
with two of each is enough (the safety properties were also run with two). The
retrieval and task runs
submit a finite set of requests, each once, so an execution may end there and
deadlock is not checked for them; that a shutdown or a queued task gets stuck is
excluded by the liveness properties instead. Nor is it checked for `FileStore`,
which comes to rest when all files are local. Symmetry is used in
`RetrievalServiceSafety` and `TaskServiceSafety` only, which check no liveness.

Fairness: a thread inside the cache's lock is scheduled by the JVM
(`WF` of its steps); a worker of a pool goes on with its task, and the task's body
ends, because `URLRetriever` sets a connect and a read timeout (lines 316-317) and
the tasks are finite computations; time passes. For the network status,
`NetworkCheckThread` asks once in a second, and the tests have timeouts. For the
file store and the tiles, the application asks for what it shows in every frame:
each rendering pass calls `requestFile()` or requests the missing tiles again. For the
file store this is strong fairness of `RequestFile`: a hidden file that is downloaded
over and over takes a download of the model now and again, but the service's queue has
room for far more than the two, so it does not keep another file out for ever. That
the retrieval service gets to each request and that an absence ends is what
`EveryFutureSettles` and `AbsenceEnds` show of those components. Otherwise clients,
applications and administrators are never obliged to do anything, and no fault is
obliged to happen or not to happen as long as there are fewer than `MaxFaults`.

### What the code says and does not do

- `MemoryCacheSpin`: `makeSpace()` (line 383) compares the space needed with the
  capacity once; its loop (line 390) reads the capacity anew. If `setCapacity()`
  lowers it in between, the loop empties the cache and then spins, holding the
  lock. Its comment says it does nothing in that case.
- `TaskServiceActive`: `beforeExecute()` does not add a duplicate to
  `activeTasks`, but `afterExecute()` removes one element for it all the same, and
  that is the element of the task that is still executing.
- `FileStoreIncomplete`: `WWIO.saveBuffer()` means not to "leave behind incomplete
  files", but deletes the file only if a byte has been written. Opening it has
  emptied it already; a disk that is full at the first byte leaves an empty file,
  and `BasicDataFileStore` makes it a local entry. A tile's file in that state is
  deleted by the next task that fails to read it (`TileIsLoaded`); the store's is not.

Smaller ones are visible in the models without a run of their own:

- memory cache: `setCapacity()` removes nothing although its documentation says so,
  which is why `WithinCapacity` speaks of a capacity never lowered. An object that is
  added again under its key, or under a second one, is reported to the listeners as
  removed although it is in the cache (lines 252-256 and 264); `OneReportPerAdd` counts
  reports per addition for that reason, and a listener that disposes what it is told
  of, as those of `BasicGpuResourceCache` (line 62) and `CachedDataRaster` (line 89) do,
  relies on its clients not to do so;
- retrieval service: the "maximum queue size" is only asked for, which is why
  `QueueOverrunBounded` allows for the clients; a request submitted after
  `shutdown()` reaches the rejection listener that "is never invoked", which is why
  `EveryFutureSettles` excepts rejected tasks; and `beforeExecute()` looks for a
  duplicate and adds the task in two steps, so two workers can retrieve one URL at
  once, although URL equality is there "to filter out duplicate retrieval requests"
  (`URLRetriever` lines 525-526), which is why `RequestService` promises nothing of it;
- absent resource list: the limit is compared with `>`, so the default of 3 tries
  allows 4 (`TriesBounded` says so); the unit test marks often enough not to notice;
- network status: a host is unavailable when its failures reach the limit (`>=`),
  where the class comment says "exceeds"; `isNetworkUnavailable()` looks back 10
  seconds, not the "previous five seconds" of `NetworkStatus.java` line 66; and
  `isNetworkUnavailable(long)`, documented to return false if the network "has been
  reached in a specified time" (line 78), returns an earlier negative result when a
  success was logged and then a failure (lines 295-298 of `BasicNetworkStatus`).
  The monitor is held during the network tests, so that retrievers wait to report.
  And when the interval has passed `isHostUnavailable()` sets the count of failures to
  0 (line 260), so the host is refused again only after as many failures as at first,
  although by `NetworkStatus.java` lines 25-26 "if the host is once more logged as
  unavailable, its entry returns to the unavailable state". With a limit above one,
  the default being 7, clients are let through at once after the first failure of the
  new trial; `NoEarlyAttempt` counts failures from the beginning of the trial and so
  says nothing against it;
- file store: `updateEntry()` given no URL makes the entry local, then throws, and the
  exception is dropped: `requestFile()` returns null for as long as the entry is kept,
  although lines 45-46 mean to allow "additional attempts after 60 seconds"; this is
  the first exception in `BecomesLocal`. DDS images are saved by `saveDDS()`
  (`AbstractRetrievalPostProcessor` line 585) without `updateEntry()`, so that only the
  file itself can tell the store of them; requested with `cacheRemoteFile` false, or
  from an address with another short suffix, they are not found, and are downloaded
  and saved again after every timeout without `requestFile()` ever returning a URL.
  The same happens to any such address whose entry is evicted during the download. This
  is the second exception (`SavedUnseen`); without it TLC finds `BecomesLocal`
  violated. `removeFile()` does nothing once the entry is
  evicted, and throws for one that is pending;
- image layers: two tasks for one tile could go on deleting each other's fresh file
  if duplicates never ceased; `TileLoading` counts double tasks as faults.

## Proofs

`MemoryCacheProofs` proves, for all threads, keys, objects, sizes and capacities,
`Spec => []TypeOK`, `[]UsedIsTotalSize`, `[]WithinCapacity`, `[]StuckOnlyIfTooLarge` and
`[]OneReportPerAdd`. Only the first is inductive. The invariant `IInv` adds that the lock belongs to the one thread
at an inside step (`LockInv`), so only one `add()` can be between its charge and
its store; that the key it adds has no entry (`KeyIsFree`), so that
`putIfAbsent()` stores it and the charge is matched; that the units are finitely
many; and what `add()` knows of the capacity at each step (`CapacityInv`): the
capacity it read is at most the current one, its object fits it, and when it
comes to charging there is room. The lemmas on `UnitsOf` say what removing,
storing and using an entry do to the total. `StuckOnlyIfTooLarge` is a consequence:
with no entry left the accounts say that nothing is used, so only the free capacity
can keep the loop going. It is the safety half of `LockIsReleased`, and shows that the
race of `MemoryCacheSpin` is the only way into that loop. `OneReportPerAdd` is inductive
relative to `IInv`: an `add()` that returns has stored its entry, because its key was
free (`KeyIsFree`), and every way an entry leaves the map reports it. No assumption is
made on which objects are added under which keys, or how often. The assumptions are that
sizes and capacities are naturals and that `Null` is no entry.

`RetrievalServiceProofs` proves, for all clients, workers, requests, URLs and
sizes, `[]TypeOK`, `[]NoDuplicateQueued`, `[]ActiveMatchesRegistered`,
`[]QueueOverrunBounded` and `[]QueueIsServed`. `NoDuplicateQueued` needs that the monitor is held by the
one client inside `runRetriever()` (`MonitorInv`) and that what it found out about
the queue still holds when it submits (`QueueStillFree`): others only take tasks
off the queue meanwhile. The overrun bound is inductive once the clients that were
told "available" are counted with the queue (`OverrunInv`): each of them can add
one task, and the first to be told was told with room for one. `QueueIsServed` needs
that a stopped pool has no queue (`ServedInv`): then a worker that leaves others
queued leaves a pool that is larger than its core or its maximum size, and so not
empty; both sizes are positive, also between the two steps of a resize. The assumptions
are finite sets of workers, tasks and clients, and positive sizes.

The module also proves that the service implements `RequestService`, for
all clients, workers and requests. Its invariant is `PlaceInv`: a request is either
not yet submitted, or in the queue, or with exactly one worker, or over, and its
future agrees. From it, each step of the service is a step of the abstract one or
leaves every status alone: only `Run` starts, only `CallEnds` ends, stale, duplicate
and cancelled requests are dropped, and a request that is over is never taken again.
The bound on executions follows from one request per worker.

`TaskServiceProofs` proves `[]TypeOK`, `[]NoDuplicateQueued`, `[]ActiveNotStale` and the
refinement of `RequestService` for all clients, workers, tasks and queue sizes. The
argument is that of the retrieval service, with two differences. The queue is a
sequence, so a task's place in it has to be followed from position to position when
the head is taken. And `activeTasks` may hold fewer elements than workers execute,
never more: a duplicate adds none and removes one all the same, so what is inductive
is the inequality `ActiveNotStale`, where the retrieval service has an equation. A task
has no future that would remember its end; `PlaceInv` therefore speaks of the set of
submitted tasks, of which each is with the client inside `addTask()`, in the queue,
with one worker, or nowhere.

`AbsentResourcesProofs` proves `[]TypeOK`, `[]TriesBounded` and `NoEarlyRetry` for all
resources, clients, capacities and settings. The list is a sequence without duplicates
(`ListedOnce`), whose lemmas say what removing, appending and ejecting the eldest do to
its elements and its length; without them an ejection could leave a second entry
behind, and the list could not be shown to keep to its capacity. `EntriesAreTrue` ties
the history to the entries, and `MaxTriesWasSet` the present limit to the ones ever
set. `NoEarlyRetry` speaks of resources with a failure on record. Without that
condition it would be false: an entry that expired under a short try-again interval is
gone, and raising the interval afterwards does not bring the absence back. The run's
settings make that happen.

`NetworkStatusProofs` proves `[]TypeOK`, `[]UnavailableIsAnnounced` and `NoEarlyAttempt`
for all hosts, clients and settings. `AnnouncedInv` drops the clock from the first:
a host at its limit has been announced even when it may be tried again, since it
could be refused again later without an announcement. `CountInv` ties the history to
the `HostInfo`: its age is the time since the last failure, and it has counted every
failure since the host was last let through, up to its limit.

`DownloadProofs` has the lemmas on the steps of a download that the next two share:
a request has a target exactly while it waits or runs, and a phase while it runs.

`FileStoreProofs` proves `[]TypeOK` and `NoEarlyReissue` for all files and downloads.
The invariant adds that the entries are finitely many, so that adding one after the
evictions keeps to the size; every step but `MakeLocal` gives no request a new
target, and `MakeLocal` needs an entry that is missing, local or old.

`TileLoadingProofs` proves `[]TypeOK` and `[]IncompleteOnlyIfDamaged` for all tiles, tasks
and downloads. The invariant says that one download at a time is between opening and
closing (`LockInv`), and that an incomplete file is being written by it or is
damaged, and none is torn (`FileInv`); deleting a file without the lock keeps it,
because the writer is then "lost" and can no longer make anything of the file.

The assumptions are, beside those named above, finite sets of clients, requests and
loaders, placeholders outside the sets they stand in for, and settings in range.

Only model-checked: everything about liveness and fairness, which the prover does
not handle: `LockIsReleased`, `EveryFutureSettles`, `ShutdownEnds`, `QueuedTaskEnds`,
`ActiveEnds`, `AbsenceEnds`, `HostIsTriedAgain`, `OutageIsNoticed`, `RecoveryIsNoticed`,
`BecomesLocal` and `TileIsLoaded`. Every invariant and every action property that a
passing run checks is also proved.

## Plan

The modules planned at the start are written: memory cache, retrieval service, task
service, absent resource list, network status, downloads, file store and tiles, and
the safety properties of their runs are proved. Left to do are the safety halves of
further liveness properties, as `StuckOnlyIfTooLarge` and `QueueIsServed` are of
`LockIsReleased` and `EveryFutureSettles`: for the task service, that a queued task has a
thread; for the file store and the tiles, that no state is left from which a file or
a tile can only wait.

## Not modelled

- The elevation model's request tasks have the shape of `TileLoading`, except that
  they look into memory first and mark the resource absent after a corrupt file; what
  is their own is interpolation, in floating point.
- The GPU resource cache is a memory cache with a disposing listener; what it needs
  is `OneReportPerAdd`. The scheduled task service has the hooks of the task
  service over another executor. The bulk downloader and the session cache clients
  are loops of one thread over the retrieval service.
- Locks of other processes on a file: `saveBuffer()` of the post-processor ignores
  that `tryLock()` may return null, and two programs on one cache directory are not
  modelled. Nor is `forceTextureLoad()`, which loads on the calling thread.
- Rendering, geometry, views and level arithmetic (floating point, one thread),
  parsers and formats (sequential conversion), and the order of the retrieval queue
  (`compareTo()` reads the clock and is not transitive).
- The native code in the repository is a vendored copy of GDAL and its drivers,
  third-party code that World Wind calls to decode rasters; it is left aside, with
  the example applications, the Android port of the same classes and the WMS server.
