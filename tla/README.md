# PluginManager in TLA+

PluginManager is a server process: it loads plugin libraries, each of which
registers callbacks under method ids; clients send JSON requests over ZeroMQ;
a pool of task threads runs the callback a request names and sends the result
back.  This directory holds a TLA+ model of it - its concurrent core, the
loading of its plugins, and the data structures below (memory pool, JSON
documents, locks of the log) - the TLC configurations that check it, and TLAPS
proofs of the properties that matter most.  Line numbers refer to the sources
of the repository.

## 1. Inventory

| Component | State | Operations | Talks to |
|---|---|---|---|
| `ZMQService/` net service | `m_started`, four `m_zmq*` handles, `m_sendMsgList`, two mutexes, the event pipe, the dispatch thread | `start`, `stop`, `sendMessage(remoteId, ...)`, `dispatchLoop`, `recvMessage`, `sendMessage()`, `closeHandle` | calls `onRecvMessage`; is called by task threads and the main thread |
| `Thread/` task threads | per thread: `m_bExit`, `m_recvMsgList`; the vector of threads; function statics | `init`, `stopAllTaskThread`, `release`, `insertOperateData`, `run`, `disposeOperateData` | fed by the dispatch thread; calls registry, plugin callback, net service, buffer pool |
| `Global/NDPluginManagerGlobal` | pointers to the other components, configuration, map of loaded libraries | `init`, `release`, `loop`, destructor, `loadConfig`, `sortPlugin` | creates and destroys everything else |
| `DataProcess/` registry | `m_CallBackMap` | `registerCallBack`, `unregisterCallBack`, `getPluginDataProcessBase`, `process` | called by plugins (any thread) and task threads, no lock |
| `DynamicLoad/` | library handle, three function pointers | `initLibrary`, `load`, `init`, destructor | calls plugin code, which calls the registry |
| `CInterface/` | none (a table of C functions) | `regDataProcess`, `unRegDataProcess`, `gMalloc`, ... | forwards plugin calls |
| `Common/NDBufferPool` | tiny, small and medium free lists, byte counter, a lock | `malloc`, `free`, `realloc`, `flushPool` | called by every thread |
| `Common/CriticalSection.h` | a lock | `GuardLock` | everywhere |
| `CJsonHelper/` | a cJSON tree and two maps of wrappers of its items | `parse`, `get`, `set`, `del`, `append`, `operator[]` | used by all |
| `CJsonHelper/cJSON/` | doubly linked lists of items | create, add, insert, detach, replace, delete, duplicate, sort, print, parse, compare, pointers, patches | called by `CJsonHelper` |
| `ThirdParty/` log4cplus, ZeroMQ | counts and semaphores of a reader-writer lock, an event, a fair mutex; the rest is in prebuilt libraries | `rdlock`, `wrlock`, `signal`, `wait`, ...; `zmq_*` | the log calls of every thread; the net service |

Three kinds of threads meet: the *main* (controlling) thread, which runs
`init()` and would run `release()`; the *dispatch* thread of the net service;
and the *task* threads.  A request travels

    client -> ROUTER -> dispatch thread (recvMessage, onRecvMessage)
           -> m_recvMsgList of one task thread, chosen by a hash of the client id
           -> disposeOperateData, callback, sendMessage(remoteId, ...)
           -> m_sendMsgList, and one event on the inproc pipe
           -> dispatch thread (sendMessage()) -> ROUTER -> client

What is hard in it: replies and the events that announce them move under two
different locks; the event pipe is bounded and `zmq_send` blocks; the dispatch
thread restarts the service from inside itself; sockets are closed by one
thread and used by others; the exit flag of a task thread is written from two
sides; a function-level `static` freezes a pointer that start-up order has not
filled yet; order per client rests on a hash; the registry has no lock and its
records are freed while others may hold them; a JSON document and the maps that
cache wrappers of its items are changed separately; a lock is built from two
counts and two semaphores whose waits may fail.  What makes each component
correct:

* net service: sockets are used only while open, every queued reply has a
  wake-up, replies leave once and in order, `stop()` returns and after it no
  request is handed over and no reply leaves, the service recovers from a
  failing poll;
* task threads: each queue is FIFO and served, a thread ends exactly when told
  to, requests of one client are answered in order, a reply has a service;
* the whole path: no request lost or answered twice, each answered;
* registry and loading: no record is freed while the map lists it and none is
  forgotten, the map is not read while it changes, libraries start in the configured order and end once;
* buffer pool: a block has one owner and is as large as was asked;
* JSON: lists are well formed and each call changes the one it names; a wrapper
  leads to the item that is there; print and parse are inverse, buffers are not
  overrun, patches lead where they were generated to;
* locks of the log: a writer is alone, calls return, no signal is missed.

## 2. Modules

| Module | Models |
|---|---|
| `ZMQServiceImpl.tla` | `ZMQService/ZMQServiceImpl.cpp`: the net service, its callers constrained only by `Answer` |
| `NDTaskThreadManager.tla` | `Thread/`, and the part of `NDPluginManagerGlobal::init` that creates threads and service |
| `FifoQueues.tla` | abstract specification: a family of FIFO queues, `Put` and `Get` |
| `MessagePath.tla` | the composition: both components in one program, as `main()` runs them |
| `NDDataProcess.tla` | the registry, the table of plugins, and what `disposeOperateData` does with a record |
| `NDPluginManagerGlobal.tla` | extends it: `init()`, `DynamicLoad/`, and plugin code that calls the table |
| `NDBufferPool.tla` | `Common/NDBufferPool.cpp`: the memory pool all threads share |
| `Allocator.tla` | abstract specification: an allocator never hands out a block in use |
| `CJsonHelper.tla` | `CJsonHelper/CJsonHelper.cpp`: documents, wrappers and their maps |
| `Forest.tla` | what is below an item, or an object: what `cJSON_Delete` and the destructor walk over |
| `cJSON.tla` | the linked lists of `cJSON.c` and `cJSON_Utils.c` and every call that changes them |
| `JsonTree.tla` | abstract specification: an array or object is a sequence |
| `cJSON_Text.tla` | printer, parser, `cJSON_Minify`, `cJSON_Compare` |
| `cJSON_Utils.tla` | JSON pointers, JSON Patch, JSON Merge Patch, and a program that patches a document |
| `Syncprims.tla` | the thread primitives of log4cplus that are code in its headers |
| `RwLock.tla` | abstract specification: the same reader-writer lock over a `pthread_rwlock_t` |
| `MC*.tla`, `*.cfg` | constants and runs for TLC |
| `ZMQServiceImpl_proof.tla`, `NDTaskThreadManager_proof.tla`, `MessagePath_proof.tla`, `NDPluginManagerGlobal_proof.tla`, `NDBufferPool_proof.tla`, `Syncprims_proof.tla`, `CJsonHelper_proof.tla`, `cJSON_proof.tla` | theorems and their proofs |

An operator `Bug_X` beside `X` is a plausible mistake in `X`.  No run uses it: it
is there to see, by putting it in the place of `X`, that a property would notice.

### `ZMQServiceImpl`

The three sockets and the context are opened and closed together, so `handle`
is the number of the `start()` that opened them (0 for NULL), and `open` is the
set of those not closed.  This keeps what the code can get wrong - overwriting
handles that are still open - and leaves out what it cannot.  `events[g]` is
the content of the inproc pipe of generation `g`; events carry a sequence
number nobody reads, so a count is enough.  The reply to request `m` is called
`m`.  `accepted`, `sent`, `requested` and `delivered` are history.

`m_pSendMsgMutex` protects short sections that do not block; each is one action
(`sendMessageQueue`, `sendMessage`).  `m_pZmqPushMutex` is held across
`zmq_send`, which blocks when the pipe is full, and across `closeHandle`; it is
a variable, and taking it, sending and releasing it are `pushLock` and
`pushEvent`.  `start()` is `startRunning` (refused), or `startOpen` followed by
`startBound` or `startFailed`, `startAbandon`; the dispatch thread calls the
same actions from `dispatchRestart`.  `stop()` is `stop`, `pushLock`,
`pushEvent`, `stopJoin`, `stopClose`.

Of ZeroMQ the model assumes what the code relies on: all frames of a message
arrive together; a bind fails while another socket of the process is bound to
the address (and may fail for other reasons); a send on a NULL socket returns
an error at once; closing drops what the sockets hold, and completes; a
`std::thread` object that is assigned to while joinable terminates the program
(label `terminate`).  `m_started` is a plain `bool` read by another thread; a
read sees the current value.

### `NDTaskThreadManager`

One action per step at which another thread can interfere: `run` (line 41),
`enterDispose` (the function statics, line 98-104), `disposeTake` and
`disposeDone` (lines 106-122), `reply` (156-161), `free` (163-168),
`isQuitThread` (47-53).  `pNDNetService` is the function static of line 100:
`unset`, then for ever `NULL` or `service`.  `nSelect` turns the hash into the
thread; `Hashes[c]` is the *set* of values `bkdr_hash` may return for a
client's id: the hash runs to the first NUL byte, the id that libzmq hands out
is not terminated, so what follows it in memory decides for some clients; a
client whose id has a NUL byte in it has a single value.
`init` is one round of the loop that creates the threads; the `sleep(100)`
after it orders nothing and is not modelled.

### `MessagePath`

`T == INSTANCE NDTaskThreadManager`, `Z == INSTANCE ZMQServiceImpl` with the
task threads as its `Workers`.  `recvMessage` of the service and
`insertOperateData` of the chosen thread are one step (`onRecvMessage` copies
and returns); `reply` of a task thread is `sendMessage(remoteId, ...)`, and its
`free` waits until that call has returned.  `main()` creates threads, creates
the service, starts it and never comes back from `loop()`.  `held` lists, for each
place a request can be in, the requests that are there.

### `NDDataProcess` and `NDPluginManagerGlobal`

A record is an address: `record[a]` is what the memory there holds, `live` the
addresses that are allocated, and freeing one leaves its content until a
`malloc` returns it again.  Each access of the `std::map` takes time - a thread
at `lookup` or `isExist` reads it, at `insert` or `erase` changes it - so that
two threads can be inside at once.  `table` says which function each registry
entry of the plugins' table really holds.  A request is `lookup`, `process`
(the callback starts, and may call the table), `return`, `sendMessage`,
`pFunFree`; `szRet` remembers whose answer is on the way.

`NDPluginManagerGlobal` is `init()` in its order: log, configuration, directory
listing (in any order), `sortPlugin`, and for each file `initLibrary`, `init_`,
`execute_`, the map; then task threads and service.  Every step may fail; a
failed library object is deleted, which calls its `uninit_` if that was found,
and `main` returns.  `calls` is the history of plugin functions.

The repository's code cannot be right for all plugins, so the model names what
it asks of them: `MayCall[n]` is the set of table entries that plugin code may
call while `n` task threads run.  `Plugins.cfg` allows everything before the
threads start and while there is one of them, nothing with two.  The limit is
needed: `pRegDataProcess` from a callback with two threads violates `NoMapRace`
and `RegistryInv`, so the runs and the proofs say nothing of callbacks that
change the map while another task thread runs.  A callback may unregister its
own method; the record that `disposeOperateData` goes on to use is then freed,
as in the code, and what is read of it is what lies there.  No property is about
that.  Files have different library names
(`NameOf`); two files with one name violate `LifeCycle`
(`NDPluginManagerGlobal.cpp:145`).

### `NDBufferPool`

A list (`smallPool`, `medPool`) is the sequence of its first `poolSize`
entries, `tinyPool` that of the free tiny buffers; a block is an address, and
`size[a]` is the `unsigned int` the pool keeps in front of a heap block, 0 when
the heap has it.  What `malloc` does under the lock is one step (`tinyMalloc`,
`poolMalloc`, `heapEnter`), what follows - the call of the heap, the flush when
it fails, the second call - is not: `heapMalloc`, `heapFails`, and for each
list `flushRead`, `flushRelease` (one entry), `flushEnd`, `flushZero`.
`flushRead` and `flushRelease` split `bytesAllocated -= ...; ::free(...)`,
which other threads can come between.  `free` is `tinyFree`, `poolFree` or
`heapFree`; the program frees only what it holds (`held`), which is an
assumption about the callers.  `asked` is history: what was asked of a block
since it was last free.  A second failure of the heap ends the program (label
`crash`): `malloc` writes the size of the block through NULL (line 177).

Nothing keeps other threads from the lists and the counter during a flush, and
`Next` does not either: another thread may allocate and free between any two
steps of it.  `Section` marks what such a thread does to the lists and the
counter, which is where it and the flush race, and `raced` records that there
was such a section (`tinyMalloc`, `tinyFree` and `heapMalloc` use neither).  After
one, the model is one outcome of the race at the grain of its actions: the size
in front of a block that went back to the heap may be any (`BytesOf`), for
example.  What is claimed is claimed up to a race; that there is harm after one
is a finding (section 6).

### `CJsonHelper`

The document is a tree as in `JsonTree` (`tree`, `live`), the objects are
records of `m_bRoot`, `m_pJsonData` and the two maps (`helper`, `used`).  A call
is one step: no object is shared between threads.  Both the items and the
wrappers are structures of parents and children; what a delete destroys is
`Below` a node of the one or the other (`Forest`), the least set that holds the
node and the children of its elements.  `typeOf` is the item an
overload of `set` creates, `getItem` what an overload of `get` accepts.

Some legal-looking sequences of calls make a map stale.  `Obligations` names
what the callers in this repository do without, and the guards `Obliged` drop
out when a name is taken from the set; without any one of them, or with keys
that differ in case only (cJSON finds them, the map does not),
`WrappersCurrent` is violated:

* `reference`: no write through the wrapper of a missing item, no `parse` into
  a wrapper (`CJsonHelper.cpp:220` wraps NULL, and what is written there is in
  no document);
* `nested`: no replacing of an item while wrappers of items inside it exist (`:752`);
* `shift`: no deleting from an array with wrappers of later items (`:630`);
* `twice`: no adding of an empty object or array under a key that was looked up
  (`:173` adds a second item of the same key).

### `cJSON` and `JsonTree`

`heap[n]` is the struct of item `n`: `child`, `next`, `prev` and `string`.
Operations are functions from heap to heap, one binding per assignment of the
code, in its order.  The walk over a list, the merge and `sort_list` itself are
functions of the number of steps left: a list of distinct items has no more of
them than there are items, and that lists stay such is what is proved.  Every
call of the interface is an action, with what its callers may pass: a new item
is in no list and is not put below itself.  `JsonTree` has the same calls on
sequences; the refinement mapping reads the sequences off the heap.  What
`cJSON_Delete` frees is `Below` the item by `child` and `next` there, and `Below`
it by the children here (`Forest`); that the two are the same set rests on the
detached item being in no list.

### `cJSON_Text` and `cJSON_Utils`

A text is a sequence of tokens, one per character except for the four words and
what follows the backslash of a `\u` escape, whose widths count in `ensure`.  The
printer escapes what the code does, and indents by the depth, which grows in
arrays as in objects.  The parser takes every escape, `\/` included: of the `\u`
escapes a control character, a letter, the two halves of a pair, which alone are
refused, and one with a wrong digit, which `parse_hex4` makes a NUL, at which the
string ends.  A printer's buffer is a
record handed from call to call; `over` is set by a write beyond its end.  A
number is its digits: doubles, and `"%1.15g"`, are left out.  `cJSON_Utils`
is a program whose document is given, patched and merged; all else is
evaluated on each document it reaches, and `AcceptsWhatItReads`, which tries many
texts, on those that are given.  Two modules declare `RECURSIVE`
operators, since documents nest: these two, which stay with TLC.

### `Syncprims` and `RwLock`

`SharedMutex` of `impl/syncprims-pmsm.h` line by line: the guards are in scope
until a call ends, so `rdlock` holds `m3`, `r` and `m1` while it waits for `w`.
Semaphore waits may fail (`MaxThrows`), which unwinds the guards.  `FairMutex`
is one semaphore.  `ManualResetEvent` counts signals, so that a sleeper notices
a signal that was reset before it ran.  `RwLock` is `impl/syncprims-pthreads.h`:
what the operating system's own lock does; which of the two is compiled is a
configuration of log4cplus.

## 3. Runs

| Run | Question | Instance |
|---|---|---|
| `zmq` | Sockets used while open, wake-ups covered, replies conserved, nothing blocks the dispatch thread, `stop()` returns, and after it nothing is handed over or sent | 2 workers, 3 requests, pipe of 2, 4 `start()`s, 2 failing polls; 1.75 million states |
| `task_threads` | FIFO per thread; exit flag noticed, queues served | 2 threads, batches and queues of 2, 3 requests of which 2 share a client; one client with an unstable hash; 119 thousand states |
| `message_path` | One place per request, per-client order, the specification of the service as a property, every request answered | 2 threads, 3 requests of 2 clients, pipe of 1, batches of 2, a failing poll; 106 thousand states |
| `pool` | Up to a race with a flush: one owner per block, blocks large enough, exact byte counter, the allocator implemented | 2 threads, 2 tiny buffers, 3 heap blocks, lists of 2 and 1, 5 sizes, a heap that fails twice; 1.57 million states |
| `plugins` | Records owned by the map, no race on it, order and life cycle of libraries | 3 files, 2 method ids, 3 addresses, 2 task threads, every order of up to 2 names; 1.47 million states |
| `json_helper` | Wrappers current, one owner, `get` reads what `set` wrote | 3 objects, 5 items, 2 keys, 2 indexes; 50 thousand states |
| `cjson_lists` | Lists well formed, the sequences implemented | 2 objects, 2 arrays, keys "A", "B", "a", indexes -1 to 2; 10 thousand states |
| `cjson_values` | Print, parse, buffers, escapes, comparison, patches | `MCValues` (scalars, and nesting to 3 levels), `MCPatches`, 3 merge patches, nesting limit 2; 1.6 thousand documents |
| `syncprims` | The abstract lock implemented; calls return | 3 threads, 1 failing wait, 2 signals; 34 thousand states |
| `zmq_no_recovery` | Does the restart after a failed poll succeed? *No.* | finding 1 |
| `task_null_service` | Does every reply have a service? *No.* | finding 2 |
| `pool_flush_race` | Has a block one owner whatever the threads interleave? *No.* | the constants of `pool`; finding 3 |

Bounds, all of them constants: `PipeCap` (2000 in libzmq) must be small enough
to fill up, and is 1 or 2; `MaxOpens` is 4 in `zmq`, so that the dispatch
thread's restart, a `stop()` and two more `start()`s can overlap;
`MaxPollErrors`; `QueueMax` (`m_recvMsgList` has no limit); `BatchMax` (100 in
the code) is 2, so that a queue can be longer than a batch.  Every request
is sent once in `ZMQServiceImpl` and `MessagePath`; in `NDTaskThreadManager`
requests return for ever, which is what `StopNoticed` and `QueueServed` need.
In the pool the sizes 1 to 5 lie at and beyond each limit (`TinySize` 1,
`SmallSize` 3, `MedSize` 4), so a list holds blocks that fit a request, that
are larger, and that are too small; three heap blocks fill both lists, or
overflow the small one; `HeapAddrs` bounds the heap (a thread that asks a full
heap waits, where the code would get NULL) and `MaxOoms` the failures.  The run
`pool` has the constraint `UpToRace`: a state after a race satisfies its
properties by their first disjunct, and is not explored further.
Three `Addresses` for two method ids let a record that was freed be replaced at
its address while another is held.  `CJSON_NESTING_LIMIT` (1000) is 2 and the
documents reach 3; `MaxItems` bounds a document that was patched twice, and
`MaxCount` the arrays one call creates; four items are the fewest with which a
list has a first, a middle and a last one and a second list exists, and with
three members `sort_list` splits unevenly.  Keys differ in case only, and in two
orders, because the calls do.  `CHECK_DEADLOCK FALSE` is set in every run,
because each system may stop: after a `std::terminate`, when all requests were
sent, when `init` failed, when all threads have ended, at the bound of the heap
or of the items.

## 4. Fairness

Each thread is weakly fair: an operating system thread that can take its next
step eventually does.  For the net service and the task threads weak fairness
is enough, and no strong fairness is assumed for `m_pZmqPushMutex`; what starves
on a mutex is not claimed to move.  Clients, failing polls, callers of `start`
and `stop`, and the decision of a plugin to answer are free.  In `MessagePath`
answers are not free: taking a request leads to a reply because the task
thread's step is fair, which assumes that callbacks return.

In `Syncprims` who holds a lock gives it back and a woken thread runs (weak
fairness), and a thread inside `rdlock` or `wrlock` is strongly fair: a mutex or
a semaphore that is free again and again is not kept from one thread for ever,
which POSIX leaves to the scheduler.  Without it `CallsReturn` could be claimed
of no lock built from semaphores.  Nobody has to call anything.

## 5. What is proved

For every number of threads, requests, plugins, pipe capacity, batch size and
every bound:

* `ZMQServiceImpl_proof`: `TypeCorrect`, `Invariance` (`Spec => []IInv`), and
  from it `PushOnOpen`, `DispatchSafe`, `ReceivesNeverBlock`, `NeverTerminates`,
  `RepliesInOrder`, `NoLostWakeup`, and the action property `Silence`.
* `NDTaskThreadManager_proof`: `TypeCorrect`, `ExitSafe`, and
  `ThreadsImplementQueues`: the task threads implement `FifoQueues`, with the
  request in a thread's hand at the head of its queue.
* `MessagePath_proof`: `Invariance`, `EveryRequestInOnePlace`, and that the
  program implements the service's specification, assumption on its callers
  included: `ServiceImplemented`; so what was proved of both parts holds of the
  program (`ServiceSafe`, `ThreadsSafe`).
  `RepliesInRequestOrder`: seen by each client whose id has one hash, the whole
  program implements `FifoQueues`.
* `NDPluginManagerGlobal_proof`, of the registry, under `PluginObligation`:
  `RegistrySafe`, `MapNotRaced`; of the loading: `LoadOrder`, and,
  under `DistinctNames`, `LifeCycleHolds`.
* `NDBufferPool_proof`, of every interleaving up to a race with a flush:
  `Invariance`, `TypeCorrect`, `BlocksHaveOneOwner`, `BlocksAreBigEnough`,
  `CounterExact` (the byte counter) and `ImplementsAllocator`: the pool implements
  `Allocator`.
* `Syncprims_proof`: `Invariance`, `TypeCorrect`, and `LockRefines`: `SharedMutex`
  implements `RwLock`.
* `CJsonHelper_proof`, under `Kept` and `DistinctKeys`: `InStepInvariant`, and from
  it `NoStaleWrapper`, `OneOwnerEach` and the action property `WrittenIsRead`.
  Its first part has the lemmas on what is below a node when a node is added, a
  tree is attached or a tree is cut, which apply to the items and to the
  wrappers alike.
* `cJSON_proof`: `ListsAreOK` and `ListsImplementTree`: the operations on doubly
  linked lists implement `JsonTree`, sorting, copying and freeing included.

The assumptions are `ServiceAssumption`, `TaskAssumption`, `PathAssumption` (both
of these, of the composition's parameters), `RegistryAssumption`,
`PoolAssumption`, `SyncAssumption`, `HelperAssumption` and `ItemAssumption`,
which TLC evaluates in the runs: thread
identities differ, workers, threads and plugins are finitely many, capacities
are positive naturals, hashes are naturals, there is at least one task thread;
tiny buffers are finitely many, limits and sizes are naturals in the order the
code has them, no request is for 0 bytes; objects and values are items, NULL is
none, indexes are integers; items of cJSON are finitely many, as memory is, and
keys are compared by a natural number for each, once with and once without case.

Some theorems need a hypothesis the code does not enforce, and name it.
`PluginObligation` says that callbacks call the table only where there is a single
task thread.  The map has no lock, so with two of them a callback that
registers races with the other's lookup; plugins that register in `init_` or
`execute_` and unregister in `uninit_` meet the obligation.  `DistinctNames`
says that no two files have the same name without their suffix: the map of
libraries keeps the old entry for a name it has, and the second library would
be lost to it.  The constants of the run `plugins` satisfy both.  The
theorems about the pool have no hypothesis: they say `raced \/ ...`, for any
number of failures of the heap, up to the one that ends the program.  `Kept` says that
all four obligations of the callers of `CJsonHelper` are kept (section 2), and
`DistinctKeys` that no two keys they use differ in case only; the constants of
the run `json_helper` satisfy both.

The invariant of the service.  `PushNeverOnClosed` says that the socket read
under the mutex stays open until the send returns; it is not inductive, since
nothing in it says that whoever closes holds the mutex, or that `handle` is
open when it is read.  `MutexInv` ties the mutex to the label `push`,
`SocketInv` says that a non-NULL `handle` is open and that generations are
numbered in order.  `DispatchSocketsValid` needs to know when `closeHandle`
can run: `PhaseInv` lists which phases of the controlling and the dispatch
thread coincide (the join is what excludes the others), and `DispatchInv` adds
that a restart from inside the loop leaves the old generation open, so its bind
cannot succeed - which is also why `m_dispatchThread` is never assigned while
joinable.  `WakeupCovered` counts: queued replies against events, pushers and
the dispatch thread in `sendMessage()`; it needs `FirstInv`, that all of these
events go to the one pipe of the first generation.

The refinement.  A thread's abstract queue is `InHand(i) \o m_recvMsgList[i]`;
`disposeTake` moves the head from one to the other (a stutter), `reply` is
`Get`, `insertOperateData` is `Put`, and everything else leaves it unchanged,
which needs from `TypeOK` only that queues are sequences.

The composition.  `ServiceContract` needs an invariant where a task thread
replies: the service is promised that the request was handed over and is not
answered.  `PathInv` is the invariants of the two parts (their step lemmas are
cited, through an instance of their proof modules), `OnePlace`, and three more.
`HandedOver`: what a thread has in its queue or its hand went through
`onRecvMessage`.  `EarlyInv`: nothing is wired and nothing requested until the
first `start()` has bound its socket, which is why a `start()` that gives up, and
clears the ROUTER, loses nothing.  `held` is where every request is; each step
leaves it alone, adds a new request at the ROUTER, or moves one from the front
of one sequence to the end of another (`Flows`), so `OnePlace` is proved of two
lemmas about sequences.  `RightThread`: a request is at a thread `nSelect` yields
for its client.  An answered request is in `sent` or in
`m_sendMsgList`, by `RepliesConserved`, and so not in a thread's hand.

The order of a client's replies.  `ReplyOrder` sees the requests of a client with
one hash in the concatenation of everything that is on the way.  By `RightThread`
they wait at one thread only, so of the flattened queues one sequence remains, and
what `ReplyOrder` sees is `Line`: the client's replies, then its requests at its
thread, then those in the ROUTER.  Of the moves of `Flows`, the one from the
ROUTER to a thread and the one from a thread to the replies leave the line as it
is; a new request goes to its end and a sent reply comes from its front, which
are `Put` and `Get`.  The line rests on `RightThread`, and so on `PathInv`; an id
with several hashes may have requests at several threads, and has no such line.
`OfClient` and `FlattenSeq` are recursive functions, unfolded by the lemmas on
`Approximates` described for `sort_list` below.

The invariant of the registry, `RInv`, adds to `RegistryInv`: `InUse`, that the
record a task thread has just looked up is allocated; `Where`, who may be inside which call - `Main` alone
until task threads exist, one task thread alone if it calls the table; and `Pending`,
what a thread between the test and the insertion, or between freeing a record
and erasing it, knows of the map.  Of the
loading, `SInv` relates the phase, the number of the library at hand and the
list of calls made (`CallsInv`), and the map to the libraries that have executed
(`MapInv`); `LoadedInOrder` follows from `ListInv`, that the list to load starts
with `plugin_order` and has no name twice.

The invariant of the locks, `IInv`, counts: `CountInv` ties the number of readers
and of waiting writers in the fields of `SharedMutex` to the threads at the
labels that have counted themselves, `WInv` and `RInv` say who has taken the
semaphores `w` and `r` - the first reader for all of them, the first writer for
all of those - and `MutexInv` who is inside which section.  A wait that fails and
unwinds its guards is a step like the others.  The abstract lock is held by the
threads whose call has returned.

The invariant of the pool, `Inv`, is `raced \/ (IInv /\ CInv)`, where `IInv` is
`TypeOK /\ Unasked /\ Asking /\ FlushInv /\ OneOwner /\ BigEnough`; once `raced` is
true it stays so, and a step that does not make it true is one at which no other
thread flushes, or one that leaves the lists and the counter alone
(`SectionIsAlone`).  `OneOwner` alone is not inductive: that a block taken
from a list is as large as its header says needs `BigEnough`, which ties list
entries to headers; that a list entry is a block at all needs `FlushInv`, which
says that only a list being flushed has holes, and has them exactly in the places
before the loop variable of the one thread that flushes, so that no block is
given back twice and `poolSize = 0` forgets none; that the heap is asked for
something needs `Asking`; that `tinyFree` stays within its array follows from
`OneOwner`, because a list of distinct tiny buffers without the one being freed
is shorter than the array (`DistinctLemma`).  `WithoutPointers` says what
`fastRemove` leaves of a list.  `asked` adds up what is asked of a block while it
is out, so that handing it out twice is a change the abstract allocator does
not have; `Unasked` says it starts from 0.  The step lemmas also show how
`held` and `asked` change, which is the refinement: `malloc` is `Give` or a
stutter, `free` is `Take`.

`Counted` needs `CInv` beside that invariant: the sums are of finitely many
values, a thread outside of `malloc` has asked for nothing, and nobody changes
the counter between `flushRead` and `flushRelease`.  A step then changes one
value of `size` or `want`, or moves one from `want` to `size`, and `TotalGrows`
says what that does to a sum.  It rests on `SumDefined` and `SumFacts`: the
community modules' sum, which takes elements in the order of `CHOOSE`, is a
function on all subsets of a finite set and does not depend on that order.  Both
take a smallest subset that is an exception (`Smallest`), in place of an
induction, which the provers cannot instantiate.

The invariant of `CJsonHelper`, `IInv`, is `InStep` of the state with nothing
pending.  `InStep(t, L, h, U, X)` says that the documents are a forest, whose
roots are the items that owners hold and the tops in `X` that nobody holds yet
(`Documents`); that the wrappers are a forest below the owners, each in one
place of one map, and no two objects lead to one item (`Wrapping`); and that
the maps of every object have the items that are there (`Current`).
`WrappersCurrent` and `OneOwner` follow, but neither is inductive: that deleting
below one item leaves the wrappers of others alone needs the forest and the
distinct items.  A call is a composition of seven elementary steps - an object,
an item or a wrapper is made, an owner takes a tree, a tree is put in a place
or cut from one, an object is destroyed - and each has a lemma from `InStep` to
`InStep` (`ConstructStep`, `CreateStep`, `WrapStep`, `OwnStep`, `PutStep`,
`CutStep`, `DestroyStep`); the actions are proved of these.  Replacing an item
is where `nested` is needed: the old tree goes, and the one wrapper that led into
it is pointed to the new top.  That a copy of a document is a tree
(`CopyStep`) follows from its being an injection that respects children.

The invariant of `cJSON`, `IInv`, says that the heap represents sequences:
`Represents(h, l, ch)` holds of the heap `h`, the allocated items `l` and a
sequence `ch[n]` for every item if

* each `child` is the first of its sequence, and each `next` and `prev` leads to
  the neighbour there; an item in no sequence has neither (`Stores`);
* no item is in two places, of one sequence or of two (`OnePlace`);
* every set of items has one that is no child of another in it (`Acyclic`);
* members of objects have keys (`MembersHaveKeys`); freed memory has no children
  and no key, and no sequence has a freed item.

`ListsOK` follows, but is not inductive: an item in two lists, or below itself,
has fine neighbours until one of the lists is changed or freed.  `Acyclic` is
what lets `cJSON_Delete` end at the items of one tree, and `MembersHaveKeys` is
what lets `sort_list` compare.  The sequences are determined by the heap: the walk
`List` returns them (`KidsOf`), so `IInv` is stated of the very sequences that the
refinement mapping reads, and both theorems have the same step lemmas.

An operation on the heap is then one on a sequence: `add_item_to_array`,
`InsertBefore` and `insert_item_in_array` put an item between two parts of it
(`Inserts`, `Attaches`), `DetachItemViaPointer` takes one out (`LinksOut`), a
replacement does both, and each lemma says which fields of which items change.
`Reached` is closed under `child` and `next`, which from a detached item are the
children and their neighbours.  A copy is an injection that respects children
(`Duplicates`).  For `sort_list`, one turn of the loop that merges keeps what is
merged, ordered and linked back to its first item, and of the rest two lists
linked forward (`Merges`); `Weighs` gives each item the number its key is
compared by.  The halves that the recursion sorts have no item in common, so
sorting the second does not disturb the first (`Frame`), and their lengths
decrease.  That such functions of the number of steps exist, and so unfold, is
proved first (`Approximates`, `Solves`): the functions on `0 .. n` that are right
so far agree, and the set of `n` for which there is one is closed under
successor (`NatSetInduction`, which uses a smallest exception in place of an
induction).

Only model-checked: liveness (outside the prover), and with it `CallsReturn`,
`Answered`, `StopReturns`, `StopNoticed` and `QueueServed`; and everything in
`cJSON_Text` and `cJSON_Utils`, where the question is what recursive operators
compute: `RoundTrip`, `PrintFits`, `EscapesBecomeUtf8`, `AcceptsWhatItReads`,
`CompareIsEquality`, `PatchesLeadThere` and `MergePatchLeadsThere`.

## 6. Findings

1. The restart after a failing `zmq_poll` calls `start()`, which refuses because
   `m_started` is still true: the service never works again
   (`ZMQServiceImpl.cpp:242`, run `zmq_no_recovery`).
2. Task threads are started before the net service exists, and the first one to
   run freezes a NULL service pointer for all (`NDTaskThread.cpp:100`, run
   `task_null_service`).
3. When the heap fails, `malloc` flushes the lists after it has released the lock:
   a block that another thread takes from a list meanwhile goes back to the heap
   (`NDBufferPool.cpp:149`, run `pool_flush_race`).

Seen with other constants or properties, without a run of their own:

* `stop()` clears `m_started` before its blocking `zmq_send`; with a full pipe
  the dispatch thread may leave first, and `stop()` waits for ever
  (`ZMQServiceImpl.cpp:107`).  `StopReturns` names this case (`SendBlocked`).
* A `stop()` that meets the restart lets `start()` overwrite open handles: it
  may then wait on a pipe that nobody reads, or return with sockets open (`:61`).
* A `stop()` of a task thread before the first line of its `run()` is
  overwritten (`NDTaskThread.cpp:41`); `StopNoticed` speaks of threads past it.
* A reply queued around a `stop()` keeps no event and is sent, after the
  restart, with the next reply's (`ZMQServiceImpl.cpp:157`).
* A heap that fails again after the flush is written through NULL
  (`NDBufferPool.cpp:177`).
* `bytesAllocated` goes on counting blocks that were freed into a list
  (`NDBufferPool.cpp:205`), which `NDBufferPool.h:57-58` says it does not;
  `Counted` states what it does count.
* The entry `pGetPluginDataProcessBase` of the table given to plugins holds
  `unRegDataProcess` (`NDPluginManagerGlobal.cpp:233`): a plugin that looks its
  registration up removes it, and the record is freed.
* Escaping in JSON pointers: `encode_string_as_pointer` writes "~1" for "~" and
  leaves a byte unwritten for "/", against the comment above it
  (`cJSON_Utils.c:154`); `decode_pointer_inplace` (`:339`) copies nothing but
  escapes.  Documents with such names (`MCEscaped`) violate `PatchesLeadThere`.
* `detach_path` (`cJSON_Utils.c:406`) never minds the case, and `generate_merge_patch` (`:1393`)
  compares with case what was sorted without: names that differ in case
  (`MCCases`, `MCMixed`) violate `PatchesLeadThere` and
  `MergePatchLeadsThere`.
* `cJSONUtils_ApplyPatches` stops at the first patch that fails and keeps what
  the ones before did; `cJSON_Compare` finds an object in which a name
  occurs twice, with different values, different from itself; a replacement for a key that
  is not there is renamed and left to the caller, who is not told
  (`cJSON.c:2236`).
* A `wrlock` that fails alone leaves the semaphore `r` taken
  (`syncprims-pmsm.h:100`): nobody gets the lock any more.  `CallsReturn` names
  this case (`Stranded`); and writers that never stop coming starve readers.

## 7. Not modelled, and the plan

Not modelled, and why:

* the rest of `ThirdParty/`: declarations of log4cplus and ZeroMQ whose code is
  in prebuilt libraries, formatting macros and configuration headers, and the
  Windows variants of the primitives; of ZeroMQ only what the net service relies
  on is in the model;
* shutdown - `release`, the destructors, `NDTaskThreadManager::release`:
  `loop()` never returns in `main()`, so nothing of it runs in the program;
* `recvMessage` frame by frame: a message is one unit;
* `NDBufferPool::realloc`, `NDDataProcess::process` and
  `getCallBackFunctionType`, which have no caller;
* reference items of cJSON (`cJSON_CreateObjectReference` and its like, unused
  here), doubles in `parse_number` and `print_number`, a heap that fails in cJSON;
* log texts and `writelog`, the library name of a file, string splitting, the
  statistics of the pool: text without a property.

What could come next: a `cJSON_Utils` whose recursion over documents is by
functions of the depth left, as in `sort_list`, so that the provers reach it.
