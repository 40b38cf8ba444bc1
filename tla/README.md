# A TLA+ development of v2x

v2x is a set of C libraries for a Linux on-board unit: a linked list, a thread
pool, a message router between local processes, a timer manager and a file
logger (`src/framework`). The application directory holds an empty file. This
directory holds TLA+ modules that model the parts of the framework that keep
state, TLC configurations that check them on small instances, and proofs that
TLAPS checks for every instance.

## 1. The system

| component | files | state | operations |
|---|---|---|---|
| linked list | `linked_list.c` | a head node and a heap of nodes with `next`, `prev`, `nodeData` | Init, DeInit, Create, InsertHead/Tail, DeleteHead/Tail, Swap, Print |
| thread pool | `thread_pool.c` | `g_isInit`, `g_initMutex`, `g_threadPoolInfo` (mutex, semaphore, counters, `threadId`), `g_jobListHead` | ThreadPoolInit, ThreadPoolAddJob, ThreadPoolDeinit, the worker loop |
| route server | `msg_route_server.c`, `msg_route_core.c` | the socket, the epoll set, `g_clientInfo` (descriptor and subscriptions of each appId) and its lock | start-up, accept, receive, erase a client, subscribe, unsubscribe, hand a message to the pool, the forwarding job |
| route client | `msg_route_client.c` | `g_isInit`, `g_fd`, `g_isRunning`, `g_curAppId`, the receive thread, the callback table | Init, Deinit, SendMsg, SubscribeMsg, UnsubscribeMsg, the receive loop |
| timer | `timer_event_manage.c` | `g_isInit`, `g_initMutex`, `g_isRunning`, `g_eventInfo`, `g_maxEventNum`, `g_epollfd` | InitTimerEventManage, Deinit, AddTimerEvent, DeleteTimerEvent, SetTimerEvent, the handler thread |
| log | `my_log.c`, `etc/logCfg.json` | configuration, a cache of lines and its offset, the log file, its `.bak`, the archives and their index, a semaphore | MyLogInit, MyLogDeinit, MyPrintLog, level changes, the archive thread |
| cJSON | `opensource/cjson` | vendored; only the logger reads its configuration with it | |
| application | `app/v2x_app` | an empty file, like `msg_route_monitor.c` | |

**Interactions.** The pool keeps its jobs on the linked list. The server's epoll
thread turns each message into a job; the pool's threads run
`MsgRouteCoreJobFunc`, which reads the client table the epoll thread writes.
Clients and server share only a `SOCK_SEQPACKET` connection. The timer's handler
thread runs callbacks that may call the timer's functions again. The logger is
used by none of the other components (they print with `dbg`).

**What is hard.** Workers, callers and the exit path of the pool share a list, a
semaphore posted outside the lock, and counters kept by hand; a failed
`pthread_create` and `ThreadPoolDeinit` destroy what threads still use. The
server's job reads a table without its lock while descriptors are closed and
reused. The timer's handler works on a copy of its table, descriptors are reused
under it, `g_isInit` is checked in one critical section and relied on in another,
and Deinit joins a thread that may want the mutex it holds. The client's threads
share `g_fd`, `g_isRunning` and `g_curAppId` without a lock, and a blocked `recv`
outlives the descriptor it was called with. The log's lines pass through a cache
and four kinds of files, moved by two threads, each call of which can fail, and a
crash can come between any two of them. The list is sequential, but wrong links show only several calls later.

**What makes each component correct.**

- Linked list: `next` and `prev` describe the same order; the order is the one
  the calls ask for; nothing is lost, and nothing freed is used.
- Thread pool: an accepted job is in the end run; until the mutex is destroyed it
  is in exactly one place and started once, oldest first; wake-ups match jobs;
  counters match the list; threads end after Deinit.
- Route server: the table never leads to a wrong or closed connection, a
  subscription belongs to the client that made it, a subscriber gets what is sent
  while it is there, nobody else does, no worker blocks for ever.
- Route client: one connection, closed once; the callback table and the router's
  table agree on what is subscribed; a packet of a subscribed type reaches its
  callback, in order and once; the receive thread ends.
- Timer: table, descriptors and callbacks agree; no timer leaks; an expiry gets to
  the callback of its own timer, unless its descriptor changes hands or is set anew
  while the handler is at it; calls return.
- Log: lines are stored in the order they were printed and none twice, whatever
  fails; nothing is missing but the oldest archives while nothing fails; a full file
  is always handed over; nothing but a line that is too long overflows the cache, and
  a line does not stay in it.

## 2. Modules

| module | models | state and actions |
|---|---|---|
| `JobQueue` | what the pool promises | the jobs queued, running, finished; submit, start the oldest, finish |
| `ThreadPool` | `thread_pool.c` and the list it uses | below |
| `MCThreadPool` | TLC instance | symmetry |
| `ThreadPoolProofs`, `ThreadPoolCountProofs` | proofs about `ThreadPool`; of what it counts | |
| `ListSeq` | what the list promises | a sequence with push, pop, exchange, clear |
| `LinkedList` | `linked_list.c` | below |
| `MCLinkedList` | TLC instance | symmetry |
| `LinkedListProofs` | proofs about `LinkedList` | |
| `MsgRouteServer` | the server, from its start on; the client as its environment | below |
| `MCMsgRouteServer` | TLC instances | which appId a client uses, symmetry |
| `MsgRouteServerProofs` | proofs about `MsgRouteServer` | |
| `Timer` | `timer_event_manage.c` over timerfd, epoll and a clock | below |
| `MCTimer` | TLC instances | symmetry |
| `TimerProofs` | proofs about `Timer` | |
| `MsgRouteClient` | `msg_route_client.c`; the router as its environment | below |
| `MCMsgRouteClient` | TLC instance | symmetry |
| `MsgRouteClientProofs` | proofs about `MsgRouteClient` | |
| `Log` | `my_log.c` over a file system | below |
| `MCLog` | TLC instances | the lengths of lines, symmetry |
| `LogProofs` | proofs about `Log` | |
| `DataLemmas` | facts about `Front`, `Last`, `Min` and `Max` that the proofs use | |

`ThreadPool` refines `JobQueue`, `LinkedList` refines `ListSeq`, and
`MsgRouteServer` uses an instance of `JobQueue` for its pool, so that the server
is checked against what the pool is proved to implement. `MsgRouteServer` and
`MsgRouteClient` meet at the packet: each takes the other as an environment that
may send anything the other's code can send. Mutated definitions,
each marked `Mutant:`, stand before the definition they change; no specification
uses them. They show that the properties can fail.

**`ThreadPool`.** One action is the code between two points at which another
thread can see or change shared state: the test of `isRunning`, a lock, a critical
section with its unlock, one semaphore operation, one round of the loops of
`ThreadPoolExitHandle` and `DeInitDoublyLinkedListNode`. `workerPc` and `callerPc`
say where a thread is. Mutex, semaphore and join behave as in glibc: locking a
destroyed mutex fails and the caller goes on without it, destroying a locked mutex
does nothing, joining a thread id that names no thread is undefined (`fault`, or an
ESRCH that is ignored). Failures of `pthread_mutex_init`, `sem_init` and
`pthread_create` are modelled; a failed `malloc` returns without a change. A worker
that takes a node which Deinit has freed, and the other way round, ends the
behaviour with a `fault`. The list operations on `jobList` are those of
`LinkedList`, as sequence operations, in two steps each, since the mutex can have
been destroyed under them: DeleteTail reads the last node and the one before it
(`WorkerFindTail`) and then writes the list by them (`WorkerUnlink`), InsertHead
reads the first node (`AddFindHead`) and then links the new one (`AddLink`). With
the lock nothing comes between; without it two workers can read and take the same
node, which both run (`WorkerRunFreed` when the other has freed it), a node linked
meanwhile can be cut off, and a step that writes a node no longer in the list is a
use of freed memory (`WorkerUnlinkFreed`, `AddLinkFreed`). Deinit's loop is
modelled node by node.

**`LinkedList`.** The heap is explicit: `malloc` returns any free address, a freed
node keeps its fields until it is reused. One action is one call; only the loop of
DeInit takes a step per node. `SpecWithSwap` adds the exchange of two nodes that
are not neighbours, which leaves a wrong link (section 5); `Spec` is without it, so
that the other operations can be shown to be right.

**`MsgRouteServer`.** `Start` and `StartFails` are the calls of InitMsgRouteManager,
one at a time; what DeinitMsgRouteManager closes in a process that ends is left
out. The epoll thread's handling of one packet is one step, since nothing else
writes the table, except that on a disconnect erasing the entry
(`HandleDisconnect`) and `close` (`CloseFd`) are two. `epoll_ctl`, `epoll_wait` and
the `malloc` of a message can fail: a descriptor is then open but not `watched`,
the server is `deaf`, the message is dropped. The job is not one step: it
takes `g_clientInfoLock` only for a copy it never reads, and then reads
`g_clientInfo` twice without it. `JobCheck` is the test of an entry, `JobLoad` the
second read of the descriptor, `JobSend` the `send`. Descriptors are given out as
`accept` does, lowest first, so that they are reused; `workerConn` remembers where
a descriptor led when it was read. `inbox` and `outbox` are the packets in the
kernel, both bounded; `send` to a full one blocks. A job frees its message in a
step of its own. A broadcast looks at every entry, that of `ALL_APP_ID` included,
which only a client whose Init is still running asks for (`Early`).

**`MsgRouteClient`.** `g_initLock` orders Init and Deinit; everything else uses
`g_fd`, `g_isRunning` and `g_curAppId` without it, so each use is a step: Init
connects, sets `g_isRunning` and starts the thread, sets `g_curAppId`; Deinit stops,
closes, clears, and resets after its sleep; the receive thread checks, reads `g_fd`
as it enters `recv`, takes a packet, copies the callback, calls it, and closes
`g_fd` when its own connection has ended. Subscribe and Unsubscribe read `g_curAppId`
into the request (`Ask`, kept in `callApp`), send it through `g_fd` (`Tell`, or
`TellFails`), and change the table in a third step. A `recv` that waits keeps its
connection when the descriptor is closed. `told` is what the router will have
subscribed once it has read the requests. History variables say what is promised:
a type is `settled` when a Subscribe that was `alone` has returned, that is one that
found the appId when it was called and that no Init, no Deinit and no other call for
the type has crossed; a packet of a
settled type is `due`, and nothing is promised after an `overlap`, an Init that
finds the descriptor or the thread of an earlier one.

**`Log`.** WriteLogToCache holds `g_logMutex` throughout and is one step; the archive
thread holds no lock, so each of its calls is a step: the wait, the rename of the
`.bak`, `tar`, the two `remove`, the index. MyPrintLog looks at `g_isInit`
(`MyPrintLog`) and then at the output (`Output`) without a lock, and then appends
(`WriteLine`). MyLogDeinit is two steps around its sleep. A line is its number in the order in which WriteLogToCache took it, a file
the set of lines in it, since text is only ever appended; sizes are kept apart from
that (`offset`, `fileSize`). `cfg` is what the code tells apart in `g_logCfg`: all
zero, without file names, or one of the outputs. `write`, `rename`, `tar`, opening a file
for want of descriptors and starting the archive thread can fail, somebody may
remove the log file, and the process can crash at any step and, in `CrashInWrite`,
between `write` and `rename`; `DivideByZero` is the crash that the code brings about
itself. A line may be longer than `LOG_LINE_MAX`; one that does not fit behind the
others is written past the cache (`OverrunCache`), and the model ends there, as what is
overwritten is undefined. `past` says whether lines can have been lost.

**`Timer`.** A critical section of `g_eventInfoMutex` is one step. The look at
`g_isInit` under `g_initMutex` (`InitCheck`) is separate from the critical section
that follows (`AddInsert`, `Delete`), and the comparison after the unlock
(`AddReturn`) separate again; InitTimerEventManage is four steps, each of which can
fail. The handler's `epoll_wait`, its copy of the table, each `read` and each
callback are steps, and a failing `epoll_wait` ends the thread; a callback may call AddTimerEvent, DeleteTimerEvent and
SetTimerEvent. Descriptors are given out lowest first. `now` is CLOCK_MONOTONIC;
`SetTimer` treats `startTime` as a time of that clock, as the call does with the
flag it passes. A period is one unit of the clock. `taken` is the timer whose expiry the
handler's `read` got, if any, and `touched` the descriptors closed or set anew since its
`epoll_wait`: they say for what a callback is called.

## 3. Runs

| run | instance | shows |
|---|---|---|
| `pool_safety` | 3 threads (2 in a pool), 2 callers, 2 jobs, 1 failing create, 2 Deinits | type; tokens, counters and list agree; enough posts at exit; until the mutex is destroyed each job in one place, and refines `JobQueue` |
| `pool_live` | 2 threads, 1 caller, 2 jobs, 2 Deinits, no failing create | accepted jobs run, workers end, calls return |
| `list_core` | 4 addresses, 2 data values | type; links inverse and in order; no leak; no use of freed nodes; refines `ListSeq` |
| `list_swap_back` | 3 nodes | section 5 |
| `route_safety` | 2 clients, 2 descriptors, 2 messages, 1 worker | type; table names live clients, flags are the requests, subscribers are served, sends reach subscribers |
| `route_live` | 1 client that sends to itself, 2 workers, 2 messages, buffers of 1, 1 failure | what a client sends is received and dealt with |
| `route_stale` | 2 clients, 1 descriptor | section 5 |
| `timer_safety` | 2 callers, 2 callbacks that make calls, 3 descriptors, 2 slots, 2 Inits | type; table owns timers, none leaks, no callback of a timer gone before the copy, and the right one for the expiry |
| `timer_live` | 1 caller, 2 callbacks that make no calls, 2 descriptors, 1 slot, 2 Inits, 1 failing `epoll_wait` | expiries get to their own callback, calls return |
| `log_safety` | 2 printers, 2 archive threads, 4 lines, one of them too long, 2 archives, 1 Deinit, 1 crash or failure | type; lines in order and not twice; only the long line overruns the cache |
| `log_live` | 1 printer, 1 archive thread, 6 lines, 2 archives, 1 crash or failure | nothing missing but old archives; a `.bak` has its post; lines leave the cache, full files are taken |
| `client` | 2 threads, 1 type, 2 connections, 2 packets, 1 Deinit, 1 failure | type; one descriptor; packets in order; tables agree; packets reach their callback; the thread ends |

**Why the bounds are enough.** `THREAD_POOL_NUM_MAX` is 3, so that a pool has up to
two threads and `threadId[num]` is within the array; the third thread lets a new
Init run beside a thread left over from a failed one. Two callers let AddJob meet
Deinit; two jobs make the order visible and can be taken by two workers, or one be
linked while the other is taken; one create failure after zero or one
thread covers both entries of the exit handler; two Deinits cover the second one on a pool that is gone. Four
nodes give the list every shape in which two nodes are neighbours, ends, or
neither. Two clients and two descriptors make a descriptor change hands, in both
directions, while a message is under way; one worker is enough, because a worker
writes nothing another reads except the history of deliveries. In `route_live` two
workers and a buffer of one packet make every worker block at once. In
`timer_safety` two slots and three descriptors let the table be full (Init is also
called with one slot) and a descriptor and a slot be reused while the handler holds
a copy; two Inits let a call span a Deinit and an Init; in `timer_live` two
descriptors make `timerfd_create` fail. `MaxNow` is 2: a timer can be set for a time
that is over or yet to come. In the log's runs lines are a quarter or half of the cache
long, and in `log_safety` one is longer, so that it fits or not depending on what is
cached; the late flush of a short line leaves the log file open, any
other makes it full; two archives make the index go round. Four lines fill the `.bak`, the
log file and the cache; in `log_live` six lines reach every archive and replace one. Two archive threads in `log_safety` are those of two Inits with a Deinit
between. `MaxFd = 3` lets the descriptors run out. In `client` two connections let a
Deinit and an Init come between any two steps, and a failed Init be repeated; two
packets make an order. Checked by hand, beyond the time of a run: `route_safety` with
`MaxFaults = 1` (7.1 million states), and the invariants of `client` with two types, so that
a call for one crosses a call for the other (4.6 million states).
`timer_safety` has no failing `epoll_wait`, which the proofs cover. Symmetry is used in safety runs only, over sets whose
members are interchangeable.

**Deadlock** is checked everywhere but where the system may stop: in `timer_safety`
callbacks make calls, and Deinit and the handler can really wait for each other
(section 5); a log that nobody prints to, and whose threads have ended, and a client to
which nobody sends have nothing to do once the bounds are used up. When the pool or the
server has nothing left to do, `Rest` stutters.

**Conditions on the properties.** Some hold only where the code means them to.

- `~Exited`: the pool has not been told to exit. Deinit zeroes the counters and
  throws jobs away while workers run.
- `LockHolds`: the pool's mutex has not been destroyed; no create has failed, and the
  first Deinit is at its joins at most. Without it TLC finds, in the runs' instance, two
  workers that take one node, so that "in one place" and `ImplementsJobQueue` end there.
- `createFails = 0` for the promises about the end of the threads: after a failed
  Init the threads created so far run on with a destroyed mutex.
- `~straddled` in `Timer`: no Deinit finished between AddTimerEvent's insert and its
  return, and no Init began while an Add or Delete was under way. Beyond that the
  properties fail, as section 5 says. A call that sees `g_isInit` and then loses a
  race with Deinit alone, before it inserts or deletes, is included.
- `touched` in `Timer`: the descriptors closed or set anew since the handler's
  `epoll_wait`. Only for the others the handler knows whose expiry it reads.
- `SubscribersServed`, `FlagsMatchRequests` and `SendsToSubscriber` are for one
  client per appId, which `MCMsgRouteServer` gives, and, like `TableNamesLiveClients`,
  for clients that subscribe when their Init has ended (`Early = FALSE`).
- `EveryMessageHandled` is for the time until a call fails (`faults = 0`).
- `past` in `Log`: `NoGap` is for a calm log (nothing failed, and no `.bak` was overwritten);
  `BakHasPost` and `BakTaken` are for the first run, lossy or not, as a `.bak` that a
  crash or MyLogDeinit leaves behind has no post in the next one; `ArchivesInOrder` is
  for the time until MyLogDeinit is called, which can leave two archive threads.
- `overlap` in `MsgRouteClient`: `DescriptorOwned` and `HandledInOrder` are for the time until
  an Init finds the descriptor or the thread of an earlier one. `settled` and `due` are
  empty from there on. A Deinit does not end a thread in `recv`; it is the end of the
  router or the next packet that does, so that an Init after a Deinit overlaps unless one
  of them has come.

**Fairness.** Weak fairness of every thread's steps: the kernel runs every runnable
thread, and `Fairness` demands no new call from anyone. A pool worker's job and a
timer's callback return. In `route_live` each client reads what it is sent or
disconnects; without that a client can block a worker in `send` for ever. A lock is
weakly fair only: a caller waiting for `g_initMutex` gets it because the number of
Inits and Deinits is bounded and the others hold it for a step at a time. Nothing is
assumed of the timer's clock. In `log_live` the archive thread runs, its wait and
MyLogDeinit's sleep end, and LOG_TIME_OUT goes by (`TimePasses`); nobody has to print.
In `client` a call that has begun goes on and the receive thread runs, its callbacks
return; the router need not send, nor end. In `route_live` main goes on with the
start, or with its failure.

## 4. Proofs

Every invariant and every action property that a run checks is a theorem, for any
number of threads, clients, descriptors, nodes, lines or packets and any value of the
bounds, and so are the two refinements. The proofs rest on the constants' assumptions
alone:

- `ThreadPool`: a finite set of threads, no thread is a caller, `None` is no thread, caller
  or job, and the numbers are natural, `THREAD_POOL_NUM_MAX` positive.
- `LinkedList`: the head, `Null` and the nodes are different, and so are `Null` and the data.
- `MsgRouteServer`: `None` is none of the constants' values, the numbers are
  natural; `MessageAssumption` says that `None` is no message either.
- `MsgRouteClient`: an appId is a number other than that of *all apps*, the queue of a socket
  holds at least one packet, the bounds are natural, and `None` is no caller, type or number.
- `Timer`: at least one slot, a clock that can go on, a finite set of start times that is not
  empty, and `None`, the handler thread and the heartbeat are apart from threads and callbacks.
- `Log`: each line has a length, of which nothing is assumed but that it is positive,
  `LineMax` is below the size of the cache, there is at least one archive, and `None` is no
  printing thread and no time.

| module | theorem | statement |
|---|---|---|
| `ThreadPoolProofs` | `TypeCorrect` | `[]TypeOK`; in particular the indices into `threadId` are in range |
| | `JobsAccountedAlways` | `[]JobsAccounted`: until the pool is told to exit, an accepted job is on the list, held by a worker, or finished; until the mutex is destroyed it is in at most one of these places, once |
| | `CountMatchesListAlways` | `[]CountMatchesList` |
| | `PoolImplementsJobQueue` | `ImplementsJobQueue`: the pool refines `JobQueue` until the mutex is destroyed |
| `ThreadPoolCountProofs` | `TokensMatchJobsAlways` | `[]TokensMatchJobs`: no wake-up is lost and none is spurious |
| | `IdleCoversWaitingAlways` | `[]IdleCoversWaiting`: `idleThreadNum` covers the threads that wait and stays below the maximum |
| | `ExitTokensSufficeAlways` | `[]ExitTokensSuffice`: the posts of the exit handle are enough |
| `LinkedListProofs` | `TypeCorrect` | `[]TypeOK` |
| | `ListIsCircular` | `[]LinksMatchOrder`: `next` and `prev` describe one order, the one asked for |
| | `NodesAccounted` | `[]NoNodeLost` |
| | `NoUseAfterFree` | `[]NeverUsesFreed` |
| | `ListIsSequence` | `ImplementsListSeq`: the heap refines `ListSeq` |
| `MsgRouteServerProofs` | `TypeCorrect` | `[]TypeOK` |
| | `TableHasNoStaleEntry` | `[](Identified => TableNamesLiveClients)` |
| | `TableHoldsRequests` | `[](Regular => FlagsMatchRequests)` |
| | `EverySubscriberServed` | `[](Regular => SubscribersServed)` |
| | `SendsWhereItShould` | `SendsToSubscriber`, if `Regular` |
| `MsgRouteClientProofs` | `TypeCorrect` | `[]TypeOK` |
| | `SettledInBothTables` | `[]TablesAgree`: what is settled is in both tables |
| | `NoDescriptorLost` | `[]DescriptorOwned` |
| | `CallbacksInOrder` | `[]HandledInOrder` |
| `TimerProofs` | `TypeCorrect` | `[]TypeOK`; in particular `g_maxEventNum` stays within `g_eventInfo` |
| | `TableKept` | `[]TableOwnsTimers` |
| | `NoLeak` | `[]NoTimerLeaked` |
| | `RightCallback` | `[]CallbackOfTimer`: no callback of a timer gone before the copy; for an untouched descriptor its own timer's expiry |
| `LogProofs` | `TypeCorrect` | `[]TypeOK`; in particular an archive's index is below `maxFileNum` |
| | `OnlyLongLineOverruns` | `[]OverrunByLongLine`: only a line longer than `LOG_LINE_MAX` is written past the end of the cache |
| | `OrderKept` | `[]StoredInOrder`: cache, log file, `.bak` and archives hold the lines in order, none twice |
| | `BakPosted` | `[]BakHasPost`: in the first run of a log no full file is forgotten |
| | `NothingMissing` | `[]NoGap`: a calm log holds the last lines without a gap |

`Identified` and `Regular` are conditions on the server's constants, which its runs meet:
no client subscribes while its MsgRouteClientInit still runs (`Early = FALSE`), and, for
`Regular`, no two clients share an appId. Without them the properties fail, as section 5
says.

**The pool.** `TypeOK` is inductive by itself. `JobsAccounted` is not: the steps that
read the list and those that write it are different ones. The inductive invariant is
`JobsInv == Owned /\ (LockHolds => Places)`, in three layers.

- `Control` says where callers can be: *a caller inside a function holds `g_initMutex`*
  (`InitMutexHeld`), so that there is one at most; *a caller in the exit path means the pool
  was told to exit* (`ExitBegun`); *no Init sets `isRunning` after a Deinit* (`DeinitLast`);
  *a caller that adds a job finds the pool initialised* (`AddAfterInit`); and *while the
  lock has not been destroyed there is one, unless no worker was started* (`LockThere`).
- `Owned` adds what the lock gives while it is there: *a thread in a critical section owns
  it* (`LockOwned`), and so *what a worker has read of the list is still so when it writes*
  (`TailRead`). `WorkerAlone` and `CallerAlone` say that nobody else is in one.
- `Places` is `JobsAccounted` with two more facts: *every job in a place was submitted*, so
  that `AddLink` links one that is in no other place, and *the list is empty until Init has
  succeeded*, so that `InitEnter`, which empties it, loses none.

`PopPlaces`, `RunPlaces` and `AddPlaces` show what a worker that takes or has run a job and
a caller that adds one do to the three places; the `Quiet*` lemmas show that all other
steps leave them alone; `JobsStep` puts them together. `UnlinkTail` is where `Owned` is
used: the node unlinked is the last one. `ConsJobs` and `FrontJobs` are facts about
sequences without repetition. The refinement maps `queue` to `jobList` and `running` to the
jobs workers hold; a step is one of the three of `JobQueue` or leaves all four variables
alone.

The counts need `InitMutexHeld`, so that one post at most is under way, `DeinitLast`, and *the
threads that exist are those Init has counted* (`CreatedCounted`), which bounds the waiting
ones by the maximum. `CountsInv` is these and
the three properties in numbers: the cardinalities of the sets of workers at the places
before and after `sem_wait`. `WorkerMoves` says that a worker's step takes one thread
from one place to another, `Counted` and `NoneCounted` what that does to a count; the
rest is arithmetic, per action.

**The list.** The links are right if they are a *circle* over the abstract `order`:
`Circle(s, nx, pv)` says it position by position, as first-order facts that every call
keeps or changes at two or three nodes. There is a lemma about links and sequences alone
for each of InsertHead, InsertTail, DeleteHead, DeleteTail and the exchange of a node with the
next one; the other swap is the same exchange, named from its second node. `Placed` adds that a node is held by
the caller or in the list and never both, and where the loop of DeInit stands.
`CircleMatchesOrder` brings back `LinksMatchOrder`. The refinement maps `ListSeq`'s
sequence to the data of the nodes of `order` (`StoredSeq`); each call is one of
`ListSeq`'s actions, and DeInit clears it in one of its steps.

**The server.** `Typed` adds to `TypeOK` that a message is in one packet or in one place of
the pool and has its content (`MessagesOnce`, `JobsOnce`), and what a worker knows at each
place.

- `TableNamesLiveClients` needs *every request on its way carries the appId of its client*
  (`RequestsSigned`) and *an entry is the one of the client its descriptor leads to*
  (`TableSigned`): MsgRouteCoreEraseClientInfo, which stops at the first entry, then takes
  the only one.
- `FlagsMatchRequests` needs *a client is accepted once and asks for nothing before that*
  (`AcceptedOnce`) and *a client without an entry wants nothing* (`NothingLeftOver`), so that
  nothing is left over when an appId or a descriptor changes hands.
- `SubscribersServed` needs *whoever is still owed a message stays reachable through the
  table* (`OwedReachable`) and *has been served, or is ahead of the worker in its walk*
  (`ServedSoFar`), including between the worker's two reads of an entry.
- `SendsToSubscriber`, which is about messages and not answers, needs what the worker has seen of a client outlive the table's
  entry (`SendsKnown`): the history of requests, `asked`, only grows.

**The client.** `Typed` has the places, the lock and the numbering of connections and threads.
`TablesAgree` needs `CallsAgree`: *a Subscribe under way alone carries the appId until it has
told the router, and is the only call for its type; an Unsubscribe under way finds its type
no longer settled*. `DescriptorOwned` needs
`ClosedFirst`: *whoever is about to clear `g_fd` has closed it before*. `HandledInOrder` is
about sequences: packets are numbered as sent (`Numbered`), until an overlap one thread
reads the newest connection (`OneReader`), what is handled comes before what the thread
holds, and that before what is in the socket (`PacketsOrdered`), a due packet is handled or
on its way (`NoneDropped`), the thread closes only a connection it has read to the end
(`ReadToTheEnd`), and nothing is due to a client in Deinit (`QuietDeinit`).

**The timer.** `Known` holds always: types, who holds `g_initMutex` in which stage
(`Mutexed`), that a callback is added and deleted once (`CallbacksOnce`). `TimersKept` holds
until a call is straddled: what is in the table in each stage of Init and Deinit (`Staged`),
slots and open timers correspond (`Owned`), *the descriptors of the calls under way and those
handed out do not overlap* (`CallsApart`), and every open timer is in the table or of an
AddTimerEvent about to return (`NoneLost`). What is watched is open (`WatchedOpen`).
`CopyKept` is for the first half of `CallbackOfTimer`: the handler's copy holds no callback
that was deleted when it was taken. `RoundKept` is for the second, and says what a round of
the handler may rely on: *what `epoll_wait` returned and is not `touched` is still ready; if
the copy has such a descriptor, it has the callback of the timer behind it; and the
callback that runs for one got its own timer's expiry*.

**The log.** Types need one fact more than `TypeOK`: an archive thread that is to run
`tar` knows its time file (`TarHasTime`). `OverrunByLongLine` rests on `RoomForLine`, *there is
room for one more line of `LOG_LINE_MAX`*, which is inductive with the types, since a flush
is tried when a line, of whatever length, leaves less than that, and resets `offset` whether
it succeeds or not. `StoredInOrder` is not inductive, and has
two parts.

- `LiveInv` is for the cache, the log file and the `.bak`: they are in order, and *no line
  in them has a number that is still to be given*. `FlushOrder` shows it for every outcome
  of a flush, `LiveChange` for the rest: every other step only takes lines away.
- `ArchiveInv` is for the archives until MyLogDeinit is called. That a new archive comes
  after the others and before the `.bak` needs two facts: *the time file of a thread that
  is to run `tar` is between the archives and the live files* (`Between`), and *there is one
  archive thread* (`OneCycler`), which holds because Init starts one only if `g_isInit` is
  not set and only MyLogDeinit resets it.

`BakHasPost` needs `BakInv`: a flush in the first run finds the names set, and *before
MyLogInit there are no writers, no archive thread and no `.bak`*, so that Init's
`sem_init` throws no post away.

`NoGap` rests on both, and on `CalmInv`, which says what a calm log looks like: a file
that is open is there, and what is not empty has lines in it (`FlushFacts`), so that a
flush moves text and loses none; a post is for the `.bak` that is there (`PostsAgree`), so that
the rename never fails; a time file is somebody's who is archiving, and is removed only
when its text is in the archive (`ThreadAgrees`); counted from the index that is next, the
archives go from the oldest to the youngest, and the first time round only those below it
are in use (`CycleAgrees`); and all that is stored is an interval that ends with the
last line (`Contiguous`). `OldestReplaced` and `OldestRemoved` are the heart of it: `tar`
replaces the archive with the smallest numbers, and an interval without its smallest
numbers still is one.

**Invariants and TLC.** TLC finds the inductive invariants true of the runs' instances:
`JobsInv` and `CountsInv` with `PoolSafety.cfg`, `Inv` of the list with `ListCore.cfg`,
`DeliveryInv` with `RouteSafety.cfg`, the parts of `Inv` of the timer with `TimerSafety.cfg`,
those of the client with `Client.cfg`, and `LiveInv`, `FirstRunInv`, `BakInv` and
`CalmInv` with both configurations of the log. To repeat it, extend the MC module and the
proof module together and add the invariants to the configuration.

**Model-checked only.** The liveness properties, which need fairness and ENABLED:
`EveryJobRuns`, `WorkersEndAfterDeinit`, `CallsReturn` of the pool and of the timer,
`EveryMessageHandled`, `ExpiryHandled`, `CachedLineLeaves`, `BakTaken`, `DueHandled` and
`ReaderEnds`; the absence of deadlock; and the two runs that expect a violation.

## 5. What was found

Runs marked `violation` state what a comment, a message or a test says, and TLC
shows a behaviour of the code that breaks it.

1. `list_swap_back`: exchanging the first and third of three nodes leaves
   `head->prev` on the node that is now first.
2. `route_stale`: between the job's read of a descriptor and its `send`, the client
   can leave and another get the number: it receives a message it never asked for.

Seen while modelling. The models do what the code does here, and the properties say
under which condition they hold (section 3).

*Pool*
- After ThreadPoolDeinit `g_isInit` is still true: AddJob accepts jobs nobody runs, and
  ThreadPoolInit reports success and starts nothing.
- The exit loop joins `threadId[num]`, never `threadId[idx]`, so the mutex and the
  semaphore are destroyed while workers use them. From there on, and after an Init that
  failed to create a thread, the list has no lock: two workers may take the same node and
  run its job twice, or touch what the other has freed; a job linked at the same time may
  be cut off (`JobsAccounted` without `LockHolds`).

*Server*
- An answer is sent to `src`, which the server has just overwritten with the
  descriptor the answer came in on: it goes back to its sender. No property is about
  answers.
- MsgRouteCoreEraseClientInfo stops at the first entry it finds. A client that
  subscribes while its MsgRouteClientInit runs, under `ALL_APP_ID`, and later under its
  appId has two; when it leaves, the second names a closed descriptor, and then the next
  client that gets the number (`route_safety` with `Early = TRUE` violates
  `TableNamesLiveClients`).
- A second client with an appId in use never gets the entry: its flags are those of the
  first one's, and go with it (`FlagsMatchRequests` with one appId for two clients).
- If `epoll_ctl` fails for a new client, its descriptor stays open and is never read; if
  ThreadPoolInit fails, MsgRouteClientInfoDeinit runs on a table of zeros and closes
  descriptor 0, in a process that then ends.

*Client*
- `g_isInit` is never set: a second MsgRouteClientInit makes a second connection and a
  second thread, and nobody reads the first connection any more.
- Deinit does not end a thread that waits in `recv`. After the next Init, the old thread
  closes the *new* connection's descriptor when its own ends, and the new thread goes
  round on a `recv` of -1 without a pause.
- Init sets `g_curAppId` last: a Subscribe that reads it before that, though it may send
  afterwards, returns 0 and is entered under `ALL_APP_ID`, so that its client gets broadcasts
  only.
- If `pthread_create` fails, Init returns an error and leaves its connection open.
- Callbacks outlive Deinit, but not the router's table: after the next Init a packet of
  such a type would be handed out, and none is sent.

*Timer*
- `timerfd_settime` is given `CLOCK_MONOTONIC` (1, which is `TFD_TIMER_ABSTIME`) as flags,
  so a timer expires at once instead of after `startTime`.
- Deinit joins the handler while holding `g_initMutex`, for which a
  callback that calls AddTimerEvent or DeleteTimerEvent waits (`timer_live` with
  `CallbackCalls = TRUE` violates `CallsReturn`).
- An AddTimerEvent that meets a Deinit after its insert returns a closed descriptor as
  a success, or leaks one if the table was full; with an Init in between it can take
  slot 0, which the heartbeat then overwrites (`TableOwnsTimers` and `NoTimerLeaked`
  without `~straddled`).
- The handler does not look at what `read` returns. If a timer is deleted after `epoll_wait`
  and another gets its descriptor, the new one's callback can run without an expiry (the
  `read` fails with EAGAIN; the same after SetTimerEvent), or the deleted one's callback runs
  for an expiry of the new one. A one-shot expiry is then lost to its own timer
  (`CallbackOfTimer` and `ExpiryHandled` without `touched`).
- If `epoll_wait` fails, the handler thread ends, and no callback runs any more until the
  next Init.
- A failed InitTimerEventManage leaves `g_isRunning` set; nothing reads it before the
  next Init sets it again.

*Log*
- MyLogReadIdxFile opens the index file with `O_TRUNC` before it reads it: after a restart
  archives begin at 0 again and replace newer ones before older ones.
- A `.bak` that a crash leaves behind has no post in the next process, and is replaced by
  the next full file.
- MyLogDeinit clears `g_logCfg` while the archive thread may still compute a remainder by
  its `maxFileNum`: the process dies (`DivideByZero`). It drops the lines in the cache and
  keeps WriteLogToCache's `offset`, so that the next lines are put behind a gap of zero
  bytes, which is later written out.
- A MyLogInit during MyLogDeinit's sleep finds `g_isInit` reset, sets it, and has its
  configuration cleared: the log stays up without a file name and drops every line.
- MyLogWriteIdxFile never closes the index file: each archive costs a descriptor, and when
  there are none left the log file cannot be opened.
- If a `rename` in WriteLogToFile fails, the full file stays and grows, and the post it makes
  all the same lets the archive thread rename, or `remove`, a `.bak` that is not there.
- MyPrintLog looks at the output again after `g_isInit`: a MyLogDeinit in between turns a line
  for stdout into one for a file without a name.
- If the archive thread does not start, or the output is `OUTPUT_MAX_TYPE`, which line 243
  lets through, lines go to the file and nobody archives it: each full file replaces the last.
- After a failed `rename`, `remove` takes the `.bak`, which may have come meanwhile; the result
  of `tar` is not looked at before the file is removed; if the log file was removed, the next
  flush drops the cache with it.
- Line 134 filters nothing: `level & level == 0` is `level & (level == 0)`.
- MyLogInit returns 0 when MyLogCfgLoad fails, as `ret` is still 0 from the call before, and
  prints its start lines with `g_isInit` not set.
- `vsnprintf` returns the length a line would have had, so that one longer than `LOG_LINE_MAX`
  is counted in full, and `strncpy`, told that length, writes past the cache when it does not
  fit (`OverrunCache`).
- Line 279 reads through the pointer it
  has just found to be null; the model reads the configuration as one step.

## 6. Not modelled

- **cJSON**, the empty files and the test programs: no behaviour of the system's own.
- **Server**: the table before MsgRouteCoreInit, which only a failing start-up looks at. In
  `MsgRouteServer` a process has one connection; in the runs each appId has one client. An
  invalid packet is received and dropped; a failing `accept` or `recv` changes nothing.
- **Client**: the second read of `g_fd`, for `src`, which the server overwrites; SIGPIPE, which
  ends the process. MsgRouteClientSendMsg changes no state of the client; what it sends is in
  `MsgRouteServer`. Calls that fail before they change anything are no steps.
- **Log**: the JSON file is read as one step with any of its outcomes; the layout of a line;
  lines on stdout; the file names. A crash between two bytes of a `write`, and a `write` that
  is short. What a line that is too long overwrites.
- **List**: `PrintDoublyLinkedListNode` changes nothing. Misuse such as inserting a node
  that is already linked is left out.
- **Pool**: an EINTR of `sem_wait`, whose result the code does not look at (no signal handler is
  installed). After the mutex is destroyed: lost updates of `idleThreadNum` and `curJobNum`,
  and interleavings within the two steps of a list operation. A stale thread id in `threadId` after a failed Init of three threads, followed by
  a smaller one that succeeds, needs `ThreadPoolNumMax > 3`; no run has it.
- **Timer**: failures of `epoll_ctl`; the expiry count passed to a callback, which is the one
  before it when `read` fails; callers use
  only descriptors they were given, and a DeinitTimerEventManage from a callback is
  left out. Reads that race with a write of one word are atomic.

## 7. Plan

The order was: the pool, which everything concurrent rests on; the list, its data
structure; the server, the system's purpose, on the pool's abstract queue; the timer;
the log; the client; the server's start; and then the proofs, of the pool and the log
first and of everything else after them. Next:

1. The composition of `MsgRouteClient` and `MsgRouteServer`, in place of the environments
   they give each other: the subscription of a client whose Init still runs.
2. What the server keeps without `Regular`: two clients of one appId.
3. What the timer keeps of a call that a Deinit straddles.
4. What is left of the pool's list after the mutex is destroyed, node by node: which jobs a
   worker can still take twice.
