------------------------------ MODULE ThreadPool ------------------------------
(***************************************************************************)
(* framework/thread_pool/thread_pool.c: a fixed set of worker threads that *)
(* take jobs from a shared list, a counting semaphore that says how many   *)
(* jobs there are, and three entry points (ThreadPoolInit, ThreadPoolAddJob*)
(* and ThreadPoolDeinit) that any thread of the process may call.          *)
(*                                                                         *)
(* Grain of the steps.  One action is the code between two points at which *)
(* another thread may observe or change shared state: a read of isRunning, *)
(* the acquisition of a mutex, the body of a critical section with its     *)
(* unlock, one semaphore operation, one iteration of the loops of          *)
(* ThreadPoolExitHandle and DeInitDoublyLinkedListNode.  The two changes   *)
(* of the list, DeleteTail and InsertHead, are two steps each, what they   *)
(* read and what they write: ThreadPoolExitHandle destroys the mutex under *)
(* threads that go on to use it, and then nothing keeps them apart.  A     *)
(* call that returns without changing any state (an invalid argument, a    *)
(* pool that is not initialised, a failed malloc) is a stuttering step.    *)
(***************************************************************************)
EXTENDS Integers, SequencesExt

CONSTANTS
  Threads,            \* the pthreads pthread_create can ever return
  Callers,            \* the threads of the process that call the pool
  Jobs,               \* the jobs they submit, each one once
  None,               \* no thread, no job, no owner
  ThreadPoolNumMax,   \* THREAD_POOL_NUM_MAX: the length of threadId
  MaxCreateFails,     \* bound: calls of pthread_create that may fail
  MaxDeinits          \* bound: calls of ThreadPoolDeinit on a live pool

ASSUME ConstantsAssumption ==
  /\ IsFiniteSet(Threads)
  /\ None \notin Threads \cup Callers \cup Jobs
  /\ Threads \cap Callers = {}
  /\ ThreadPoolNumMax \in Nat \ {0}
  /\ MaxCreateFails \in Nat
  /\ MaxDeinits \in Nat

VARIABLES
  isInit,             \* g_isInit
  initMutex,          \* owner of g_initMutex, or None
  isRunning,          \* g_threadPoolInfo.isRunning
  curJobNum,          \* g_threadPoolInfo.curJobNum
  maxThreadNum,       \* g_threadPoolInfo.maxThreadNum
  idleThreadNum,      \* g_threadPoolInfo.idleThreadNum
  threadId,           \* g_threadPoolInfo.threadId
  lock,               \* owner of g_threadPoolInfo.lock, or None
  lockAlive,          \* the mutex is initialised and not destroyed
  sem,                \* value of g_threadPoolInfo.sem
  jobList,            \* jobs linked to g_jobListHead, head->next first
  freed,              \* jobs whose node is freed but still linked
  cursor,             \* `node' in DeInitDoublyLinkedListNode, None at the head
  workerPc,           \* where each worker thread is in PthreadPoolProcessThread
  workerJob,          \* the job each worker is running, or None
  headPrev,           \* `headPrev' of each worker's DeleteTail, or None
  headPrevPrev,       \* `headPrevPrev' of it, or None for the list head
  callerPc,           \* where each caller is in the pool's functions
  headNext,           \* `headNext' of the InsertHead under way, None for the head
  idx,                \* the loop counter of the caller inside g_initMutex
  exitNum,            \* `num' of ThreadPoolExitHandle
  joined,             \* pthreads that have been joined
  submitted,          \* jobs ThreadPoolAddJob has accepted
  finished,           \* jobs whose function has returned
  createFails,        \* how often pthread_create has failed
  deinits,            \* how often ThreadPoolDeinit found the pool initialised
  fault               \* "none", or the undefined behaviour that ended the process

poolVars == <<isInit, isRunning, maxThreadNum, threadId, lockAlive>>
listVars == <<jobList, freed, cursor>>
tailVars == <<headPrev, headPrevPrev>>
jobVars == <<workerJob, tailVars>>
workerVars == <<workerPc, jobVars>>
countVars == <<curJobNum, idleThreadNum>>
loopVars == <<idx, exitNum, joined>>
historyVars == <<submitted, finished, createFails, deinits, fault>>
vars == <<poolVars, initMutex, countVars, lock, sem, listVars, workerVars,
          callerPc, headNext, loopVars, historyVars>>

WorkerPcs == {"none", "check", "lock_idle", "idle", "wait", "lock_pop", "pop",
              "take", "run", "done"}
CallerPcs == {"out", "create", "lock_add", "add", "link", "post", "exit_post",
              "exit_join", "exit_destroy", "reset", "free"}

\* ThreadPoolExitHandle has been entered, by a failed Init or by Deinit.
Exited == createFails + deinits > 0

Created == {t \in Threads : workerPc[t] # "none"}

Init ==
  /\ isInit = FALSE
  /\ initMutex = None
  /\ isRunning = FALSE
  /\ curJobNum = 0 /\ maxThreadNum = 0 /\ idleThreadNum = 0
  /\ threadId = [i \in 0 .. ThreadPoolNumMax - 1 |-> None]
  /\ lock = None /\ lockAlive = FALSE /\ sem = 0
  /\ jobList = <<>> /\ freed = {} /\ cursor = None
  /\ workerPc = [t \in Threads |-> "none"]
  /\ workerJob = [t \in Threads |-> None]
  /\ headPrev = [t \in Threads |-> None]
  /\ headPrevPrev = [t \in Threads |-> None]
  /\ callerPc = [c \in Callers |-> "out"] /\ headNext = None
  /\ idx = 0 /\ exitNum = 0 /\ joined = {}
  /\ submitted = {} /\ finished = {}
  /\ createFails = 0 /\ deinits = 0
  /\ fault = "none"
-------------------------------------------------------------------------------
(***************************************************************************)
(* glibc's mutex.  Locking a destroyed mutex fails with EINVAL, a result   *)
(* the code does not look at: the caller goes on without owning it.        *)
(* Unlocking frees the mutex whoever owns it.  Destroying a mutex that is  *)
(* owned fails with EBUSY and leaves it alive.                             *)
(***************************************************************************)
Acquire(p) ==
  /\ lockAlive => lock = None
  /\ lock' = IF lockAlive THEN p ELSE lock

Release == lock' = None

DestroyLock == lockAlive' = (lockAlive /\ lock # None)

WorkerGoto(t, pc) == workerPc' = [workerPc EXCEPT ![t] = pc]

CallerGoto(c, pc) == callerPc' = [callerPc EXCEPT ![c] = pc]
-------------------------------------------------------------------------------
(***************************************************************************)
(* The worker threads: PthreadPoolProcessThread.                           *)
(***************************************************************************)

\* while (g_threadPoolInfo.isRunning)
WorkerCheck(t) ==
  /\ workerPc[t] = "check"
  /\ WorkerGoto(t, IF isRunning THEN "lock_idle" ELSE "done")
  /\ UNCHANGED <<poolVars, initMutex, countVars, lock, sem, listVars, jobVars,
                 callerPc, headNext, loopVars, historyVars>>

WorkerLockIdle(t) ==
  /\ workerPc[t] = "lock_idle"
  /\ Acquire(t)
  /\ WorkerGoto(t, "idle")
  /\ UNCHANGED <<poolVars, initMutex, countVars, sem, listVars, jobVars,
                 callerPc, headNext, loopVars, historyVars>>

\* Mutant: the counter is raised without looking at its maximum.
WorkerIdleUncapped(t) ==
  /\ workerPc[t] = "idle"
  /\ idleThreadNum' = idleThreadNum + 1
  /\ Release
  /\ WorkerGoto(t, "wait")
  /\ UNCHANGED <<poolVars, initMutex, curJobNum, sem, listVars, jobVars,
                 callerPc, headNext, loopVars, historyVars>>

\* The thread counts itself idle, unless the counter is at its maximum.
WorkerIdle(t) ==
  /\ workerPc[t] = "idle"
  /\ idleThreadNum' = IF idleThreadNum # maxThreadNum
                      THEN idleThreadNum + 1 ELSE idleThreadNum
  /\ Release
  /\ WorkerGoto(t, "wait")
  /\ UNCHANGED <<poolVars, initMutex, curJobNum, sem, listVars, jobVars,
                 callerPc, headNext, loopVars, historyVars>>

\* Mutant: sem_wait does not wait.
WorkerWaitNever(t) ==
  /\ workerPc[t] = "wait"
  /\ sem' = sem - 1
  /\ WorkerGoto(t, "lock_pop")
  /\ UNCHANGED <<poolVars, initMutex, countVars, lock, listVars, jobVars,
                 callerPc, headNext, loopVars, historyVars>>

WorkerWait(t) ==
  /\ workerPc[t] = "wait"
  /\ sem > 0
  /\ sem' = sem - 1
  /\ WorkerGoto(t, "lock_pop")
  /\ UNCHANGED <<poolVars, initMutex, countVars, lock, listVars, jobVars,
                 callerPc, headNext, loopVars, historyVars>>

WorkerLockPop(t) ==
  /\ workerPc[t] = "lock_pop"
  /\ Acquire(t)
  /\ WorkerGoto(t, "pop")
  /\ UNCHANGED <<poolVars, initMutex, countVars, sem, listVars, jobVars,
                 callerPc, headNext, loopVars, historyVars>>

\* The process has touched a node or a job that was freed.  What it does next
\* is undefined; the model ends here, or goes on where it can.
UseAfterFree ==
  /\ fault' = "use_after_free"
  /\ UNCHANGED <<poolVars, initMutex, countVars, lock, sem, listVars, workerVars,
                 callerPc, headNext, loopVars, submitted, finished, createFails,
                 deinits>>

\* Mutant: the early way out of the critical section forgets the unlock.
WorkerPopNothingLocked(t) ==
  /\ workerPc[t] = "pop"
  /\ jobList = <<>>
  /\ idleThreadNum' = idleThreadNum - 1
  /\ WorkerGoto(t, "check")
  /\ UNCHANGED <<poolVars, initMutex, curJobNum, lock, sem, listVars, jobVars,
                 callerPc, headNext, loopVars, historyVars>>

\* The list is empty: DeleteTail returns -1 and the thread goes round again.
WorkerPopNothing(t) ==
  /\ workerPc[t] = "pop"
  /\ jobList = <<>>
  /\ idleThreadNum' = idleThreadNum - 1
  /\ Release
  /\ WorkerGoto(t, "check")
  /\ UNCHANGED <<poolVars, initMutex, curJobNum, sem, listVars, jobVars,
                 callerPc, headNext, loopVars, historyVars>>

\* The i-th node of the list; the list head, called None, comes before the first.
NodeAt(i) == IF i = 0 THEN None ELSE jobList[i]

Linked == ToSet(jobList) \ freed

\* The oldest job is at the tail.  DeleteTail reads the last node, which
\* DeInitDoublyLinkedListNode may have freed, and the one before it ...
WorkerFindTail(t) ==
  /\ workerPc[t] = "pop"
  /\ jobList # <<>> /\ Last(jobList) \in Linked
  /\ idleThreadNum' = idleThreadNum - 1
  /\ headPrev' = [headPrev EXCEPT ![t] = Last(jobList)]
  /\ headPrevPrev' = [headPrevPrev EXCEPT ![t] = NodeAt(Len(jobList) - 1)]
  /\ WorkerGoto(t, "take")
  /\ UNCHANGED <<poolVars, initMutex, curJobNum, lock, sem, listVars, workerJob,
                 callerPc, headNext, loopVars, historyVars>>

WorkerFindFreed(t) ==
  /\ workerPc[t] = "pop"
  /\ jobList # <<>> /\ Last(jobList) \notin Linked
  /\ UseAfterFree

\* A thread takes the job out of the list, leaving the rest, and gives the
\* lock back.
TakeJob(t, job, rest) ==
  /\ workerPc[t] = "take"
  /\ headPrev[t] \notin freed
  /\ jobList' = rest
  /\ workerJob' = [workerJob EXCEPT ![t] = job]
  /\ headPrev' = [headPrev EXCEPT ![t] = None]
  /\ headPrevPrev' = [headPrevPrev EXCEPT ![t] = None]
  /\ Release
  /\ WorkerGoto(t, "run")
  /\ UNCHANGED <<poolVars, initMutex, idleThreadNum, sem, freed, cursor, callerPc,
                 headNext, loopVars, historyVars>>

\* Mutant: the newest job is taken instead of the oldest.
WorkerUnlinkNewest(t) ==
  /\ jobList # <<>>
  /\ TakeJob(t, Head(jobList), Tail(jobList)) /\ curJobNum' = curJobNum - 1

\* Mutant: curJobNum is not lowered.
WorkerUnlinkUncounted(t) ==
  \E i \in 0 .. Len(jobList) :
    /\ NodeAt(i) = headPrevPrev[t] /\ NodeAt(i) \notin freed
    /\ TakeJob(t, headPrev[t], SubSeq(jobList, 1, i)) /\ UNCHANGED curJobNum

\* ... and writes the second: it is the last node now.  Without the lock both
\* may be out of date: another worker may have taken the same node, which is
\* then taken twice, and a job linked in between is cut off.
WorkerUnlink(t) ==
  \E i \in 0 .. Len(jobList) :
    /\ NodeAt(i) = headPrevPrev[t] /\ NodeAt(i) \notin freed
    /\ TakeJob(t, headPrev[t], SubSeq(jobList, 1, i)) /\ curJobNum' = curJobNum - 1

\* One of the two nodes is no longer in the list: it is read, written or freed
\* after it was freed.
WorkerUnlinkFreed(t) ==
  /\ workerPc[t] = "take"
  /\ headPrev[t] \notin Linked \/ headPrevPrev[t] \notin Linked \cup {None}
  /\ UseAfterFree

\* jobFunc(arg) returns and the job is freed.  No job of the repository calls
\* back into the pool.
WorkerRun(t) ==
  /\ workerPc[t] = "run"
  /\ finished' = finished \cup {workerJob[t]}
  /\ workerJob' = [workerJob EXCEPT ![t] = None]
  /\ WorkerGoto(t, "check")
  /\ UNCHANGED <<poolVars, initMutex, countVars, lock, sem, listVars, tailVars, callerPc,
                 headNext, loopVars, submitted, createFails, deinits, fault>>

\* A job that was taken twice has been run and freed by the other worker.
WorkerRunFreed(t) ==
  /\ workerPc[t] = "run"
  /\ workerJob[t] \in finished
  /\ UseAfterFree

Worker(t) ==
  \/ WorkerCheck(t)
  \/ WorkerLockIdle(t) \/ WorkerIdle(t)
  \/ WorkerWait(t)
  \/ WorkerLockPop(t) \/ WorkerPopNothing(t)
  \/ WorkerFindTail(t) \/ WorkerFindFreed(t)
  \/ WorkerUnlink(t) \/ WorkerUnlinkFreed(t)
  \/ WorkerRun(t) \/ WorkerRunFreed(t)
-------------------------------------------------------------------------------
(***************************************************************************)
(* ThreadPoolInit.                                                         *)
(***************************************************************************)

\* g_initMutex is taken, and the list head and the counters are set up.
SetUp(threadNum) ==
  /\ initMutex = None
  /\ threadNum > 0 /\ threadNum < ThreadPoolNumMax
  /\ jobList' = <<>>
  /\ isRunning' = TRUE
  /\ curJobNum' = 0
  /\ maxThreadNum' = threadNum
  /\ idleThreadNum' = threadNum
  /\ lock' = None

\* Mutant: a second Init sets up the pool that is already there again.
InitEnterTwice(c, threadNum) ==
  /\ callerPc[c] = "out"
  /\ SetUp(threadNum)
  /\ lockAlive' = TRUE
  /\ initMutex' = c /\ sem' = 0 /\ idx' = 0
  /\ CallerGoto(c, "create")
  /\ UNCHANGED <<isInit, threadId, freed, cursor, workerVars, exitNum, joined,
                 headNext, historyVars>>

\* The pool is not initialised, and gets its mutex and its semaphore.
InitEnter(c, threadNum) ==
  /\ callerPc[c] = "out" /\ ~isInit
  /\ SetUp(threadNum)
  /\ lockAlive' = TRUE
  /\ initMutex' = c /\ sem' = 0 /\ idx' = 0
  /\ CallerGoto(c, "create")
  /\ UNCHANGED <<isInit, threadId, freed, cursor, workerVars, exitNum, joined,
                 headNext, historyVars>>

\* pthread_mutex_init or sem_init fails: the fields set before it keep their
\* new values, the mutex does not exist, and g_initMutex is given back.
InitResourceFails(c, threadNum) ==
  /\ callerPc[c] = "out" /\ ~isInit
  /\ SetUp(threadNum)
  /\ lockAlive' = FALSE
  /\ UNCHANGED <<isInit, initMutex, threadId, sem, freed, cursor, workerVars,
                 callerPc, headNext, loopVars, historyVars>>

InitCreate(c) ==
  /\ callerPc[c] = "create"
  /\ idx < maxThreadNum
  /\ \E t \in Threads \ Created :
       /\ threadId' = [threadId EXCEPT ![idx] = t]
       /\ WorkerGoto(t, "check")
  /\ idx' = idx + 1
  /\ UNCHANGED <<isInit, isRunning, maxThreadNum, lockAlive, initMutex, countVars,
                 lock, sem, listVars, workerJob, tailVars, callerPc, exitNum, joined,
                 headNext, historyVars>>

\* ThreadPoolExitHandle(num) is entered.
ExitBegin(c, num) ==
  /\ isRunning' = FALSE
  /\ exitNum' = num
  /\ idx' = 0
  /\ CallerGoto(c, IF num = 0 THEN "exit_destroy" ELSE "exit_post")
  /\ UNCHANGED <<isInit, maxThreadNum, lockAlive, countVars, lock, sem, listVars,
                 workerVars, headNext, joined, submitted, finished, fault>>

\* pthread_create fails: its result argument is unspecified, and the threads
\* created so far are told to leave.
InitCreateFails(c) ==
  /\ callerPc[c] = "create"
  /\ idx < maxThreadNum
  /\ createFails < MaxCreateFails
  /\ createFails' = createFails + 1
  /\ threadId' = [threadId EXCEPT ![idx] = None]
  /\ ExitBegin(c, idx)
  /\ UNCHANGED <<initMutex, deinits>>

InitDone(c) ==
  /\ callerPc[c] = "create"
  /\ idx = maxThreadNum
  /\ isInit' = TRUE
  /\ initMutex' = None
  /\ CallerGoto(c, "out")
  /\ UNCHANGED <<isRunning, maxThreadNum, threadId, lockAlive, countVars, lock,
                 sem, listVars, workerVars, headNext, loopVars, historyVars>>
-------------------------------------------------------------------------------
(***************************************************************************)
(* ThreadPoolAddJob.                                                       *)
(***************************************************************************)

\* g_initMutex is taken, the pool is initialised and both mallocs succeed.
AddEnter(c) ==
  /\ callerPc[c] = "out" /\ initMutex = None
  /\ isInit
  /\ submitted # Jobs
  /\ initMutex' = c
  /\ CallerGoto(c, "lock_add")
  /\ UNCHANGED <<poolVars, countVars, lock, sem, listVars, workerVars, headNext, loopVars,
                 historyVars>>

AddLock(c) ==
  /\ callerPc[c] = "lock_add"
  /\ Acquire(c)
  /\ CallerGoto(c, "add")
  /\ UNCHANGED <<poolVars, initMutex, countVars, sem, listVars, workerVars,
                 headNext, loopVars, historyVars>>

\* InsertHead reads the first node ...
AddFindHead(c) ==
  /\ callerPc[c] = "add"
  /\ headNext' = IF jobList = <<>> THEN None ELSE Head(jobList)
  /\ CallerGoto(c, "link")
  /\ UNCHANGED <<poolVars, initMutex, countVars, lock, sem, listVars, workerVars,
                 loopVars, historyVars>>

\* ... and links the new one before it.
AddLink(c, j) ==
  /\ callerPc[c] = "link"
  /\ headNext \in ToSet(jobList) \cup {None}
  /\ j \notin submitted
  /\ submitted' = submitted \cup {j}
  /\ jobList' = <<j>> \o jobList
  /\ headNext' = None
  /\ curJobNum' = curJobNum + 1
  /\ Release
  /\ CallerGoto(c, "post")
  /\ UNCHANGED <<poolVars, initMutex, idleThreadNum, sem, freed, cursor, workerVars,
                 loopVars, finished, createFails, deinits, fault>>

\* A worker without the lock has taken the first node, and freed it.
AddLinkFreed(c) ==
  /\ callerPc[c] = "link"
  /\ headNext \notin ToSet(jobList) \cup {None}
  /\ UseAfterFree

\* Mutant: the job is linked and no worker is told.
AddPostLost(c) ==
  /\ callerPc[c] = "post"
  /\ initMutex' = None
  /\ CallerGoto(c, "out")
  /\ UNCHANGED <<poolVars, countVars, lock, sem, listVars, workerVars, headNext, loopVars,
                 historyVars>>

AddPost(c) ==
  /\ callerPc[c] = "post"
  /\ sem' = sem + 1
  /\ initMutex' = None
  /\ CallerGoto(c, "out")
  /\ UNCHANGED <<poolVars, countVars, lock, listVars, workerVars, headNext, loopVars,
                 historyVars>>
-------------------------------------------------------------------------------
(***************************************************************************)
(* ThreadPoolDeinit, and ThreadPoolExitHandle which Init also calls when a *)
(* thread cannot be created.                                               *)
(***************************************************************************)

DeinitWith(c, num) ==
  /\ callerPc[c] = "out" /\ initMutex = None
  /\ isInit
  /\ deinits < MaxDeinits
  /\ deinits' = deinits + 1
  /\ initMutex' = c
  /\ ExitBegin(c, num)
  /\ UNCHANGED <<threadId, createFails>>

\* Mutant: one thread too few is told to leave.
DeinitEnterOneFewer(c) ==
  DeinitWith(c, IF maxThreadNum = 0 THEN 0 ELSE maxThreadNum - 1)

DeinitEnter(c) == DeinitWith(c, maxThreadNum)

ExitPost(c) ==
  /\ callerPc[c] = "exit_post"
  /\ sem' = sem + 1
  /\ CallerGoto(c, "exit_join")
  /\ UNCHANGED <<poolVars, initMutex, countVars, lock, listVars, workerVars,
                 headNext, loopVars, historyVars>>

\* The loop joins threadId[num], the entry after the last thread created, and
\* not threadId[idx].
JoinTarget == threadId[exitNum]

Joinable(t) == t # None /\ t \notin joined

ExitNext(c) ==
  /\ idx' = idx + 1
  /\ CallerGoto(c, IF idx + 1 = exitNum THEN "exit_destroy" ELSE "exit_post")

\* pthread_join of a live thread waits for it; of a thread id that names no
\* joinable thread it is undefined: glibc 2.36 returns ESRCH ...
ExitJoin(c) ==
  /\ callerPc[c] = "exit_join"
  /\ Joinable(JoinTarget) => workerPc[JoinTarget] = "done"
  /\ joined' = IF Joinable(JoinTarget) THEN joined \cup {JoinTarget} ELSE joined
  /\ ExitNext(c)
  /\ UNCHANGED <<poolVars, initMutex, countVars, lock, sem, listVars, workerVars,
                 exitNum, headNext, historyVars>>

\* ... and older versions dereference it and end the process.
ExitJoinCrash(c) ==
  /\ callerPc[c] = "exit_join"
  /\ ~Joinable(JoinTarget)
  /\ fault' = "bad_join"
  /\ UNCHANGED <<poolVars, initMutex, countVars, lock, sem, listVars, workerVars,
                 callerPc, headNext, loopVars, submitted, finished, createFails, deinits>>

\* The mutex and the semaphore are destroyed (sem_destroy does nothing in
\* glibc).  Init gives g_initMutex back and returns the error; Deinit goes on.
ExitDestroy(c) ==
  /\ callerPc[c] = "exit_destroy"
  /\ DestroyLock
  /\ IF isInit
     THEN CallerGoto(c, "reset") /\ UNCHANGED initMutex
     ELSE CallerGoto(c, "out") /\ initMutex' = None
  /\ UNCHANGED <<isInit, isRunning, maxThreadNum, threadId, countVars, lock, sem,
                 listVars, workerVars, headNext, loopVars, historyVars>>

DeinitReset(c) ==
  /\ callerPc[c] = "reset"
  /\ curJobNum' = 0 /\ maxThreadNum' = 0 /\ idleThreadNum' = 0
  /\ cursor' = IF jobList = <<>> THEN None ELSE Head(jobList)
  /\ CallerGoto(c, "free")
  /\ UNCHANGED <<isInit, isRunning, threadId, lockAlive, initMutex, lock, sem,
                 jobList, freed, workerVars, headNext, loopVars, historyVars>>

\* One iteration of DeInitDoublyLinkedListNode, which runs without the lock:
\* node = node->next, then the node that was left behind is freed.
DeinitFree(c) ==
  /\ callerPc[c] = "free"
  /\ \E i \in DOMAIN jobList :
       /\ jobList[i] = cursor
       /\ cursor' = IF i = Len(jobList) THEN None ELSE jobList[i + 1]
  /\ freed' = freed \cup {cursor}
  /\ UNCHANGED <<poolVars, initMutex, countVars, lock, sem, jobList, workerVars,
                 callerPc, headNext, loopVars, historyVars>>

\* A worker has taken the node the loop stands on, and freed it.
DeinitFreeFreed(c) ==
  /\ callerPc[c] = "free"
  /\ cursor # None /\ ~Contains(jobList, cursor)
  /\ UseAfterFree

\* g_isInit is left as it is.
DeinitDone(c) ==
  /\ callerPc[c] = "free"
  /\ cursor = None
  /\ jobList' = <<>>
  /\ freed' = {}
  /\ initMutex' = None
  /\ CallerGoto(c, "out")
  /\ UNCHANGED <<poolVars, countVars, lock, sem, cursor, workerVars, headNext, loopVars,
                 historyVars>>

\* The steps of a caller inside one of the functions ...
CallerStep(c) ==
  \/ InitCreate(c) \/ InitDone(c)
  \/ AddLock(c) \/ AddFindHead(c) \/ (\E j \in Jobs : AddLink(c, j))
  \/ AddLinkFreed(c) \/ AddPost(c)
  \/ ExitPost(c) \/ ExitJoin(c) \/ ExitJoinCrash(c) \/ ExitDestroy(c)
  \/ DeinitReset(c) \/ DeinitFree(c) \/ DeinitFreeFreed(c) \/ DeinitDone(c)

\* ... and the ones that start a call, or make it fail.
CallerChoice(c) ==
  \/ \E n \in 0 .. ThreadPoolNumMax : InitEnter(c, n) \/ InitResourceFails(c, n)
  \/ InitCreateFails(c)
  \/ AddEnter(c)
  \/ DeinitEnter(c)

\* Nothing is left to do: every caller is outside, each worker has ended or
\* waits for a job that nobody will submit, or the process is dead.
Quiescent ==
  \/ fault # "none"
  \/ /\ \A c \in Callers : callerPc[c] = "out"
     /\ \A t \in Threads : workerPc[t] \in {"none", "wait", "done"}
     /\ Exited \/ jobList = <<>>
     /\ isInit /\ submitted = Jobs /\ deinits = MaxDeinits

Rest == Quiescent /\ UNCHANGED vars

Next ==
  \/ /\ fault = "none"
     /\ \/ \E t \in Threads : Worker(t)
        \/ \E c \in Callers : CallerStep(c) \/ CallerChoice(c)
  \/ Rest

Spec == Init /\ [][Next]_vars

\* The kernel runs every runnable thread, and a job's function returns.
\* Nothing obliges a caller to make another call.
Fairness ==
  /\ \A t \in Threads : WF_vars(fault = "none" /\ Worker(t))
  /\ \A c \in Callers : WF_vars(fault = "none" /\ CallerStep(c))

FairSpec == Spec /\ Fairness
-------------------------------------------------------------------------------
(***************************************************************************)
(* Properties.                                                             *)
(***************************************************************************)

\* Every variable of the pool has its type.
TypeOK ==
  /\ isInit \in BOOLEAN /\ isRunning \in BOOLEAN /\ lockAlive \in BOOLEAN
  /\ initMutex \in Callers \cup {None}
  /\ lock \in Threads \cup Callers \cup {None}
  /\ curJobNum \in Int /\ idleThreadNum \in Int
  /\ maxThreadNum \in 0 .. ThreadPoolNumMax - 1 /\ sem \in Nat
  /\ threadId \in [0 .. ThreadPoolNumMax - 1 -> Threads \cup {None}]
  /\ jobList \in Seq(Jobs) /\ freed \in SUBSET Jobs /\ cursor \in Jobs \cup {None}
  /\ workerPc \in [Threads -> WorkerPcs]
  /\ workerJob \in [Threads -> Jobs \cup {None}]
  /\ headPrev \in [Threads -> Jobs \cup {None}]
  /\ headPrevPrev \in [Threads -> Jobs \cup {None}]
  /\ headNext \in Jobs \cup {None}
  /\ callerPc \in [Callers -> CallerPcs]
  /\ idx \in Nat /\ exitNum \in 0 .. ThreadPoolNumMax - 1 /\ joined \in SUBSET Threads
  /\ submitted \in SUBSET Jobs /\ finished \in SUBSET (Jobs \cup {None})
  /\ createFails \in Nat /\ deinits \in Nat
  /\ fault \in {"none", "bad_join", "use_after_free"}

WorkersAt(pcs) == {t \in Threads : workerPc[t] \in pcs}

CallerAt(pcs) == \E c \in Callers : callerPc[c] \in pcs

\* No wake-up is lost and none is spurious: until the pool is told to exit,
\* the semaphore's value, the workers it has let through that have not yet
\* taken a job, and the job whose sem_post is still to come add up to the
\* length of the list.  So a worker that wakes up always finds a job, and a
\* job on the list always has a token (thread_pool.c:63-73 and 185-190).
TokensMatchJobs ==
  ~Exited => sem + Cardinality(WorkersAt({"lock_pop", "pop", "take"}))
                 + (IF CallerAt({"post"}) THEN 1 ELSE 0) = Len(jobList)

\* curJobNum, which two functions keep by hand under the lock, is the length
\* of the list until the pool is told to exit (thread_pool.c:72 and 188).
CountMatchesList == ~Exited => curJobNum = Len(jobList)

\* idleThreadNum never reports fewer threads than are waiting and never more
\* than the pool has, although it starts at the maximum before any thread runs
\* and each thread may or may not count itself in (thread_pool.c:58-66, 105).
IdleCoversWaiting ==
  ~Exited => /\ Cardinality(WorkersAt({"wait", "lock_pop", "pop"})) <= idleThreadNum
             /\ idleThreadNum <= maxThreadNum

\* The jobs that workers are running.
Held == {workerJob[t] : t \in WorkersAt({"run"})}

\* pthread_mutex_destroy has not been called: no thread has failed to start, and
\* the first Deinit, if there was one, is at its joins.  From then on the list
\* has no lock.
LockHolds ==
  /\ createFails = 0
  /\ \/ deinits = 0
     \/ deinits = 1 /\ CallerAt({"exit_post", "exit_join", "exit_destroy"})

\* Until the pool is told to exit, an accepted job is on the list, in the
\* hands of a worker, or finished; and until its mutex is destroyed, during the
\* joins of Deinit as well, no job is in two of these places, linked twice, or
\* held by two workers: it is run at most once (thread_pool.c:67-77 and 187).
\* Afterwards two workers may take the same node.
JobsAccounted ==
  /\ ~Exited => submitted = finished \cup Held \cup ToSet(jobList)
  /\ LockHolds => /\ finished \cap Held = {}
                  /\ (finished \cup Held) \cap ToSet(jobList) = {}
                  /\ \A t, u \in WorkersAt({"run"}) : workerJob[t] = workerJob[u] => t = u
                  /\ IsInjective(jobList)

\* The posts ThreadPoolExitHandle still owes.
PostsOwed ==
  IF CallerAt({"exit_post"}) THEN exitNum - idx
  ELSE IF CallerAt({"exit_join"}) THEN exitNum - idx - 1 ELSE 0

\* A pool whose threads were all created lets every one of them go: once
\* isRunning is down, each worker that may still block in sem_wait has a
\* token in the semaphore or one that ThreadPoolExitHandle is about to post,
\* whatever jobs are left (thread_pool.c:35-46 and 56-63).
ExitTokensSuffice ==
  (~isRunning /\ createFails = 0) =>
     Cardinality(WorkersAt({"lock_idle", "idle", "wait"})) <= sem + PostsOwed

\* An accepted job is run, unless the pool is told to exit.
EveryJobRuns ==
  \A j \in Jobs : (j \in submitted) ~> (j \in finished \/ Exited)

\* Every thread ends after ThreadPoolDeinit, even though nobody waits for it,
\* unless the process is lost first.
WorkersEndAfterDeinit ==
  (deinits > 0 /\ createFails = 0) ~>
     (fault # "none" \/ \A t \in Created : workerPc[t] = "done")

\* A call of ThreadPoolInit, AddJob or Deinit comes to its end: nobody holds
\* g_initMutex for ever, not even across the joins (thread_pool.c:40-46).
CallsReturn ==
  \A c \in Callers : (initMutex = c) ~> (initMutex # c \/ fault # "none")

\* The pool implements JobQueue until its mutex is destroyed: oldest first, each
\* job started once, and none leaves the list unstarted.
AbstractQueue ==
  INSTANCE JobQueue WITH queue <- jobList,
                         running <- Held

QueueStep == LockHolds' => AbstractQueue!Next

ImplementsJobQueue ==
  AbstractQueue!Init /\ [][QueueStep]_<<jobList, submitted, Held, finished>>
===============================================================================
