--------------------------- MODULE ThreadPoolProofs ---------------------------
(***************************************************************************)
(* Proofs about ThreadPool, for any number of threads, callers and jobs.   *)
(***************************************************************************)
EXTENDS ThreadPool, DataLemmas

\* The type invariant is inductive (thread_pool.c:12-33: the fields of the pool
\* and, above all, that threadId is never indexed outside its bounds).
LEMMA TypeInit == Init => TypeOK
<1> SUFFICES ASSUME Init PROVE TypeOK
  OBVIOUS
<1>1. /\ workerPc \in [Threads -> WorkerPcs] /\ callerPc \in [Callers -> CallerPcs]
      /\ workerJob \in [Threads -> Jobs \cup {None}]
      /\ headPrev \in [Threads -> Jobs \cup {None}]
      /\ headPrevPrev \in [Threads -> Jobs \cup {None}]
  BY DEF Init, WorkerPcs, CallerPcs
<1>2. threadId \in [0 .. ThreadPoolNumMax - 1 -> Threads \cup {None}]
  BY DEF Init
<1>3. QED BY <1>1, <1>2, ConstantsAssumption DEF Init, TypeOK

\* The first nodes of a list, and all but the last.
LEMMA FirstPart ==
  ASSUME NEW S, NEW s \in Seq(S), NEW i \in 0 .. Len(s)
  PROVE  SubSeq(s, 1, i) \in Seq(S)
<1>1. Len(s) \in Nat /\ \A k \in 1 .. Len(s) : s[k] \in S
  BY LenProperties, ElementOfSeq
<1>2. i \in Int /\ 1 \in Int /\ \A k \in 1 .. i : s[k] \in S
  BY <1>1
<1>3. QED BY <1>2, SubSeqProperties

LEMMA TypeStep == TypeOK /\ [Next]_vars => TypeOK'
<1> SUFFICES ASSUME TypeOK, [Next]_vars PROVE TypeOK'
  OBVIOUS
<1> USE ConstantsAssumption DEF TypeOK, WorkerPcs, CallerPcs, poolVars, listVars,
        jobVars, tailVars, workerVars, countVars, loopVars, historyVars, WorkerGoto, CallerGoto,
        Acquire, Release
<1>1. ASSUME NEW t \in Threads, Worker(t) PROVE TypeOK'
  <2>1. CASE WorkerCheck(t)
    BY <2>1 DEF WorkerCheck
  <2>2. CASE WorkerLockIdle(t)
    BY <2>2 DEF WorkerLockIdle
  <2>3. CASE WorkerIdle(t)
    BY <2>3 DEF WorkerIdle
  <2>4. CASE WorkerWait(t)
    BY <2>4 DEF WorkerWait
  <2>5. CASE WorkerLockPop(t)
    BY <2>5 DEF WorkerLockPop
  <2>6. CASE WorkerPopNothing(t)
    BY <2>6 DEF WorkerPopNothing
  <2>7. CASE WorkerFindTail(t)
    <3>1. Last(jobList) \in Jobs
      BY <2>7, FrontLast DEF WorkerFindTail
    <3>2. NodeAt(Len(jobList) - 1) \in Jobs \cup {None}
      <4>1. Len(jobList) \in Nat /\ \A k \in 1 .. Len(jobList) : jobList[k] \in Jobs
        BY LenProperties, ElementOfSeq
      <4>2. Len(jobList) - 1 = 0 \/ Len(jobList) - 1 \in 1 .. Len(jobList)
        BY <2>7, <4>1, EmptySeq DEF WorkerFindTail
      <4>3. QED BY <4>1, <4>2 DEF NodeAt
    <3> QED
      BY <2>7, <3>1, <3>2 DEF WorkerFindTail
  <2>8. CASE WorkerUnlink(t)
    <3>1. PICK i \in 0 .. Len(jobList) : TakeJob(t, headPrev[t], SubSeq(jobList, 1, i))
      BY <2>8 DEF WorkerUnlink
    <3>2. SubSeq(jobList, 1, i) \in Seq(Jobs)
      BY FirstPart
    <3>3. curJobNum' \in Int
      BY <2>8 DEF WorkerUnlink
    <3> QED
      BY <3>1, <3>2, <3>3 DEF TakeJob
  <2>9. CASE WorkerRun(t)
    BY <2>9 DEF WorkerRun
  <2>10. CASE UseAfterFree
    BY <2>10 DEF UseAfterFree
  <2> QED
    BY <1>1, <2>1, <2>2, <2>3, <2>4, <2>5, <2>6, <2>7, <2>8, <2>9, <2>10
    DEF Worker, WorkerFindFreed, WorkerUnlinkFreed, WorkerRunFreed
<1>2. ASSUME NEW c \in Callers, CallerStep(c) PROVE TypeOK'
  <2>1. CASE InitCreate(c)
    BY <2>1 DEF InitCreate, Created
  <2>2. CASE InitDone(c)
    BY <2>2 DEF InitDone
  <2>3. CASE AddLock(c)
    BY <2>3 DEF AddLock
  <2>4. ASSUME NEW j \in Jobs, AddLink(c, j) PROVE TypeOK'
    <3>1. <<j>> \o jobList \in Seq(Jobs)
      BY ConcatProperties
    <3> QED
      BY <2>4, <3>1 DEF AddLink
  <2>5. CASE AddPost(c)
    BY <2>5 DEF AddPost
  <2>6. CASE ExitPost(c)
    BY <2>6 DEF ExitPost
  <2>7. CASE ExitJoin(c)
    <3>1. JoinTarget \in Threads \cup {None}
      BY DEF JoinTarget
    <3> QED
      BY <2>7, <3>1 DEF ExitJoin, ExitNext, Joinable
  <2>8. CASE ExitJoinCrash(c)
    BY <2>8 DEF ExitJoinCrash
  <2>9. CASE ExitDestroy(c)
    BY <2>9 DEF ExitDestroy, DestroyLock
  <2>10. CASE DeinitReset(c)
    BY <2>10, HeadTailProperties DEF DeinitReset
  <2>11. CASE DeinitFree(c)
    BY <2>11 DEF DeinitFree
  <2>12. CASE UseAfterFree
    BY <2>12 DEF UseAfterFree
  <2>13. CASE DeinitDone(c)
    BY <2>13 DEF DeinitDone
  <2>14. CASE AddFindHead(c)
    BY <2>14, HeadTailProperties DEF AddFindHead
  <2> QED
    BY <1>2, <2>1, <2>2, <2>3, <2>4, <2>5, <2>6, <2>7, <2>8, <2>9, <2>10, <2>11,
       <2>12, <2>13, <2>14
    DEF CallerStep, DeinitFreeFreed, AddLinkFreed
<1>3. ASSUME NEW c \in Callers, CallerChoice(c) PROVE TypeOK'
  <2>1. ASSUME NEW n \in 0 .. ThreadPoolNumMax, InitEnter(c, n) PROVE TypeOK'
    BY <2>1 DEF InitEnter, SetUp
  <2>2. ASSUME NEW n \in 0 .. ThreadPoolNumMax, InitResourceFails(c, n) PROVE TypeOK'
    <3>1. maxThreadNum' \in 0 .. ThreadPoolNumMax - 1 /\ sem' \in Nat
      BY <2>2 DEF InitResourceFails, SetUp
    <3>2. isInit' \in BOOLEAN /\ isRunning' \in BOOLEAN /\ lockAlive' \in BOOLEAN
      BY <2>2 DEF InitResourceFails, SetUp
    <3>3. curJobNum' \in Int /\ idleThreadNum' \in Int
      BY <2>2 DEF InitResourceFails, SetUp
    <3> QED
      BY <2>2, <3>1, <3>2, <3>3 DEF InitResourceFails, SetUp
  <2>3. CASE InitCreateFails(c)
    <3>1. exitNum' \in 0 .. ThreadPoolNumMax - 1 /\ idx' \in Nat /\ createFails' \in Nat
      BY <2>3 DEF InitCreateFails, ExitBegin
    <3>2. threadId' \in [0 .. ThreadPoolNumMax - 1 -> Threads \cup {None}]
      BY <2>3 DEF InitCreateFails, ExitBegin
    <3>3. callerPc' \in [Callers -> CallerPcs]
      BY <2>3 DEF InitCreateFails, ExitBegin
    <3> QED
      BY <2>3, <3>1, <3>2, <3>3 DEF InitCreateFails, ExitBegin
  <2>4. CASE AddEnter(c)
    BY <2>4 DEF AddEnter
  <2>5. CASE DeinitEnter(c)
    <3>1. exitNum' \in 0 .. ThreadPoolNumMax - 1 /\ idx' \in Nat /\ deinits' \in Nat
      BY <2>5 DEF DeinitEnter, DeinitWith, ExitBegin
    <3>2. callerPc' \in [Callers -> CallerPcs]
      BY <2>5 DEF DeinitEnter, DeinitWith, ExitBegin
    <3> QED
      BY <2>5, <3>1, <3>2 DEF DeinitEnter, DeinitWith, ExitBegin
  <2> QED
    BY <1>3, <2>1, <2>2, <2>3, <2>4, <2>5 DEF CallerChoice
<1>4. CASE UNCHANGED vars
  BY <1>4 DEF vars
<1> QED
  BY <1>1, <1>2, <1>3, <1>4 DEF Next, Rest

\* Every variable of the pool keeps its type (thread_pool.c:20-33).
THEOREM TypeCorrect == Spec => []TypeOK
  BY TypeInit, TypeStep, PTL DEF Spec
-------------------------------------------------------------------------------
(***************************************************************************)
(* Who is inside which function, and that nobody is inside a critical      *)
(* section without owning the lock, until it is destroyed.                 *)
(***************************************************************************)

\* A caller inside one of the functions holds g_initMutex, so that there is one
\* at most.
InitMutexHeld == \A c \in Callers : callerPc[c] # "out" => initMutex = c

\* g_isInit outlives Deinit, and no later Init sets isRunning.
DeinitLast == deinits > 0 => isInit /\ ~isRunning

ExitBegun ==
  \A c \in Callers :
    callerPc[c] \in {"exit_post", "exit_join", "exit_destroy", "reset", "free"} => Exited

AddAfterInit ==
  \A c \in Callers : callerPc[c] \in {"lock_add", "add", "link", "post"} => isInit

\* While the lock has not been destroyed: a worker was started by an Init that is
\* under way or done, and the lock has been there since.
LockThere ==
  LockHolds => /\ isInit \/ CallerAt({"create"}) => lockAlive
               /\ \/ isInit \/ CallerAt({"create"})
                  \/ \A t \in Threads : workerPc[t] = "none"

Control ==
  /\ TypeOK
  /\ InitMutexHeld /\ DeinitLast /\ ExitBegun /\ AddAfterInit /\ LockThere

LEMMA ExitedOrNot ==
  ASSUME TypeOK
  PROVE  ~Exited <=> createFails = 0 /\ deinits = 0
  BY DEF TypeOK, Exited

LEMMA LockHoldsUntilExit ==
  ASSUME TypeOK, ~Exited
  PROVE  LockHolds
  BY ExitedOrNot DEF LockHolds

LEMMA OneCaller ==
  ASSUME TypeOK, InitMutexHeld, NEW c \in Callers, CallerStep(c) \/ CallerChoice(c)
  PROVE  /\ initMutex \in {None, c}
         /\ \A d \in Callers : d # c => callerPc[d] = "out"
<1>1. initMutex \in {None, c}
  BY DEF InitMutexHeld, CallerStep, CallerChoice, InitCreate, InitDone, AddLock, AddFindHead, AddLink,
    AddLinkFreed, AddPost, ExitPost, ExitJoin, ExitJoinCrash, ExitDestroy, DeinitReset, DeinitFree,
    DeinitFreeFreed, DeinitDone, InitEnter, SetUp, InitResourceFails, InitCreateFails, AddEnter, DeinitEnter,
    DeinitWith
<1>2. \A d \in Callers : d # None
  BY ConstantsAssumption
<1>3. QED BY <1>1, <1>2 DEF InitMutexHeld

\* Where the callers are, before and after a step of c.
LEMMA CallerMoves ==
  ASSUME TypeOK, NEW c \in Callers, \A d \in Callers : d # c => callerPc[d] = "out",
         NEW pc, callerPc' = [callerPc EXCEPT ![c] = pc], NEW pcs, "out" \notin pcs
  PROVE  /\ CallerAt(pcs) <=> callerPc[c] \in pcs
         /\ CallerAt(pcs)' <=> pc \in pcs
<1>1. callerPc'[c] = pc /\ \A d \in Callers : d # c => callerPc'[d] = "out"
  BY DEF TypeOK
<1>2. QED BY <1>1 DEF CallerAt

LEMMA ControlInit == Init => Control
<1> SUFFICES ASSUME Init PROVE Control
  OBVIOUS
<1>1. TypeOK
  BY TypeInit
<1>2. InitMutexHeld /\ DeinitLast /\ ExitBegun /\ AddAfterInit
  BY DEF Init, InitMutexHeld, DeinitLast, ExitBegun, AddAfterInit
<1>3. LockThere
  BY DEF Init, LockThere, CallerAt
<1>4. QED BY <1>1, <1>2, <1>3 DEF Control

\* The callers' steps: where the caller goes, and what it changes on the way.
LEMMA ControlCaller ==
  ASSUME Control, TypeOK', NEW c \in Callers, CallerStep(c) \/ CallerChoice(c)
  PROVE  /\ Control'
         /\ LockHolds' => LockHolds
         /\ Exited => Exited'
<1> DEFINE old == callerPc[c]
           pc == callerPc'[c]
           leaving == {"exit_post", "exit_join", "exit_destroy"}
           none == \A t \in Threads : workerPc[t] = "none"
<1>1. /\ TypeOK /\ isInit \in BOOLEAN /\ isRunning \in BOOLEAN /\ lockAlive \in BOOLEAN
      /\ createFails \in Nat /\ deinits \in Nat
      /\ createFails' \in Nat /\ deinits' \in Nat
  BY DEF Control, TypeOK
<1>2. \A d \in Callers : d # c => callerPc[d] = "out"
  BY OneCaller DEF Control
<1>3. callerPc' = [callerPc EXCEPT ![c] = pc] /\ (UNCHANGED callerPc => pc = old)
  <2>1. \E q : callerPc' = [callerPc EXCEPT ![c] = q]
    <3>1. callerPc = [callerPc EXCEPT ![c] = callerPc[c]]
      BY DEF Control, TypeOK
    <3>2. CASE CallerStep(c)
      BY <3>1, <3>2 DEF CallerStep, CallerGoto, InitCreate, InitDone, AddLock, AddFindHead, AddLink,
        AddLinkFreed, AddPost, ExitPost, ExitJoin, ExitNext, ExitJoinCrash, ExitDestroy, DeinitReset,
        DeinitFree, DeinitFreeFreed, DeinitDone, UseAfterFree
    <3>3. CASE CallerChoice(c)
      BY <3>1, <3>3 DEF CallerChoice, CallerGoto, InitEnter, InitResourceFails, InitCreateFails, ExitBegin,
        AddEnter, DeinitEnter, DeinitWith
    <3>4. QED BY <3>2, <3>3
  <2>2. QED BY <2>1 DEF Control, TypeOK
<1>4. /\ LockHolds <=> createFails = 0 /\ (deinits = 0 \/ (deinits = 1 /\ old \in leaving))
      /\ LockHolds' <=> createFails' = 0 /\ (deinits' = 0 \/ (deinits' = 1 /\ pc \in leaving))
      /\ CallerAt({"create"}) <=> old = "create"
      /\ CallerAt({"create"})' <=> pc = "create"
  <2>1. \A pcs : "out" \notin pcs =>
          (CallerAt(pcs) <=> old \in pcs) /\ (CallerAt(pcs)' <=> pc \in pcs)
    BY <1>1, <1>2, <1>3, CallerMoves
  <2> HIDE DEF old, pc
  <2>2. (CallerAt(leaving) <=> old \in leaving) /\ (CallerAt(leaving)' <=> pc \in leaving)
    BY <2>1
  <2>3. (CallerAt({"create"}) <=> old = "create") /\ (CallerAt({"create"})' <=> pc = "create")
    BY <2>1
  <2>4. LockHolds <=> createFails = 0 /\ (deinits = 0 \/ (deinits = 1 /\ CallerAt(leaving)))
    BY DEF LockHolds
  <2>5. LockHolds' <=> createFails' = 0 /\ (deinits' = 0 \/ (deinits' = 1 /\ CallerAt(leaving)'))
    BY DEF LockHolds
  <2>6. QED BY <2>2, <2>3, <2>4, <2>5
<1>5. /\ old # "out" => initMutex = c
      /\ old \in leaving \cup {"reset", "free"} => Exited
      /\ old \in {"lock_add", "add", "link", "post"} => isInit
      /\ deinits > 0 => isInit /\ ~isRunning
      /\ LockHolds => (isInit \/ old = "create" => lockAlive) /\ (isInit \/ old = "create" \/ none)
  BY <1>4 DEF Control, InitMutexHeld, ExitBegun, AddAfterInit, DeinitLast, LockThere
<1> DEFINE Kept ==
             /\ pc # "out" => initMutex' = c
             /\ pc \in leaving \cup {"reset", "free"} => Exited'
             /\ pc \in {"lock_add", "add", "link", "post"} => isInit'
             /\ deinits' > 0 => isInit' /\ ~isRunning'
             /\ LockHolds' => LockHolds
             /\ LockHolds' => (isInit' \/ pc = "create" => lockAlive') /\ (isInit' \/ pc = "create" \/ none')
             /\ Exited => Exited'
<1>6. SUFFICES Kept
  <2>1. \A d \in Callers : d # c => callerPc'[d] = "out"
    BY <1>1, <1>2, <1>3 DEF TypeOK
  <2>2. InitMutexHeld' /\ ExitBegun' /\ AddAfterInit' /\ DeinitLast'
    BY <2>1, <1>6 DEF InitMutexHeld, ExitBegun, AddAfterInit, DeinitLast
  <2>3. LockThere'
    BY <1>4, <1>6 DEF LockThere
  <2>4. QED BY <1>6, <2>2, <2>3 DEF Control
<1> HIDE DEF pc
<1>7. ASSUME NEW n \in 0 .. ThreadPoolNumMax, InitEnter(c, n) PROVE Kept
  <2>1. /\ old = "out" /\ pc = "create" /\ ~isInit /\ lockAlive' /\ initMutex' = c
        /\ UNCHANGED <<isInit, createFails, deinits>>
    BY <1>1, <1>7 DEF InitEnter, SetUp, historyVars, CallerGoto, TypeOK, pc
  <2>2. QED BY <1>1, <1>4, <1>5, <2>1 DEF Exited
<1>8. ASSUME NEW n \in 0 .. ThreadPoolNumMax, InitResourceFails(c, n) PROVE Kept
  <2>1. /\ old = "out" /\ pc = "out" /\ ~isInit
        /\ UNCHANGED <<isInit, createFails, deinits, workerPc>>
    BY <1>1, <1>3, <1>8 DEF InitResourceFails, SetUp, historyVars, workerVars
  <2>2. QED BY <1>1, <1>4, <1>5, <2>1 DEF Exited
<1>9. CASE InitCreate(c)
  <2>1. /\ old = "create" /\ pc = "create"
        /\ UNCHANGED <<isInit, isRunning, lockAlive, initMutex, createFails, deinits>>
    BY <1>3, <1>9 DEF InitCreate, historyVars
  <2>2. QED BY <1>1, <1>4, <1>5, <2>1 DEF Exited
<1>10. CASE InitCreateFails(c)
  <2>1. /\ old = "create" /\ createFails' = createFails + 1 /\ pc \in leaving
        /\ UNCHANGED <<isInit, initMutex, deinits>> /\ ~isRunning'
    BY <1>1, <1>10 DEF InitCreateFails, ExitBegin, CallerGoto, TypeOK, pc
  <2>2. QED BY <1>1, <1>4, <1>5, <2>1 DEF Exited
<1>11. CASE InitDone(c)
  <2>1. /\ old = "create" /\ pc = "out" /\ isInit'
        /\ UNCHANGED <<isRunning, lockAlive, createFails, deinits>>
    BY <1>1, <1>11 DEF InitDone, historyVars, CallerGoto, TypeOK, pc
  <2>2. deinits = 0 \/ ~isRunning
    BY <1>1, <1>5
  <2>3. QED BY <1>1, <1>4, <1>5, <2>1, <2>2 DEF Exited
<1>12. CASE AddEnter(c)
  <2>1. /\ old = "out" /\ pc = "lock_add" /\ isInit /\ initMutex' = c
        /\ UNCHANGED <<isInit, isRunning, lockAlive, createFails, deinits, workerPc>>
    BY <1>1, <1>12 DEF AddEnter, poolVars, workerVars, historyVars, CallerGoto, TypeOK, pc
  <2>2. QED BY <1>1, <1>4, <1>5, <2>1 DEF Exited
<1>13. CASE AddLock(c) \/ AddFindHead(c) \/ (\E j \in Jobs : AddLink(c, j)) \/ AddPost(c)
  <2>1. /\ old \in {"lock_add", "add", "link", "post"} /\ pc \in {"add", "link", "post", "out"}
        /\ pc # "out" => UNCHANGED initMutex
        /\ UNCHANGED <<isInit, isRunning, lockAlive, createFails, deinits, workerPc>>
    BY <1>1, <1>13 DEF AddLock, AddFindHead, AddLink, AddPost, poolVars, workerVars, historyVars, CallerGoto,
      TypeOK, pc
  <2>2. QED BY <1>1, <1>4, <1>5, <2>1 DEF Exited
<1>14. CASE DeinitEnter(c)
  <2>1. /\ old = "out" /\ pc \in leaving /\ isInit /\ initMutex' = c /\ deinits' = deinits + 1 /\ ~isRunning'
        /\ UNCHANGED <<isInit, lockAlive, createFails, workerPc>>
    BY <1>1, <1>14 DEF DeinitEnter, DeinitWith, ExitBegin, workerVars, CallerGoto, TypeOK, pc
  <2>2. Exited' /\ (LockHolds' => createFails = 0 /\ deinits = 0)
    BY <1>1, <1>4, <2>1 DEF Exited
  <2>3. LockHolds' => LockHolds
    BY <1>4, <2>2
  <2>4. QED BY <1>5, <2>1, <2>2, <2>3
<1>15. CASE ExitPost(c) \/ ExitJoin(c)
  <2>1. /\ old \in leaving /\ pc \in leaving
        /\ UNCHANGED <<isInit, isRunning, lockAlive, initMutex, createFails, deinits, workerPc>>
    BY <1>1, <1>15 DEF ExitPost, ExitJoin, ExitNext, poolVars, workerVars, historyVars, CallerGoto, TypeOK, pc
  <2>2. QED BY <1>1, <1>4, <1>5, <2>1 DEF Exited
<1>16. CASE ExitDestroy(c) \/ DeinitReset(c) \/ DeinitFree(c) \/ DeinitDone(c)
  <2>1. /\ old \in {"exit_destroy", "reset", "free"} /\ pc \in {"reset", "free", "out"}
        /\ pc # "out" => UNCHANGED initMutex
        /\ UNCHANGED <<isInit, isRunning, createFails, deinits>>
    BY <1>1, <1>3, <1>16 DEF ExitDestroy, DeinitReset, DeinitFree, DeinitDone, poolVars, historyVars, CallerGoto,
      TypeOK, pc
  <2>2. Exited /\ Exited' /\ ~(createFails = 0 /\ deinits = 0)
    BY <1>1, <1>5, <2>1 DEF Exited
  <2>3. QED BY <1>1, <1>4, <1>5, <2>1, <2>2
<1>17. CASE ExitJoinCrash(c) \/ UseAfterFree
  <2>1. pc = old /\ UNCHANGED <<isInit, isRunning, lockAlive, initMutex, createFails, deinits, workerPc>>
    BY <1>3, <1>17 DEF ExitJoinCrash, UseAfterFree, poolVars, workerVars
  <2>2. QED BY <1>1, <1>4, <1>5, <2>1 DEF Exited
<1>18. QED
  BY <1>7, <1>8, <1>9, <1>10, <1>11, <1>12, <1>13, <1>14, <1>15, <1>16, <1>17
  DEF CallerStep, CallerChoice, AddLinkFreed, DeinitFreeFreed

\* The workers' steps touch none of it; a worker that takes one was started.
LEMMA WorkerKeeps ==
  ASSUME NEW t \in Threads, Worker(t)
  PROVE  /\ UNCHANGED <<isInit, isRunning, maxThreadNum, lockAlive, initMutex, callerPc, idx, exitNum,
                        createFails, deinits, submitted>>
         /\ Exited' = Exited /\ LockHolds' = LockHolds
         /\ \A pcs : CallerAt(pcs)' = CallerAt(pcs)
         /\ workerPc[t] # "none"
<1>1. UNCHANGED <<isInit, isRunning, maxThreadNum, lockAlive, initMutex, callerPc, idx, exitNum, createFails,
                  deinits, submitted>>
  BY DEF Worker, WorkerCheck, WorkerLockIdle, WorkerIdle, WorkerWait, WorkerLockPop, WorkerPopNothing,
    WorkerFindTail, WorkerFindFreed, WorkerUnlink, TakeJob, WorkerUnlinkFreed, WorkerRun, WorkerRunFreed,
    UseAfterFree, poolVars, loopVars, historyVars
<1>2. \A pcs : CallerAt(pcs)' = CallerAt(pcs)
  BY <1>1 DEF CallerAt
<1>3. Exited' = Exited /\ LockHolds' = LockHolds
  BY <1>1, <1>2 DEF Exited, LockHolds
<1>4. workerPc[t] # "none"
  BY DEF Worker, WorkerCheck, WorkerLockIdle, WorkerIdle, WorkerWait, WorkerLockPop, WorkerPopNothing,
    WorkerFindTail, WorkerFindFreed, WorkerUnlink, TakeJob, WorkerUnlinkFreed, WorkerRun, WorkerRunFreed
<1>5. QED BY <1>1, <1>2, <1>3, <1>4

LEMMA ControlStep ==
  ASSUME Control, [Next]_vars
  PROVE  /\ Control'
         /\ LockHolds' => LockHolds
         /\ Exited => Exited'
<1>1. TypeOK'
  BY TypeStep DEF Control
<1>2. ASSUME NEW t \in Threads, Worker(t)
      PROVE  Control' /\ (LockHolds' => LockHolds) /\ (Exited => Exited')
  <2>1. InitMutexHeld' /\ DeinitLast' /\ ExitBegun' /\ AddAfterInit'
    BY <1>2, WorkerKeeps DEF Control, InitMutexHeld, DeinitLast, ExitBegun, AddAfterInit
  <2>2. LockThere'
    <3>1. LockHolds => isInit \/ CallerAt({"create"})
      BY <1>2, WorkerKeeps DEF Control, LockThere
    <3>2. QED BY <1>2, <3>1, WorkerKeeps DEF Control, LockThere
  <2>3. QED BY <1>1, <1>2, <2>1, <2>2, WorkerKeeps DEF Control
<1>3. CASE UNCHANGED vars
  <2>1. UNCHANGED <<isInit, isRunning, lockAlive, initMutex, callerPc, workerPc, createFails, deinits>>
    BY <1>3 DEF vars, poolVars, workerVars, historyVars
  <2>2. CallerAt({"create"})' = CallerAt({"create"}) /\ LockHolds' = LockHolds /\ Exited' = Exited
    BY <2>1 DEF CallerAt, LockHolds, Exited
  <2>3. QED BY <1>1, <2>1, <2>2 DEF Control, InitMutexHeld, DeinitLast, ExitBegun, AddAfterInit, LockThere
<1>4. QED BY <1>1, <1>2, <1>3, ControlCaller DEF Next, Rest
-------------------------------------------------------------------------------
(***************************************************************************)
(* Until it is destroyed, a thread in a critical section owns the lock, so *)
(* that what a worker has read of the list is still so when it writes.     *)
(***************************************************************************)
LockOwned ==
  LockHolds => /\ \A t \in WorkersAt({"idle", "pop", "take"}) : lock = t
               /\ \A c \in Callers : callerPc[c] \in {"add", "link"} => lock = c

TailRead ==
  LockHolds => \A t \in WorkersAt({"take"}) :
                 /\ jobList # <<>>
                 /\ headPrev[t] = Last(jobList)
                 /\ headPrevPrev[t] = NodeAt(Len(jobList) - 1)

Owned == Control /\ LockOwned /\ TailRead

LEMMA OwnedInit == Init => Owned
  BY ControlInit DEF Init, Owned, LockOwned, TailRead, WorkersAt

\* Where the workers are, before and after a step of t.
LEMMA WorkerGoes ==
  ASSUME TypeOK, NEW t \in Threads, NEW pc, WorkerGoto(t, pc), NEW S
  PROVE  /\ t \in WorkersAt(S) <=> workerPc[t] \in S
         /\ WorkersAt(S)' = IF pc \in S THEN WorkersAt(S) \cup {t} ELSE WorkersAt(S) \ {t}
  BY DEF WorkersAt, WorkerGoto, TypeOK

\* A process that takes the lock gets it, and is alone inside.
LEMMA AcquireOwns ==
  ASSUME Control, LockOwned, LockHolds, NEW p \in Threads \cup Callers, Acquire(p),
         lockAlive
  PROVE  /\ lock' = p
         /\ WorkersAt({"idle", "pop", "take"}) = {}
         /\ \A c \in Callers : callerPc[c] \notin {"add", "link"}
  BY ConstantsAssumption DEF Acquire, LockOwned, WorkersAt

\* A worker in a critical section is the only process in one.
LEMMA WorkerAlone ==
  ASSUME LockOwned, LockHolds, NEW t \in Threads, workerPc[t] \in {"idle", "pop", "take"}
  PROVE  /\ WorkersAt({"idle", "pop", "take"}) = {t}
         /\ \A c \in Callers : callerPc[c] \notin {"add", "link"}
  BY ConstantsAssumption DEF LockOwned, WorkersAt

LEMMA CallerAlone ==
  ASSUME LockOwned, LockHolds, NEW c \in Callers, callerPc[c] \in {"add", "link"}
  PROVE  WorkersAt({"idle", "pop", "take"}) = {}
  BY ConstantsAssumption DEF LockOwned, WorkersAt

LEMMA OwnedWorker ==
  ASSUME Owned, LockHolds, TypeOK', NEW t \in Threads, Worker(t)
  PROVE  LockOwned' /\ TailRead'
<1> DEFINE inside == {"idle", "pop", "take"}
<1>1. Control /\ LockOwned /\ TailRead /\ TypeOK
  BY DEF Owned, Control
<1>2. callerPc' = callerPc
  BY WorkerKeeps
<1>3. lockAlive
  BY <1>1, WorkerKeeps DEF Control, LockThere
<1>4. \A S, pc : WorkerGoto(t, pc) =>
        /\ t \in WorkersAt(S) <=> workerPc[t] \in S
        /\ WorkersAt(S)' = IF pc \in S THEN WorkersAt(S) \cup {t} ELSE WorkersAt(S) \ {t}
  BY <1>1, WorkerGoes
<1>5. CASE WorkerLockIdle(t) \/ WorkerLockPop(t)
  <2>1. PICK pc \in {"idle", "pop"} : WorkerGoto(t, pc)
    BY <1>5 DEF WorkerLockIdle, WorkerLockPop
  <2>2. lock' = t /\ WorkersAt(inside) = {} /\ \A c \in Callers : callerPc[c] \notin {"add", "link"}
    BY <1>1, <1>3, <1>5, AcquireOwns DEF WorkerLockIdle, WorkerLockPop
  <2>3. WorkersAt(inside)' = {t} /\ WorkersAt({"take"})' = {}
    <3>1. WorkersAt({"take"}) = {}
      BY <2>2 DEF WorkersAt
    <3>2. WorkersAt(inside)' = WorkersAt(inside) \cup {t} /\ WorkersAt({"take"})' = WorkersAt({"take"}) \ {t}
      BY <1>4, <2>1
    <3>3. QED BY <2>2, <3>1, <3>2
  <2>4. QED BY <1>2, <2>2, <2>3 DEF LockOwned, TailRead
<1>6. CASE WorkerIdle(t) \/ WorkerPopNothing(t) \/ WorkerUnlink(t)
  <2>1. PICK pc \in {"wait", "check", "run"} : WorkerGoto(t, pc)
    BY <1>6 DEF WorkerIdle, WorkerPopNothing, WorkerUnlink, TakeJob
  <2>2. WorkersAt(inside) = {t} /\ \A c \in Callers : callerPc[c] \notin {"add", "link"}
    BY <1>1, <1>6, WorkerAlone DEF WorkerIdle, WorkerPopNothing, WorkerUnlink, TakeJob
  <2>3. WorkersAt(inside)' = {} /\ WorkersAt({"take"})' = {}
    <3>1. WorkersAt({"take"}) \subseteq {t}
      BY <2>2 DEF WorkersAt
    <3>2. WorkersAt(inside)' = WorkersAt(inside) \ {t} /\ WorkersAt({"take"})' = WorkersAt({"take"}) \ {t}
      BY <1>4, <2>1
    <3>3. QED BY <2>2, <3>1, <3>2
  <2>4. QED BY <1>2, <2>2, <2>3 DEF LockOwned, TailRead
<1>7. CASE WorkerFindTail(t)
  <2>1. /\ WorkerGoto(t, "take") /\ workerPc[t] = "pop" /\ UNCHANGED <<lock, jobList>>
        /\ jobList # <<>>
        /\ headPrev'[t] = Last(jobList) /\ headPrevPrev'[t] = NodeAt(Len(jobList) - 1)
    BY <1>1, <1>7 DEF WorkerFindTail, listVars, TypeOK
  <2>2. WorkersAt(inside) = {t} /\ lock = t /\ \A c \in Callers : callerPc[c] \notin {"add", "link"}
    BY <1>1, <2>1, WorkerAlone DEF LockOwned
  <2>3. WorkersAt(inside)' = {t} /\ WorkersAt({"take"})' = {t}
    <3>1. WorkersAt({"take"}) \subseteq {t}
      BY <2>2 DEF WorkersAt
    <3>2. WorkersAt(inside)' = WorkersAt(inside) \cup {t} /\ WorkersAt({"take"})' = WorkersAt({"take"}) \cup {t}
      BY <1>4, <2>1
    <3>3. QED BY <2>2, <3>1, <3>2
  <2>4. TailRead'
    BY <2>1, <2>3 DEF TailRead, NodeAt
  <2>5. QED BY <1>2, <2>1, <2>2, <2>3, <2>4 DEF LockOwned
<1>8. CASE WorkerCheck(t) \/ WorkerWait(t) \/ WorkerRun(t)
  <2>1. PICK pc \in {"lock_idle", "done", "lock_pop", "check"} :
          /\ WorkerGoto(t, pc) /\ workerPc[t] \notin inside
          /\ UNCHANGED <<lock, jobList, headPrev, headPrevPrev>>
    BY <1>8 DEF WorkerCheck, WorkerWait, WorkerRun, listVars, jobVars, tailVars
  <2>2. WorkersAt(inside)' = WorkersAt(inside) /\ WorkersAt({"take"})' = WorkersAt({"take"})
    <3>1. t \notin WorkersAt(inside) /\ t \notin WorkersAt({"take"})
      BY <2>1 DEF WorkersAt
    <3>2. WorkersAt(inside)' = WorkersAt(inside) \ {t} /\ WorkersAt({"take"})' = WorkersAt({"take"}) \ {t}
      BY <1>4, <2>1
    <3>3. QED BY <3>1, <3>2
  <2>3. TailRead'
    BY <1>1, <2>1, <2>2 DEF TailRead, NodeAt
  <2>4. QED BY <1>1, <1>2, <2>1, <2>2, <2>3 DEF LockOwned
<1>9. CASE UseAfterFree
  <2>1. UNCHANGED <<lock, jobList, headPrev, headPrevPrev, workerPc>>
    BY <1>9 DEF UseAfterFree, listVars, workerVars, jobVars, tailVars
  <2>2. \A S : WorkersAt(S)' = WorkersAt(S)
    BY <2>1 DEF WorkersAt
  <2>3. TailRead'
    BY <1>1, <2>1, <2>2 DEF TailRead, NodeAt
  <2>4. QED BY <1>1, <1>2, <2>1, <2>2, <2>3 DEF LockOwned
<1>10. QED
  BY <1>5, <1>6, <1>7, <1>8, <1>9 DEF Worker, WorkerFindFreed, WorkerUnlinkFreed, WorkerRunFreed

LEMMA OwnedCaller ==
  ASSUME Owned, LockHolds, TypeOK', NEW c \in Callers, CallerStep(c) \/ CallerChoice(c), LockHolds'
  PROVE  LockOwned' /\ TailRead'
<1> DEFINE inside == {"idle", "pop", "take"}
<1>1. Control /\ LockOwned /\ TailRead /\ TypeOK /\ TypeOK'
  BY DEF Owned, Control
<1>2. \A d \in Callers : d # c => callerPc[d] = "out"
  BY <1>1, OneCaller DEF Control
<1>3. ASSUME UNCHANGED <<lock, jobList, headPrev, headPrevPrev>>,
             WorkersAt(inside)' = WorkersAt(inside), WorkersAt({"take"})' = WorkersAt({"take"}),
             \A d \in Callers : callerPc'[d] \in {"add", "link"} => lock = d
      PROVE  LockOwned' /\ TailRead'
  BY <1>1, <1>3 DEF LockOwned, TailRead, NodeAt
<1>4. ASSUME WorkersAt(inside)' = {},
             \A d \in Callers : callerPc'[d] \in {"add", "link"} => lock' = d
      PROVE  LockOwned' /\ TailRead'
  <2>1. WorkersAt({"take"})' = {}
    BY <1>4 DEF WorkersAt
  <2>2. QED BY <1>4, <2>1 DEF LockOwned, TailRead
<1>5. ASSUME NEW n \in 0 .. ThreadPoolNumMax, InitEnter(c, n) \/ InitResourceFails(c, n)
      PROVE  LockOwned' /\ TailRead'
  <2>1. /\ ~isInit /\ callerPc[c] = "out" /\ workerPc' = workerPc
        /\ \A d \in Callers : callerPc'[d] \notin {"add", "link"}
    BY <1>1, <1>2, <1>5 DEF InitEnter, InitResourceFails, workerVars, CallerGoto, TypeOK
  <2>2. ~CallerAt({"create"})
    BY <1>2, <2>1 DEF CallerAt
  <2>3. \A t \in Threads : workerPc[t] = "none"
    BY <1>1, <2>1, <2>2 DEF Control, LockThere
  <2>4. WorkersAt(inside)' = {}
    BY <2>1, <2>3 DEF WorkersAt
  <2>5. QED BY <1>4, <2>1, <2>4
<1>6. CASE AddLock(c)
  <2>1. callerPc[c] = "lock_add" /\ workerPc' = workerPc /\ \A d \in Callers : d # c => callerPc'[d] = "out"
    BY <1>1, <1>2, <1>6 DEF AddLock, workerVars, CallerGoto, TypeOK
  <2>2. lockAlive
    BY <1>1, <2>1 DEF Control, AddAfterInit, LockThere
  <2>3. lock' = c /\ WorkersAt(inside) = {}
    BY <1>1, <1>6, <2>2, AcquireOwns DEF AddLock
  <2>4. WorkersAt(inside)' = {}
    BY <2>1, <2>3 DEF WorkersAt
  <2>5. QED BY <1>4, <2>1, <2>3, <2>4
<1>7. CASE AddFindHead(c)
  <2>1. /\ callerPc[c] = "add" /\ UNCHANGED <<workerPc, lock>>
        /\ \A d \in Callers : d # c => callerPc'[d] = "out"
    BY <1>1, <1>2, <1>7 DEF AddFindHead, workerVars, CallerGoto, TypeOK
  <2>2. lock = c /\ WorkersAt(inside) = {}
    BY <1>1, <2>1, CallerAlone DEF LockOwned
  <2>3. WorkersAt(inside)' = {}
    BY <2>1, <2>2 DEF WorkersAt
  <2>4. QED BY <1>4, <2>1, <2>2, <2>3
<1>8. ASSUME NEW j \in Jobs, AddLink(c, j) PROVE LockOwned' /\ TailRead'
  <2>1. /\ callerPc[c] = "link" /\ UNCHANGED workerPc
        /\ \A d \in Callers : callerPc'[d] \in {"out", "post"}
    BY <1>1, <1>2, <1>8 DEF AddLink, workerVars, CallerGoto, TypeOK
  <2>2. WorkersAt(inside) = {}
    BY <1>1, <2>1, CallerAlone
  <2>3. WorkersAt(inside)' = {}
    BY <2>1, <2>2 DEF WorkersAt
  <2>4. QED BY <1>4, <2>1, <2>3
<1>9. CASE InitCreate(c)
  <2>1. PICK t \in Threads : workerPc[t] = "none" /\ WorkerGoto(t, "check")
    BY <1>9 DEF InitCreate, Created
  <2>2. UNCHANGED <<lock, jobList, headPrev, headPrevPrev, callerPc>>
    BY <1>9 DEF InitCreate, listVars, tailVars
  <2>3. \A S : "none" \notin S /\ "check" \notin S => WorkersAt(S)' = WorkersAt(S)
    <3>1. ASSUME NEW S, "none" \notin S, "check" \notin S PROVE WorkersAt(S)' = WorkersAt(S)
      <4>1. t \notin WorkersAt(S) /\ WorkersAt(S)' = WorkersAt(S) \ {t}
        BY <1>1, <2>1, <3>1, WorkerGoes
      <4>2. QED BY <4>1
    <3>2. QED BY <3>1
  <2>4. QED BY <1>1, <1>3, <2>2, <2>3 DEF LockOwned
<1>10. CASE \/ InitDone(c) \/ AddPost(c) \/ ExitPost(c) \/ ExitJoin(c) \/ ExitJoinCrash(c)
            \/ ExitDestroy(c) \/ DeinitReset(c) \/ DeinitFree(c) \/ InitCreateFails(c)
            \/ AddEnter(c) \/ DeinitEnter(c) \/ UseAfterFree
  <2>1. UNCHANGED <<lock, jobList, headPrev, headPrevPrev, workerPc>>
    BY <1>10 DEF InitDone, AddPost, ExitPost, ExitJoin, ExitJoinCrash, ExitDestroy, DeinitReset, DeinitFree,
      InitCreateFails, AddEnter, DeinitEnter, DeinitWith, ExitBegin, UseAfterFree, listVars, workerVars, jobVars,
      tailVars
  <2>2. callerPc'[c] = callerPc[c] \/ callerPc'[c] \notin {"add", "link"}
    BY <1>1, <1>10 DEF InitDone, AddPost, ExitPost, ExitJoin, ExitNext, ExitJoinCrash, ExitDestroy, DeinitReset,
      DeinitFree, InitCreateFails, AddEnter, DeinitEnter, DeinitWith, ExitBegin, UseAfterFree, CallerGoto, TypeOK
  <2>3. \A d \in Callers : d # c => callerPc'[d] = "out"
    <3>1. \E pc : callerPc' = [callerPc EXCEPT ![c] = pc]
      <4>1. callerPc = [callerPc EXCEPT ![c] = callerPc[c]]
        BY <1>1 DEF TypeOK
      <4>2. QED
        BY <1>10, <4>1 DEF InitDone, AddPost, ExitPost, ExitJoin, ExitNext, ExitJoinCrash, ExitDestroy,
          DeinitReset, DeinitFree, InitCreateFails, AddEnter, DeinitEnter, DeinitWith, ExitBegin, UseAfterFree,
          CallerGoto
    <3>2. QED BY <1>1, <1>2, <3>1 DEF TypeOK
  <2>4. \A d \in Callers : callerPc'[d] \in {"add", "link"} => lock = d
    BY <1>1, <2>2, <2>3 DEF LockOwned
  <2>5. \A S : WorkersAt(S)' = WorkersAt(S)
    BY <2>1 DEF WorkersAt
  <2>6. QED BY <1>3, <2>1, <2>4, <2>5
<1>11. CASE DeinitDone(c)
  <2>1. callerPc[c] = "free" /\ UNCHANGED <<createFails, deinits>> /\ \A d \in Callers : callerPc'[d] = "out"
    BY <1>1, <1>2, <1>11 DEF DeinitDone, historyVars, CallerGoto, TypeOK
  <2>2. Exited
    BY <1>1, <2>1 DEF Control, ExitBegun
  <2>3. ~CallerAt({"exit_post", "exit_join", "exit_destroy"})'
    BY <2>1 DEF CallerAt
  <2>4. FALSE
    BY <1>1, <2>1, <2>2, <2>3, ExitedOrNot DEF LockHolds
  <2>5. QED BY <2>4
<1>12. QED
  BY <1>5, <1>6, <1>7, <1>8, <1>9, <1>10, <1>11 DEF CallerStep, CallerChoice, AddLinkFreed, DeinitFreeFreed

LEMMA OwnedStep ==
  ASSUME Owned, [Next]_vars
  PROVE  Owned' /\ (LockHolds' => LockHolds) /\ (Exited => Exited')
<1>1. Control' /\ TypeOK' /\ (LockHolds' => LockHolds) /\ (Exited => Exited')
  BY ControlStep DEF Owned, Control
<1>2. ASSUME LockHolds' PROVE LockOwned' /\ TailRead'
  <2>1. CASE UNCHANGED vars
    <3>1. UNCHANGED <<lock, jobList, headPrev, headPrevPrev, workerPc, callerPc>>
      BY <2>1 DEF vars, listVars, workerVars, jobVars, tailVars
    <3>2. \A S : WorkersAt(S)' = WorkersAt(S)
      BY <3>1 DEF WorkersAt
    <3>3. QED BY <1>1, <1>2, <3>1, <3>2 DEF Owned, LockOwned, TailRead, NodeAt
  <2>2. QED BY <1>1, <1>2, <2>1, OwnedWorker, OwnedCaller DEF Next, Rest
<1>3. LockOwned' /\ TailRead'
  BY <1>2 DEF LockOwned, TailRead
<1>4. QED BY <1>1, <1>3 DEF Owned
-------------------------------------------------------------------------------
(***************************************************************************)
(* The inductive invariant behind JobsAccounted.  JobsAccounted alone says *)
(* nothing of why a job that is submitted now was nowhere before, why the  *)
(* node a worker unlinks is the one it has read (Owned), nor why           *)
(* InitDoublyLinkedListNode in ThreadPoolInit empties no list that is in   *)
(* use.                                                                    *)
(***************************************************************************)
Places ==
  /\ finished \cap Held = {}
  /\ (finished \cup Held) \cap ToSet(jobList) = {}
  /\ \A t, u \in WorkersAt({"run"}) : workerJob[t] = workerJob[u] => t = u
  /\ IsInjective(jobList)
  /\ finished \cup Held \cup ToSet(jobList) \subseteq submitted
  /\ \A t \in WorkersAt({"run"}) : workerJob[t] \in Jobs
  /\ ~Exited => submitted = finished \cup Held \cup ToSet(jobList)
  /\ jobList # <<>> => isInit

JobsInv == Owned /\ (LockHolds => Places)

LEMMA JobsInvAccounts == JobsInv => JobsAccounted
<1> SUFFICES ASSUME JobsInv PROVE JobsAccounted
  OBVIOUS
<1>1. ~Exited => LockHolds
  BY LockHoldsUntilExit DEF JobsInv, Owned, Control
<1>2. QED BY <1>1 DEF JobsInv, Places, JobsAccounted

(***************************************************************************)
(* What linking a job at the head and taking the one at the tail do to the *)
(* jobs of the list.                                                       *)
(***************************************************************************)
LEMMA ConsJobs ==
  ASSUME NEW S, NEW s \in Seq(S), NEW j \in S, j \notin ToSet(s), IsInjective(s)
  PROVE  /\ ToSet(<<j>> \o s) = ToSet(s) \cup {j}
         /\ IsInjective(<<j>> \o s)
<1> DEFINE l == <<j>> \o s
<1>1. Len(s) \in Nat /\ DOMAIN s = 1 .. Len(s)
  BY LenProperties
<1>2. DOMAIN l = 1 .. Len(s) + 1
  BY <1>1, ConcatProperties
<1>3. l[1] = j /\ \A i \in 1 .. Len(s) : l[i + 1] = s[i]
  BY <1>1, ConcatProperties
<1>4. \A i \in 2 .. Len(s) + 1 : i - 1 \in 1 .. Len(s) /\ l[i] = s[i - 1]
  BY <1>1, <1>3
<1> HIDE DEF l
<1>5. ToSet(l) = ToSet(s) \cup {j}
  <2>1. \A x \in ToSet(l) : x \in ToSet(s) \cup {j}
    BY <1>1, <1>2, <1>3, <1>4 DEF ToSet
  <2>2. j \in ToSet(l)
    BY <1>1, <1>2, <1>3 DEF ToSet
  <2>3. \A i \in 1 .. Len(s) : i + 1 \in 1 .. Len(s) + 1
    BY <1>1
  <2>4. \A x \in ToSet(s) : x \in ToSet(l)
    BY <1>1, <1>2, <1>3, <2>3 DEF ToSet
  <2> QED
    BY <2>1, <2>2, <2>4
<1>6. \A i \in 1 .. Len(s) : s[i] # j
  BY <1>1 DEF ToSet
<1>7. ASSUME NEW a \in DOMAIN l, NEW b \in DOMAIN l, l[a] = l[b] PROVE a = b
  <2>1. a \in 1 .. Len(s) + 1 /\ b \in 1 .. Len(s) + 1
    BY <1>2, <1>7
  <2>2. CASE a = 1 \/ b = 1
    BY <1>1, <1>3, <1>4, <1>6, <1>7, <2>1, <2>2
  <2>3. CASE a # 1 /\ b # 1
    <3>1. /\ a \in 2 .. Len(s) + 1 /\ b \in 2 .. Len(s) + 1
          /\ a - 1 \in DOMAIN s /\ b - 1 \in DOMAIN s
      BY <1>1, <2>1, <2>3
    <3>2. s[a - 1] = s[b - 1]
      BY <1>4, <1>7, <3>1
    <3>3. a - 1 = b - 1
      BY <3>1, <3>2 DEF IsInjective
    <3> QED
      BY <3>1, <3>3
  <2> QED
    BY <2>2, <2>3
<1>8. IsInjective(l)
  BY <1>7 DEF IsInjective
<1> QED
  BY <1>5, <1>8 DEF l

LEMMA FrontJobs ==
  ASSUME NEW S, NEW s \in Seq(S), s # <<>>, IsInjective(s)
  PROVE  /\ ToSet(Front(s)) = ToSet(s) \ {Last(s)}
         /\ Last(s) \in ToSet(s)
         /\ IsInjective(Front(s))
<1>1. Len(s) \in Nat /\ Len(s) >= 1 /\ DOMAIN s = 1 .. Len(s)
  BY LenProperties, EmptySeq
<1>2. DOMAIN Front(s) = 1 .. Len(s) - 1 /\ Last(s) = s[Len(s)]
  BY <1>1, FrontLast, LenProperties
<1>3. \A i \in 1 .. Len(s) - 1 : Front(s)[i] = s[i]
  BY FrontLast
<1>4. ToSet(Front(s)) = ToSet(s) \ {Last(s)}
  BY <1>1, <1>2, <1>3 DEF ToSet, IsInjective
<1>5. Last(s) \in ToSet(s)
  BY <1>1, <1>2 DEF ToSet
<1>6. IsInjective(Front(s))
  BY <1>1, <1>2, <1>3 DEF IsInjective
<1> QED
  BY <1>4, <1>5, <1>6
-------------------------------------------------------------------------------
LEMMA JobsInit == Init => JobsInv
<1> SUFFICES ASSUME Init PROVE JobsInv
  OBVIOUS
<1>1. WorkersAt({"run"}) = {} /\ Held = {} /\ ToSet(jobList) = {} /\ IsInjective(jobList)
  BY DEF Init, Held, WorkersAt, ToSet, IsInjective
<1>2. Places
  BY <1>1 DEF Init, Places
<1>3. QED BY <1>2, OwnedInit DEF JobsInv

\* A step that moves no job and does not undo the exit keeps the places of the
\* jobs.
LEMMA PlacesKept ==
  ASSUME Places,
         UNCHANGED <<jobList, workerJob, submitted, finished>>,
         WorkersAt({"run"})' = WorkersAt({"run"}),
         Exited => Exited',
         isInit => isInit'
  PROVE  Places'
<1>1. Held' = Held
  BY DEF Held
<1>2. QED BY <1>1 DEF Places

\* The node a worker unlinks under the lock is the last one.
LEMMA UnlinkTail ==
  ASSUME Owned, LockHolds, Places, NEW t \in Threads, WorkerUnlink(t)
  PROVE  /\ jobList # <<>>
         /\ jobList' = Front(jobList)
         /\ workerJob' = [workerJob EXCEPT ![t] = Last(jobList)]
         /\ curJobNum' = curJobNum - 1
<1>1. jobList \in Seq(Jobs) /\ IsInjective(jobList) /\ None \notin Jobs
  BY ConstantsAssumption DEF Owned, Control, TypeOK, Places
<1>2. t \in WorkersAt({"take"})
  BY DEF WorkerUnlink, TakeJob, WorkersAt
<1>3. jobList # <<>> /\ headPrev[t] = Last(jobList) /\ headPrevPrev[t] = NodeAt(Len(jobList) - 1)
  BY <1>2 DEF Owned, TailRead
<1>4. PICK i \in 0 .. Len(jobList) :
        /\ NodeAt(i) = headPrevPrev[t]
        /\ TakeJob(t, headPrev[t], SubSeq(jobList, 1, i)) /\ curJobNum' = curJobNum - 1
  BY DEF WorkerUnlink
<1>5. Len(jobList) \in Nat /\ Len(jobList) >= 1 /\ \A k \in 1 .. Len(jobList) : jobList[k] \in Jobs
  BY <1>1, <1>3, LenProperties, EmptySeq, ElementOfSeq
<1>6. i = Len(jobList) - 1
  <2> DEFINE n == Len(jobList)
  <2>1. n \in Nat /\ n >= 1 /\ i \in 0 .. n /\ DOMAIN jobList = 1 .. n
    BY <1>1, <1>4, <1>5, LenProperties
  <2>2. NodeAt(i) = NodeAt(n - 1)
    BY <1>3, <1>4
  <2> HIDE DEF n
  <2>3. \A k \in 1 .. n : NodeAt(k) = jobList[k] /\ jobList[k] # None
    BY <1>1, <1>5, <2>1 DEF NodeAt, n
  <2>4. NodeAt(0) = None
    BY DEF NodeAt
  <2>5. CASE i = 0 \/ n - 1 = 0
    BY <2>1, <2>2, <2>3, <2>4, <2>5
  <2>6. CASE i \in 1 .. n /\ n - 1 \in 1 .. n
    <3>1. jobList[i] = jobList[n - 1]
      BY <2>2, <2>3, <2>6
    <3>2. i \in DOMAIN jobList /\ n - 1 \in DOMAIN jobList
      BY <2>1, <2>6
    <3>3. i = n - 1
      BY <1>1, <3>1, <3>2 DEF IsInjective
    <3>4. QED BY <3>3 DEF n
  <2>7. i = 0 \/ n - 1 = 0 \/ (i \in 1 .. n /\ n - 1 \in 1 .. n)
    BY <2>1
  <2>8. QED BY <2>5, <2>6, <2>7
<1>7. jobList' = Front(jobList)
  BY <1>4, <1>6 DEF TakeJob, Front
<1>8. QED BY <1>3, <1>4, <1>7 DEF TakeJob

\* A worker takes the oldest job.
LEMMA PopPlaces ==
  ASSUME Owned, LockHolds, Places, NEW t \in Threads, WorkerUnlink(t)
  PROVE  Places' /\ Held' = Held \cup {Last(jobList)}
<1> DEFINE j == Last(jobList)
<1>1. jobList \in Seq(Jobs) /\ jobList # <<>> /\ IsInjective(jobList) /\ TypeOK
  BY UnlinkTail DEF Owned, Control, TypeOK, Places
<1>2. /\ ToSet(jobList)' = ToSet(jobList) \ {j}
      /\ j \in ToSet(jobList)
      /\ IsInjective(jobList)'
  BY <1>1, FrontJobs, UnlinkTail
<1>3. j \in Jobs
  BY <1>1, FrontLast
<1>4. /\ workerJob'[t] = j
      /\ \A u \in Threads \ {t} : workerJob'[u] = workerJob[u]
  BY <1>1, UnlinkTail DEF TypeOK
<1> HIDE DEF j
<1>5. /\ t \notin WorkersAt({"run"})
      /\ WorkersAt({"run"})' = WorkersAt({"run"}) \cup {t}
  BY <1>1 DEF WorkerUnlink, TakeJob, WorkersAt, WorkerGoto, TypeOK
<1>6. WorkersAt({"run"}) \subseteq Threads
  BY DEF WorkersAt
<1>7. Held' = Held \cup {j}
  <2>1. \A x \in Held' : x \in Held \cup {j}
    BY <1>4, <1>5, <1>6 DEF Held
  <2>2. \A x \in Held \cup {j} : x \in Held'
    BY <1>4, <1>5, <1>6 DEF Held
  <2>3. QED BY <2>1, <2>2
<1>8. j \notin Held /\ j \notin finished
  BY <1>2 DEF Places
<1>9. \A u, v \in WorkersAt({"run"})' : workerJob'[u] = workerJob'[v] => u = v
  BY <1>4, <1>5, <1>6, <1>8 DEF Places, Held
<1>10. UNCHANGED <<submitted, finished, createFails, deinits, isInit>>
  BY DEF WorkerUnlink, TakeJob, historyVars, poolVars
<1>11. \A u \in WorkersAt({"run"})' : workerJob'[u] \in Jobs
  BY <1>3, <1>4, <1>5, <1>6 DEF Places
<1>12. jobList' # <<>> => isInit'
  BY <1>1, <1>10 DEF Places
<1>13. Places'
  BY <1>2, <1>7, <1>8, <1>9, <1>10, <1>11, <1>12 DEF Places, Exited
<1>14. QED BY <1>7, <1>13 DEF j

\* A worker's job returns.
LEMMA RunPlaces ==
  ASSUME TypeOK, Places, NEW t \in Threads, WorkerRun(t)
  PROVE  /\ Places'
         /\ workerJob[t] \in Held /\ Held' = Held \ {workerJob[t]}
<1>1. /\ t \in WorkersAt({"run"})
      /\ WorkersAt({"run"})' = WorkersAt({"run"}) \ {t}
  BY DEF WorkerRun, WorkersAt, WorkerGoto, TypeOK
<1>2. \A u \in Threads \ {t} : workerJob'[u] = workerJob[u]
  BY DEF WorkerRun, TypeOK
<1>3. WorkersAt({"run"}) \subseteq Threads
  BY DEF WorkersAt
<1>4. workerJob[t] \in Held
  BY <1>1 DEF Held
<1>5. Held' = Held \ {workerJob[t]}
  <2>1. \A x \in Held' : x \in Held \ {workerJob[t]}
    BY <1>1, <1>2, <1>3 DEF Held, Places
  <2>2. \A x \in Held \ {workerJob[t]} : x \in Held'
    BY <1>1, <1>2, <1>3 DEF Held
  <2>3. QED BY <2>1, <2>2
<1>6. /\ finished' = finished \cup {workerJob[t]}
      /\ UNCHANGED <<jobList, submitted, createFails, deinits, isInit>>
  BY DEF WorkerRun, listVars, poolVars
<1>7. \A u, v \in WorkersAt({"run"})' : workerJob'[u] = workerJob'[v] => u = v
  BY <1>1, <1>2, <1>3 DEF Places
<1>8. \A u \in WorkersAt({"run"})' : workerJob'[u] \in Jobs
  BY <1>1, <1>2, <1>3 DEF Places
<1>9. Places'
  BY <1>4, <1>5, <1>6, <1>7, <1>8 DEF Places, Exited
<1>10. QED BY <1>4, <1>5, <1>9

\* A caller links a job it has not submitted before.
LEMMA AddPlaces ==
  ASSUME Control, Places, NEW c \in Callers, NEW j \in Jobs, AddLink(c, j)
  PROVE  Places' /\ Held' = Held
<1>1. jobList \in Seq(Jobs) /\ IsInjective(jobList)
  BY DEF Control, TypeOK, Places
<1>2. j \notin finished \cup Held \cup ToSet(jobList)
  BY DEF AddLink, Places
<1>3. ToSet(jobList)' = ToSet(jobList) \cup {j} /\ IsInjective(jobList)'
  BY <1>1, <1>2, ConsJobs DEF AddLink
<1>4. /\ submitted' = submitted \cup {j}
      /\ UNCHANGED <<finished, workerPc, workerJob, createFails, deinits, isInit>>
  BY DEF AddLink, workerVars, jobVars, poolVars
<1>5. WorkersAt({"run"})' = WorkersAt({"run"}) /\ Held' = Held
  BY <1>4 DEF WorkersAt, Held
<1>6. isInit'
  BY <1>4 DEF AddLink, Control, AddAfterInit
<1>7. Places'
  BY <1>2, <1>3, <1>4, <1>5, <1>6 DEF Places, Exited
<1>8. QED BY <1>5, <1>7

\* The steps of a worker that take no job and finish none.
QuietWorker(t) ==
  \/ WorkerCheck(t) \/ WorkerLockIdle(t) \/ WorkerIdle(t) \/ WorkerWait(t)
  \/ WorkerLockPop(t) \/ WorkerPopNothing(t) \/ WorkerFindTail(t) \/ UseAfterFree

\* The steps of a caller that neither link nor unlink a job.
QuietCaller(c) ==
  \/ InitCreate(c) \/ InitCreateFails(c) \/ InitDone(c)
  \/ AddEnter(c) \/ AddLock(c) \/ AddFindHead(c) \/ AddPost(c)
  \/ DeinitEnter(c) \/ ExitPost(c) \/ ExitJoin(c) \/ ExitJoinCrash(c) \/ ExitDestroy(c)
  \/ DeinitReset(c) \/ DeinitFree(c) \/ UseAfterFree

LEMMA QuietWorkerPlaces ==
  ASSUME TypeOK, NEW t \in Threads, QuietWorker(t)
  PROVE  /\ UNCHANGED <<jobList, workerJob, submitted, finished, isInit>>
         /\ WorkersAt({"run"})' = WorkersAt({"run"})
<1> USE DEF TypeOK, listVars, jobVars, tailVars, workerVars, historyVars, poolVars, WorkersAt, WorkerGoto
<1>1. CASE WorkerCheck(t)
  BY <1>1 DEF WorkerCheck
<1>2. CASE WorkerLockIdle(t)
  BY <1>2 DEF WorkerLockIdle
<1>3. CASE WorkerIdle(t)
  BY <1>3 DEF WorkerIdle
<1>4. CASE WorkerWait(t)
  BY <1>4 DEF WorkerWait
<1>5. CASE WorkerLockPop(t)
  BY <1>5 DEF WorkerLockPop
<1>6. CASE WorkerPopNothing(t)
  BY <1>6 DEF WorkerPopNothing
<1>7. CASE WorkerFindTail(t)
  BY <1>7 DEF WorkerFindTail
<1>8. CASE UseAfterFree
  BY <1>8 DEF UseAfterFree
<1>9. QED BY <1>1, <1>2, <1>3, <1>4, <1>5, <1>6, <1>7, <1>8 DEF QuietWorker

LEMMA QuietCallerPlaces ==
  ASSUME TypeOK, NEW c \in Callers, QuietCaller(c)
  PROVE  /\ UNCHANGED <<jobList, workerJob, submitted, finished>>
         /\ isInit => isInit'
         /\ WorkersAt({"run"})' = WorkersAt({"run"})
<1>1. UNCHANGED <<jobList, workerJob, submitted, finished>> /\ (isInit => isInit')
  BY DEF QuietCaller, InitCreate, InitDone, AddLock, AddFindHead, AddPost, ExitPost, ExitJoin, ExitJoinCrash,
    ExitDestroy, DeinitReset, DeinitFree, UseAfterFree, InitCreateFails, AddEnter, DeinitEnter, DeinitWith,
    ExitBegin, workerVars, jobVars, listVars, historyVars, poolVars
<1>2. WorkersAt({"run"})' = WorkersAt({"run"})
  <2>1. CASE InitCreate(c)
    BY <2>1 DEF InitCreate, WorkerGoto, Created, WorkersAt, TypeOK
  <2>2. CASE ~InitCreate(c)
    <3>1. workerPc' = workerPc
      BY <2>2 DEF QuietCaller, InitDone, AddLock, AddFindHead, AddPost, ExitPost, ExitJoin, ExitJoinCrash,
        ExitDestroy, DeinitReset, DeinitFree, UseAfterFree, InitCreateFails, AddEnter, DeinitEnter, DeinitWith,
        ExitBegin, workerVars
    <3>2. QED BY <3>1 DEF WorkersAt
  <2>3. QED BY <2>1, <2>2
<1>3. QED BY <1>1, <1>2

\* InitDoublyLinkedListNode finds the list as it leaves it.
LEMMA InitPlaces ==
  ASSUME Places, NEW c \in Callers, NEW n \in 0 .. ThreadPoolNumMax,
         InitEnter(c, n) \/ InitResourceFails(c, n)
  PROVE  /\ UNCHANGED <<jobList, workerJob, submitted, finished, isInit>>
         /\ WorkersAt({"run"})' = WorkersAt({"run"})
<1>1. jobList = <<>> /\ UNCHANGED <<jobList, workerPc, workerJob, submitted, finished, isInit>>
  BY DEF InitEnter, SetUp, InitResourceFails, Places, workerVars, jobVars, historyVars
<1>2. QED BY <1>1 DEF WorkersAt

\* Deinit empties the list after the lock is gone.
LEMMA DeinitDoneLate ==
  ASSUME Control, LockHolds, NEW c \in Callers, DeinitDone(c)
  PROVE  FALSE
<1>1. callerPc[c] = "free" /\ \A d \in Callers : d # c => callerPc[d] = "out"
  BY OneCaller DEF DeinitDone, CallerStep, Control
<1>2. Exited /\ ~CallerAt({"exit_post", "exit_join", "exit_destroy"})
  BY <1>1 DEF Control, ExitBegun, CallerAt
<1>3. QED BY <1>2, ExitedOrNot DEF Control, LockHolds

LEMMA JobsStep ==
  ASSUME JobsInv, [Next]_vars
  PROVE  JobsInv' /\ (LockHolds' => LockHolds) /\ (Exited => Exited')
<1>1. Owned' /\ (LockHolds' => LockHolds) /\ (Exited => Exited')
  BY OwnedStep DEF JobsInv
<1>2. ASSUME LockHolds' PROVE Places'
  <2>1. TypeOK /\ Control /\ Owned /\ LockHolds /\ Places
    BY <1>1, <1>2 DEF JobsInv, Owned, Control
  <2>2. ASSUME NEW t \in Threads, Worker(t) PROVE Places'
    <3>1. CASE WorkerUnlink(t)
      BY <2>1, <3>1, PopPlaces
    <3>2. CASE WorkerRun(t)
      BY <2>1, <3>2, RunPlaces
    <3>3. CASE QuietWorker(t)
      BY <1>1, <2>1, <3>3, QuietWorkerPlaces, PlacesKept
    <3>4. QED
      BY <2>2, <3>1, <3>2, <3>3
      DEF Worker, QuietWorker, WorkerFindFreed, WorkerUnlinkFreed, WorkerRunFreed
  <2>3. ASSUME NEW c \in Callers, CallerStep(c) \/ CallerChoice(c) PROVE Places'
    <3>1. ASSUME NEW j \in Jobs, AddLink(c, j) PROVE Places'
      BY <2>1, <3>1, AddPlaces
    <3>2. CASE QuietCaller(c)
      BY <1>1, <2>1, <3>2, QuietCallerPlaces, PlacesKept
    <3>3. CASE DeinitDone(c)
      BY <2>1, <3>3, DeinitDoneLate
    <3>4. ASSUME NEW n \in 0 .. ThreadPoolNumMax, InitEnter(c, n) \/ InitResourceFails(c, n)
          PROVE  Places'
      BY <1>1, <2>1, <3>4, InitPlaces, PlacesKept
    <3>5. QED
      BY <2>3, <3>1, <3>2, <3>3, <3>4
      DEF CallerStep, CallerChoice, QuietCaller, AddLinkFreed, DeinitFreeFreed
  <2>4. CASE UNCHANGED vars
    BY <2>1, <2>4, PlacesKept DEF vars, poolVars, listVars, workerVars, jobVars, historyVars, WorkersAt, Exited
  <2>5. QED BY <2>2, <2>3, <2>4 DEF Next, Rest
<1>3. QED BY <1>1, <1>2 DEF JobsInv

LEMMA JobsInvariant == Spec => []JobsInv
<1>1. JobsInv /\ [Next]_vars => JobsInv'
  BY JobsStep
<1>2. QED BY <1>1, JobsInit, PTL DEF Spec

\* Until the pool's mutex is destroyed a job is never in two places, and until
\* the pool is told to exit no job that was accepted is lost, whatever the
\* numbers of threads, callers and jobs (thread_pool.c:67-77 and 187).
THEOREM JobsAccountedAlways == Spec => []JobsAccounted
  BY JobsInvariant, JobsInvAccounts, PTL
-------------------------------------------------------------------------------
(***************************************************************************)
(* curJobNum counts the list.                                              *)
(***************************************************************************)
LEMMA CountInit == Init => CountMatchesList
  BY DEF Init, CountMatchesList, Exited

LEMMA CountStep == JobsInv /\ CountMatchesList /\ [Next]_vars => CountMatchesList'
<1> SUFFICES ASSUME JobsInv, CountMatchesList, [Next]_vars, ~Exited' PROVE curJobNum' = Len(jobList')
  BY DEF CountMatchesList
<1>1. /\ ~Exited /\ LockHolds /\ Owned /\ Control /\ TypeOK /\ Places
      /\ jobList \in Seq(Jobs) /\ curJobNum = Len(jobList)
  BY JobsStep, LockHoldsUntilExit DEF JobsInv, Owned, Control, TypeOK, CountMatchesList
<1>2. ASSUME UNCHANGED <<curJobNum, jobList>> PROVE curJobNum' = Len(jobList')
  BY <1>1, <1>2
<1>3. ASSUME NEW t \in Threads, Worker(t) PROVE curJobNum' = Len(jobList')
  <2>1. CASE WorkerUnlink(t)
    <3>1. jobList # <<>> /\ jobList' = Front(jobList) /\ curJobNum' = curJobNum - 1
      BY <1>1, <2>1, UnlinkTail
    <3>2. Len(jobList') = Len(jobList) - 1
      BY <1>1, <3>1, FrontLast
    <3>3. QED BY <1>1, <3>1, <3>2
  <2>2. CASE ~WorkerUnlink(t)
    BY <1>2, <1>3, <2>2 DEF Worker, WorkerCheck, WorkerLockIdle, WorkerIdle, WorkerWait, WorkerLockPop,
      WorkerPopNothing, WorkerFindTail, WorkerFindFreed, WorkerUnlinkFreed, WorkerRun, WorkerRunFreed,
      UseAfterFree, countVars, listVars
  <2>3. QED BY <2>1, <2>2
<1>4. ASSUME NEW c \in Callers, CallerStep(c) \/ CallerChoice(c) PROVE curJobNum' = Len(jobList')
  <2>1. ASSUME NEW j \in Jobs, AddLink(c, j) PROVE curJobNum' = Len(jobList')
    <3>1. Len(jobList)' = Len(jobList) + 1
      BY <1>1, <2>1, ConcatProperties DEF AddLink
    <3>2. QED BY <1>1, <2>1, <3>1 DEF AddLink
  <2>2. ASSUME NEW n \in 0 .. ThreadPoolNumMax, InitEnter(c, n) \/ InitResourceFails(c, n)
        PROVE  curJobNum' = Len(jobList')
    BY <2>2 DEF InitEnter, SetUp, InitResourceFails
  <2>3. CASE DeinitReset(c) \/ DeinitDone(c)
    BY <1>1, <2>3 DEF DeinitReset, DeinitDone, Control, ExitBegun
  <2>4. CASE QuietCaller(c) /\ ~DeinitReset(c)
    BY <1>2, <2>4 DEF QuietCaller, InitCreate, InitDone, AddLock, AddFindHead, AddPost, ExitPost, ExitJoin,
      ExitJoinCrash, ExitDestroy, DeinitFree, UseAfterFree, InitCreateFails, AddEnter, DeinitEnter, DeinitWith,
      ExitBegin, countVars, listVars
  <2>5. QED
    BY <1>4, <2>1, <2>2, <2>3, <2>4
    DEF CallerStep, CallerChoice, QuietCaller, AddLinkFreed, DeinitFreeFreed
<1>5. CASE UNCHANGED vars
  BY <1>2, <1>5 DEF vars, countVars, listVars
<1>6. QED BY <1>3, <1>4, <1>5 DEF Next, Rest

\* Until the pool is told to exit, curJobNum is the length of the list, for any
\* number of threads and callers (thread_pool.c:72 and 188).
THEOREM CountMatchesListAlways == Spec => []CountMatchesList
  BY CountInit, CountStep, JobsInvariant, PTL DEF Spec
-------------------------------------------------------------------------------
(***************************************************************************)
(* The pool implements JobQueue while its list has a lock.                 *)
(***************************************************************************)
queueVars == <<jobList, submitted, Held, finished>>

LEMMA QueueInit == Init => AbstractQueue!Init
<1> SUFFICES ASSUME Init PROVE AbstractQueue!Init
  OBVIOUS
<1>1. Held = {}
  BY DEF Init, Held, WorkersAt
<1>2. QED BY <1>1 DEF Init, AbstractQueue!Init

\* What each step does to the abstract queue: linking a job submits it, taking
\* the tail starts the oldest, the return of a job finishes it, and all other
\* steps stutter.
LEMMA QueueSteps == JobsInv /\ [Next]_vars => [QueueStep]_queueVars
<1> SUFFICES ASSUME JobsInv, [Next]_vars, LockHolds'
             PROVE  AbstractQueue!Next \/ UNCHANGED queueVars
  BY DEF QueueStep
<1>1. TypeOK /\ Control /\ Owned /\ LockHolds /\ Places
  BY JobsStep DEF JobsInv, Owned, Control
<1>2. ASSUME UNCHANGED <<jobList, workerJob, submitted, finished>>,
             WorkersAt({"run"})' = WorkersAt({"run"})
      PROVE  UNCHANGED queueVars
  BY <1>2 DEF Held, queueVars
<1>3. ASSUME NEW t \in Threads, WorkerUnlink(t) PROVE AbstractQueue!StartOldest
  <2>1. Held' = Held \cup {Last(jobList)}
    BY <1>1, <1>3, PopPlaces
  <2>2. jobList # <<>> /\ jobList' = Front(jobList) /\ UNCHANGED <<submitted, finished>>
    BY <1>1, <1>3, UnlinkTail DEF WorkerUnlink, TakeJob, historyVars
  <2>3. QED
    BY <2>1, <2>2 DEF AbstractQueue!StartOldest, AbstractQueue!Front, AbstractQueue!Last, Front, Last
<1>4. ASSUME NEW t \in Threads, WorkerRun(t)
      PROVE  \E j \in Jobs : AbstractQueue!Finish(j)
  <2>1. workerJob[t] \in Held /\ Held' = Held \ {workerJob[t]}
    BY <1>1, <1>4, RunPlaces
  <2>2. workerJob[t] \in Jobs
    BY <1>1, <1>4 DEF WorkerRun, Places, WorkersAt
  <2>3. AbstractQueue!Finish(workerJob[t])
    BY <1>4, <2>1 DEF WorkerRun, listVars, AbstractQueue!Finish
  <2>4. QED BY <2>2, <2>3
<1>5. ASSUME NEW c \in Callers, NEW j \in Jobs, AddLink(c, j)
      PROVE  AbstractQueue!Submit(j)
  <2>1. Held' = Held
    BY <1>1, <1>5, AddPlaces
  <2>2. QED BY <1>5, <2>1 DEF AddLink, AbstractQueue!Submit
<1>6. ASSUME NEW t \in Threads, Worker(t)
      PROVE  AbstractQueue!Next \/ UNCHANGED queueVars
  <2>1. CASE QuietWorker(t)
    BY <1>1, <1>2, <2>1, QuietWorkerPlaces
  <2>2. CASE WorkerUnlink(t)
    BY <1>3, <2>2 DEF AbstractQueue!Next
  <2>3. CASE WorkerRun(t)
    BY <1>4, <2>3 DEF AbstractQueue!Next
  <2>4. QED
    BY <1>6, <2>1, <2>2, <2>3
    DEF Worker, QuietWorker, WorkerFindFreed, WorkerUnlinkFreed, WorkerRunFreed
<1>7. ASSUME NEW c \in Callers, CallerStep(c) \/ CallerChoice(c)
      PROVE  AbstractQueue!Next \/ UNCHANGED queueVars
  <2>1. CASE QuietCaller(c)
    BY <1>1, <1>2, <2>1, QuietCallerPlaces
  <2>2. ASSUME NEW j \in Jobs, AddLink(c, j) PROVE AbstractQueue!Next
    BY <1>5, <2>2 DEF AbstractQueue!Next
  <2>3. ASSUME NEW n \in 0 .. ThreadPoolNumMax, InitEnter(c, n) \/ InitResourceFails(c, n)
        PROVE  UNCHANGED queueVars
    BY <1>1, <1>2, <2>3, InitPlaces
  <2>4. CASE DeinitDone(c)
    BY <1>1, <2>4, DeinitDoneLate
  <2>5. QED
    BY <1>7, <2>1, <2>2, <2>3, <2>4
    DEF CallerStep, CallerChoice, QuietCaller, AddLinkFreed, DeinitFreeFreed
<1>8. CASE UNCHANGED vars
  BY <1>2, <1>8 DEF vars, listVars, workerVars, jobVars, historyVars, WorkersAt
<1>9. QED BY <1>6, <1>7, <1>8 DEF Next, Rest

\* Until the pool's mutex is destroyed, every step of the pool is one of
\* JobQueue: oldest job first, each job handed to one thread at most once, and
\* no job leaves the list unstarted (thread_pool.c:51-83, 154-194).
THEOREM PoolImplementsJobQueue == Spec => ImplementsJobQueue
  BY JobsInvariant, QueueInit, QueueSteps, PTL DEF Spec, ImplementsJobQueue, queueVars
===============================================================================
