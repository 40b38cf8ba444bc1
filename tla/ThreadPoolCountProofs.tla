------------------------ MODULE ThreadPoolCountProofs ------------------------
(***************************************************************************)
(* Proofs of what ThreadPool counts, for any number of threads, callers    *)
(* and jobs: the value of the semaphore, idleThreadNum, and the posts of   *)
(* ThreadPoolExitHandle against the threads that wait for them.            *)
(***************************************************************************)
EXTENDS ThreadPoolProofs, FiniteSetTheorems

\* The threads that were created are those Init has counted.
CreatedCounted ==
  ~Exited => IF CallerAt({"create"}) THEN Cardinality(Created) = idx /\ idx <= maxThreadNum
             ELSE Cardinality(Created) <= IF isInit THEN maxThreadNum ELSE 0

\* Threads that sem_wait has let through, that are between the idle counter and
\* their job, and that may still block in sem_wait.
Woken == Cardinality(WorkersAt({"lock_pop", "pop", "take"}))
Waiting == Cardinality(WorkersAt({"wait", "lock_pop", "pop"}))
Leaving == Cardinality(WorkersAt({"lock_idle", "idle", "wait"}))
-------------------------------------------------------------------------------
(***************************************************************************)
(* Counting workers.                                                       *)
(***************************************************************************)
LEMMA FiniteWorkers ==
  ASSUME NEW S
  PROVE  IsFiniteSet(WorkersAt(S)) /\ Cardinality(WorkersAt(S)) \in Nat
<1>1. WorkersAt(S) \in SUBSET Threads
  BY DEF WorkersAt
<1>2. IsFiniteSet(WorkersAt(S))
  BY <1>1, ConstantsAssumption, FS_Subset
<1>3. QED BY <1>2, FS_CardinalityType

\* A worker that goes from one place to another leaves the first and is counted
\* in the second.
LEMMA WorkerMoves ==
  ASSUME TypeOK, NEW t \in Threads, NEW pc, workerPc' = [workerPc EXCEPT ![t] = pc], NEW S
  PROVE  Cardinality(WorkersAt(S))' = Cardinality(WorkersAt(S))
           - (IF workerPc[t] \in S THEN 1 ELSE 0) + (IF pc \in S THEN 1 ELSE 0)
<1> DEFINE before == WorkersAt(S)
           after == {u \in Threads : workerPc'[u] \in S}
<1>1. IsFiniteSet(before) /\ Cardinality(before) \in Nat
  BY FiniteWorkers
<1>2. t \in before <=> workerPc[t] \in S
  BY DEF WorkersAt
<1>3. after = IF pc \in S THEN before \cup {t} ELSE before \ {t}
  BY DEF WorkersAt, TypeOK
<1>4. WorkersAt(S)' = after
  BY DEF WorkersAt
<1> HIDE DEF before, after
<1>5. Cardinality(after) = Cardinality(before)
        - (IF t \in before THEN 1 ELSE 0) + (IF pc \in S THEN 1 ELSE 0)
  <2>1. CASE pc \in S
    <3>1. Cardinality(before \cup {t}) = IF t \in before THEN Cardinality(before) ELSE Cardinality(before) + 1
      BY <1>1, FS_AddElement
    <3>2. QED BY <1>1, <1>3, <2>1, <3>1
  <2>2. CASE pc \notin S
    <3>1. Cardinality(before \ {t}) = IF t \in before THEN Cardinality(before) - 1 ELSE Cardinality(before)
      BY <1>1, FS_RemoveElement
    <3>2. QED BY <1>1, <1>3, <2>2, <3>1
  <2>3. QED BY <2>1, <2>2
<1>6. QED BY <1>2, <1>4, <1>5 DEF before

LEMMA Counted ==
  ASSUME TypeOK
  PROVE  /\ Woken \in Nat /\ Waiting \in Nat /\ Leaving \in Nat /\ Cardinality(Created) \in Nat
         /\ Waiting <= Cardinality(Created)
         /\ Leaving <= Cardinality(Created)
         /\ \A t \in Threads : workerPc[t] = "idle" => Waiting + 1 <= Cardinality(Created)
<1>1. Woken \in Nat /\ Waiting \in Nat /\ Leaving \in Nat
  BY FiniteWorkers DEF Woken, Waiting, Leaving
<1>2. IsFiniteSet(Created) /\ Cardinality(Created) \in Nat
  <2>1. Created \in SUBSET Threads
    BY DEF Created
  <2>2. QED BY <2>1, ConstantsAssumption, FS_Subset, FS_CardinalityType
<1>3. Waiting <= Cardinality(Created)
  <2>1. WorkersAt({"wait", "lock_pop", "pop"}) \in SUBSET Created
    BY DEF WorkersAt, Created
  <2>2. QED BY <1>2, <2>1, FS_Subset DEF Waiting
<1>4. Leaving <= Cardinality(Created)
  <2>1. WorkersAt({"lock_idle", "idle", "wait"}) \in SUBSET Created
    BY DEF WorkersAt, Created
  <2>2. QED BY <1>2, <2>1, FS_Subset DEF Leaving
<1>5. ASSUME NEW t \in Threads, workerPc[t] = "idle" PROVE Waiting + 1 <= Cardinality(Created)
  <2> DEFINE W == WorkersAt({"wait", "lock_pop", "pop"})
  <2>1. W \cup {t} \in SUBSET Created /\ t \notin W
    BY <1>5 DEF WorkersAt, Created
  <2>2. Cardinality(W \cup {t}) = Cardinality(W) + 1
    BY <2>1, FiniteWorkers, FS_AddElement
  <2>3. Cardinality(W \cup {t}) <= Cardinality(Created)
    BY <1>2, <2>1, FS_Subset
  <2>4. QED BY <2>2, <2>3 DEF Waiting
<1>6. QED BY <1>1, <1>2, <1>3, <1>4, <1>5

\* Nobody is anywhere when no thread was created.
LEMMA NoneCounted ==
  ASSUME TypeOK, Cardinality(Created) = 0
  PROVE  Woken = 0 /\ Waiting = 0 /\ Leaving = 0
<1>1. WorkersAt({"lock_pop", "pop", "take"}) \in SUBSET Created /\ IsFiniteSet(Created)
  <2>1. Created \in SUBSET Threads
    BY DEF Created
  <2>2. QED BY <2>1, ConstantsAssumption, FS_Subset DEF WorkersAt, Created
<1>2. Woken <= Cardinality(Created)
  BY <1>1, FS_Subset DEF Woken
<1>3. QED BY <1>2, Counted

LEMMA WorkerCounts ==
  ASSUME TypeOK, NEW t \in Threads, NEW pc, workerPc' = [workerPc EXCEPT ![t] = pc]
  PROVE  /\ Woken' = Woken - (IF workerPc[t] \in {"lock_pop", "pop", "take"} THEN 1 ELSE 0)
                           + (IF pc \in {"lock_pop", "pop", "take"} THEN 1 ELSE 0)
         /\ Waiting' = Waiting - (IF workerPc[t] \in {"wait", "lock_pop", "pop"} THEN 1 ELSE 0)
                               + (IF pc \in {"wait", "lock_pop", "pop"} THEN 1 ELSE 0)
         /\ Leaving' = Leaving - (IF workerPc[t] \in {"lock_idle", "idle", "wait"} THEN 1 ELSE 0)
                               + (IF pc \in {"lock_idle", "idle", "wait"} THEN 1 ELSE 0)
         /\ workerPc[t] # "none" /\ pc # "none" => Created' = Created
         /\ workerPc[t] = "none" /\ pc # "none" => Cardinality(Created)' = Cardinality(Created) + 1
<1>1. workerPc'[t] = pc /\ \A u \in Threads : u # t => workerPc'[u] = workerPc[u]
  BY DEF TypeOK
<1>2. workerPc[t] # "none" /\ pc # "none" => Created' = Created
  BY <1>1 DEF Created
<1>3. ASSUME workerPc[t] = "none", pc # "none" PROVE Cardinality(Created)' = Cardinality(Created) + 1
  <2>1. Created' = Created \cup {t} /\ t \notin Created
    BY <1>1, <1>3 DEF Created
  <2>2. IsFiniteSet(Created)
    <3>1. Created \in SUBSET Threads
      BY DEF Created
    <3>2. QED BY <3>1, ConstantsAssumption, FS_Subset
  <2>3. QED BY <2>1, <2>2, FS_AddElement
<1>4. Woken' = Woken - (IF workerPc[t] \in {"lock_pop", "pop", "take"} THEN 1 ELSE 0)
                     + (IF pc \in {"lock_pop", "pop", "take"} THEN 1 ELSE 0)
  <2> DEFINE S == {"lock_pop", "pop", "take"}
  <2> HIDE DEF S
  <2>1. Cardinality(WorkersAt(S))' = Cardinality(WorkersAt(S))
          - (IF workerPc[t] \in S THEN 1 ELSE 0) + (IF pc \in S THEN 1 ELSE 0)
    BY WorkerMoves
  <2>2. QED BY <2>1 DEF Woken, S
<1>5. Waiting' = Waiting - (IF workerPc[t] \in {"wait", "lock_pop", "pop"} THEN 1 ELSE 0)
                         + (IF pc \in {"wait", "lock_pop", "pop"} THEN 1 ELSE 0)
  <2> DEFINE S == {"wait", "lock_pop", "pop"}
  <2> HIDE DEF S
  <2>1. Cardinality(WorkersAt(S))' = Cardinality(WorkersAt(S))
          - (IF workerPc[t] \in S THEN 1 ELSE 0) + (IF pc \in S THEN 1 ELSE 0)
    BY WorkerMoves
  <2>2. QED BY <2>1 DEF Waiting, S
<1>6. Leaving' = Leaving - (IF workerPc[t] \in {"lock_idle", "idle", "wait"} THEN 1 ELSE 0)
                         + (IF pc \in {"lock_idle", "idle", "wait"} THEN 1 ELSE 0)
  <2> DEFINE S == {"lock_idle", "idle", "wait"}
  <2> HIDE DEF S
  <2>1. Cardinality(WorkersAt(S))' = Cardinality(WorkersAt(S))
          - (IF workerPc[t] \in S THEN 1 ELSE 0) + (IF pc \in S THEN 1 ELSE 0)
    BY WorkerMoves
  <2>2. QED BY <2>1 DEF Leaving, S
<1>7. QED BY <1>2, <1>3, <1>4, <1>5, <1>6
-------------------------------------------------------------------------------
(***************************************************************************)
(* The counts of every step.  Post is 1 while a caller is about to post.   *)
(***************************************************************************)
Post == IF CallerAt({"post"}) THEN 1 ELSE 0

\* TokensMatchJobs, IdleCoversWaiting and ExitTokensSuffice in these words.
CountsInv ==
  /\ CreatedCounted
  /\ ~Exited => sem + Woken + Post = Len(jobList)
  /\ ~Exited => Waiting <= idleThreadNum /\ idleThreadNum <= maxThreadNum
  /\ ~isRunning /\ createFails = 0 => Leaving <= sem + PostsOwed

\* A worker's step does not touch what the callers still owe.
LEMMA PostsKept ==
  ASSUME NEW t \in Threads, Worker(t)
  PROVE  Post' = Post /\ PostsOwed' = PostsOwed
  BY WorkerKeeps DEF Post, PostsOwed

LEMMA WorkerCounted ==
  ASSUME JobsInv, CountsInv, NEW t \in Threads, Worker(t)
  PROVE  CountsInv'
<1> DEFINE jobs == Len(jobList)
<1>1. /\ TypeOK /\ sem \in Nat /\ idleThreadNum \in Int /\ maxThreadNum \in Int
      /\ jobList \in Seq(Jobs) /\ jobs \in Nat /\ workerPc[t] \in WorkerPcs
  BY LenProperties DEF JobsInv, Owned, Control, TypeOK
<1>2. /\ Woken \in Nat /\ Waiting \in Nat /\ Leaving \in Nat /\ Cardinality(Created) \in Nat
      /\ workerPc[t] = "idle" => Waiting + 1 <= Cardinality(Created)
      /\ Woken' \in Nat
  <2>1. Woken' \in Nat
    <3>1. WorkersAt({"lock_pop", "pop", "take"})' \in SUBSET Threads
      BY DEF WorkersAt
    <3>2. QED BY <3>1, ConstantsAssumption, FS_Subset, FS_CardinalityType DEF Woken
  <2>2. QED BY <1>1, <2>1, Counted
<1>3. Post \in {0, 1} /\ PostsOwed \in Int
  BY DEF JobsInv, Owned, Control, TypeOK, Post, PostsOwed
<1>4. ~Exited => Cardinality(Created) <= maxThreadNum
  <2>1. idx \in Int /\ maxThreadNum \in Nat
    BY DEF JobsInv, Owned, Control, TypeOK
  <2>2. QED BY <1>2, <2>1 DEF CountsInv, CreatedCounted
<1>5. SUFFICES /\ Created' = Created
               /\ ~Exited => sem' + Woken' + Post = Len(jobList')
               /\ ~Exited => Waiting' <= idleThreadNum' /\ idleThreadNum' <= maxThreadNum
               /\ ~isRunning /\ createFails = 0 => Leaving' <= sem' + PostsOwed
  BY WorkerKeeps, PostsKept DEF CountsInv, CreatedCounted
<1> DEFINE old == workerPc[t]
           pc == workerPc'[t]
<1>6. workerPc' = [workerPc EXCEPT ![t] = pc] /\ old # "none" /\ pc # "none"
  BY <1>1 DEF TypeOK, Worker, WorkerCheck, WorkerLockIdle, WorkerIdle, WorkerWait, WorkerLockPop, WorkerPopNothing,
    WorkerFindTail, WorkerFindFreed, WorkerUnlink, TakeJob, WorkerUnlinkFreed, WorkerRun, WorkerRunFreed,
    UseAfterFree, WorkerGoto, workerVars
<1> HIDE DEF pc
<1>7. /\ Woken' = Woken - (IF old \in {"lock_pop", "pop", "take"} THEN 1 ELSE 0)
                        + (IF pc \in {"lock_pop", "pop", "take"} THEN 1 ELSE 0)
      /\ Waiting' = Waiting - (IF old \in {"wait", "lock_pop", "pop"} THEN 1 ELSE 0)
                            + (IF pc \in {"wait", "lock_pop", "pop"} THEN 1 ELSE 0)
      /\ Leaving' = Leaving - (IF old \in {"lock_idle", "idle", "wait"} THEN 1 ELSE 0)
                            + (IF pc \in {"lock_idle", "idle", "wait"} THEN 1 ELSE 0)
      /\ Created' = Created
  BY <1>1, <1>6, WorkerCounts, Zenon
<1> HIDE DEF old
<1>8. CASE WorkerCheck(t) \/ WorkerRun(t)
  <2>1. /\ old \in {"check", "run"} /\ pc \in {"check", "lock_idle", "done"} /\ (pc = "lock_idle" => isRunning)
        /\ UNCHANGED <<jobList, sem, idleThreadNum>>
    BY <1>1, <1>8 DEF TypeOK, WorkerCheck, WorkerRun, WorkerGoto, listVars, countVars, old, pc
  <2>2. Woken' = Woken /\ Waiting' = Waiting /\ (~isRunning => Leaving' = Leaving)
    BY <1>2, <1>7, <2>1
  <2>3. QED BY <1>1, <1>2, <1>3, <1>7, <2>1, <2>2 DEF CountsInv
<1>9. CASE WorkerLockIdle(t)
  <2>1. old = "lock_idle" /\ pc = "idle" /\ UNCHANGED <<jobList, sem, idleThreadNum>>
    BY <1>1, <1>9 DEF TypeOK, WorkerLockIdle, WorkerGoto, listVars, countVars, old, pc
  <2>2. Woken' = Woken /\ Waiting' = Waiting /\ Leaving' = Leaving
    BY <1>2, <1>7, <2>1
  <2>3. QED BY <1>1, <1>2, <1>3, <1>7, <2>1, <2>2 DEF CountsInv
<1>10. CASE WorkerIdle(t)
  <2>1. /\ workerPc[t] = "idle" /\ old = "idle" /\ pc = "wait" /\ UNCHANGED <<jobList, sem>>
        /\ idleThreadNum' = IF idleThreadNum # maxThreadNum THEN idleThreadNum + 1 ELSE idleThreadNum
    BY <1>1, <1>10 DEF TypeOK, WorkerIdle, WorkerGoto, listVars, old, pc
  <2>2. Woken' = Woken /\ Waiting' = Waiting + 1 /\ Leaving' = Leaving
    BY <1>2, <1>7, <2>1
  <2>3. ~Exited => Waiting' <= idleThreadNum' /\ idleThreadNum' <= maxThreadNum
    BY <1>1, <1>2, <1>4, <2>1, <2>2 DEF CountsInv
  <2>4. QED BY <1>1, <1>2, <1>3, <1>7, <2>1, <2>2, <2>3 DEF CountsInv
<1>11. CASE WorkerWait(t)
  <2>1. old = "wait" /\ pc = "lock_pop" /\ sem' = sem - 1 /\ UNCHANGED <<jobList, idleThreadNum>>
    BY <1>1, <1>11 DEF TypeOK, WorkerWait, WorkerGoto, listVars, countVars, old, pc
  <2>2. Woken' = Woken + 1 /\ Waiting' = Waiting /\ Leaving' = Leaving - 1
    BY <1>2, <1>7, <2>1
  <2>3. QED BY <1>1, <1>2, <1>3, <1>7, <2>1, <2>2 DEF CountsInv
<1>12. CASE WorkerLockPop(t)
  <2>1. old = "lock_pop" /\ pc = "pop" /\ UNCHANGED <<jobList, sem, idleThreadNum>>
    BY <1>1, <1>12 DEF TypeOK, WorkerLockPop, WorkerGoto, listVars, countVars, old, pc
  <2>2. Woken' = Woken /\ Waiting' = Waiting /\ Leaving' = Leaving
    BY <1>2, <1>7, <2>1
  <2>3. QED BY <1>1, <1>2, <1>3, <1>7, <2>1, <2>2 DEF CountsInv
\* A worker that was let through finds a job, until the pool is told to exit.
<1>13. CASE WorkerPopNothing(t)
  <2>1. /\ old = "pop" /\ pc = "check" /\ jobList = <<>> /\ UNCHANGED <<jobList, sem>>
        /\ idleThreadNum' = idleThreadNum - 1
    BY <1>1, <1>13 DEF TypeOK, WorkerPopNothing, WorkerGoto, listVars, old, pc
  <2>2. Woken' = Woken - 1 /\ Waiting' = Waiting - 1 /\ Leaving' = Leaving
    BY <1>2, <1>7, <2>1
  <2>3. jobs = 0
    BY <2>1
  <2>4. Exited
    BY <1>1, <1>2, <1>3, <2>2, <2>3 DEF CountsInv
  <2>5. QED BY <1>7, <2>1, <2>2, <2>4 DEF CountsInv
<1>14. CASE WorkerFindTail(t)
  <2>1. /\ old = "pop" /\ pc = "take" /\ UNCHANGED <<jobList, sem>>
        /\ idleThreadNum' = idleThreadNum - 1
    BY <1>1, <1>14 DEF TypeOK, WorkerFindTail, WorkerGoto, listVars, old, pc
  <2>2. Woken' = Woken /\ Waiting' = Waiting - 1 /\ Leaving' = Leaving
    BY <1>2, <1>7, <2>1
  <2>3. QED BY <1>1, <1>2, <1>3, <1>7, <2>1, <2>2 DEF CountsInv
<1>15. CASE WorkerUnlink(t)
  <2>1. old = "take" /\ pc = "run" /\ UNCHANGED <<idleThreadNum, sem>>
    BY <1>1, <1>15 DEF TypeOK, WorkerUnlink, TakeJob, WorkerGoto, old, pc
  <2>2. Woken' = Woken - 1 /\ Waiting' = Waiting /\ Leaving' = Leaving
    BY <1>2, <1>7, <2>1
  <2>3. ~Exited => Len(jobList') = jobs - 1
    <3>1. ~Exited => jobList # <<>> /\ jobList' = Front(jobList)
      BY <1>1, <1>15, LockHoldsUntilExit, UnlinkTail DEF JobsInv
    <3>2. QED BY <1>1, <3>1, FrontLast
  <2>4. QED BY <1>1, <1>2, <1>3, <1>7, <2>1, <2>2, <2>3 DEF CountsInv
<1>16. CASE UseAfterFree
  <2>1. UNCHANGED <<workerPc, jobList, sem, idleThreadNum>>
    BY <1>16 DEF UseAfterFree, listVars, countVars, workerVars
  <2>2. Woken' = Woken /\ Waiting' = Waiting /\ Leaving' = Leaving
    BY <2>1 DEF Woken, Waiting, Leaving, WorkersAt
  <2>3. QED BY <1>7, <2>1, <2>2 DEF CountsInv
<1>17. QED
  BY <1>8, <1>9, <1>10, <1>11, <1>12, <1>13, <1>14, <1>15, <1>16
  DEF Worker, WorkerFindFreed, WorkerUnlinkFreed, WorkerRunFreed
-------------------------------------------------------------------------------
LEMMA CallerCounted ==
  ASSUME JobsInv, CountsInv, NEW c \in Callers, CallerStep(c) \/ CallerChoice(c)
  PROVE  CountsInv'
<1> DEFINE old == callerPc[c]
           pc == callerPc'[c]
           jobs == Len(jobList)
           C == Cardinality(Created)
<1>1. /\ TypeOK /\ sem \in Nat /\ idleThreadNum \in Int /\ maxThreadNum \in Nat /\ idx \in Int
      /\ exitNum \in Int /\ jobList \in Seq(Jobs) /\ jobs \in Nat /\ createFails \in Nat /\ deinits \in Nat
      /\ DOMAIN callerPc = Callers
  BY LenProperties DEF JobsInv, Owned, Control, TypeOK
<1>2. /\ Woken \in Nat /\ Waiting \in Nat /\ Leaving \in Nat /\ C \in Nat
      /\ Leaving <= C /\ (C = 0 => Woken = 0 /\ Waiting = 0 /\ Leaving = 0)
  BY <1>1, Counted, NoneCounted
\* c is the only caller inside a function, so that its place tells what is due.
<1>3. callerPc' = [callerPc EXCEPT ![c] = pc]
  <2>1. \E q : callerPc' = [callerPc EXCEPT ![c] = q]
    <3>1. callerPc = [callerPc EXCEPT ![c] = callerPc[c]]
      BY <1>1 DEF TypeOK
    <3>2. CASE CallerStep(c)
      BY <3>1, <3>2 DEF CallerStep, CallerGoto, InitCreate, InitDone, AddLock, AddFindHead, AddLink,
        AddLinkFreed, AddPost, ExitPost, ExitJoin, ExitNext, ExitJoinCrash, ExitDestroy, DeinitReset,
        DeinitFree, DeinitFreeFreed, DeinitDone, UseAfterFree
    <3>3. CASE CallerChoice(c)
      BY <3>1, <3>3 DEF CallerChoice, CallerGoto, InitEnter, InitResourceFails, InitCreateFails, ExitBegin,
        AddEnter, DeinitEnter, DeinitWith
    <3>4. QED BY <3>2, <3>3
  <2>2. PICK q : callerPc' = [callerPc EXCEPT ![c] = q]
    BY <2>1
  <2>3. q = pc
    BY <1>1, <2>2
  <2>4. QED BY <2>2, <2>3
<1> HIDE DEF pc
<1>4. /\ CallerAt({"create"}) <=> old = "create"
      /\ CallerAt({"post"}) <=> old = "post"
      /\ CallerAt({"exit_post"}) <=> old = "exit_post"
      /\ CallerAt({"exit_join"}) <=> old = "exit_join"
      /\ CallerAt({"create"})' <=> pc = "create"
      /\ CallerAt({"post"})' <=> pc = "post"
      /\ CallerAt({"exit_post"})' <=> pc = "exit_post"
      /\ CallerAt({"exit_join"})' <=> pc = "exit_join"
  <2>1. \A d \in Callers : d # c => callerPc[d] = "out"
    BY <1>1, OneCaller DEF JobsInv, Owned, Control
  <2>2. \A pcs : "out" \notin pcs =>
          (CallerAt(pcs) <=> old \in pcs) /\ (CallerAt(pcs)' <=> pc \in pcs)
    BY <1>1, <1>3, <2>1, CallerMoves
  <2> HIDE DEF old
  <2>3. QED BY <2>2
<1>5. /\ Post = IF old = "post" THEN 1 ELSE 0
      /\ PostsOwed = IF old = "exit_post" THEN exitNum - idx
                     ELSE IF old = "exit_join" THEN exitNum - idx - 1 ELSE 0
      /\ Post' = IF pc = "post" THEN 1 ELSE 0
      /\ PostsOwed' = IF pc = "exit_post" THEN exitNum' - idx'
                      ELSE IF pc = "exit_join" THEN exitNum' - idx' - 1 ELSE 0
  BY <1>4 DEF Post, PostsOwed
<1>6. ~Exited => IF old = "create" THEN C = idx /\ idx <= maxThreadNum
                 ELSE C <= IF isInit THEN maxThreadNum ELSE 0
  BY <1>4 DEF CountsInv, CreatedCounted
<1> DEFINE Kept ==
             /\ ~Exited' => IF pc = "create" THEN C' = idx' /\ idx' <= maxThreadNum'
                            ELSE C' <= IF isInit' THEN maxThreadNum' ELSE 0
             /\ ~Exited' => sem' + Woken' + Post' = Len(jobList')
             /\ ~Exited' => Waiting' <= idleThreadNum' /\ idleThreadNum' <= maxThreadNum'
             /\ ~isRunning' /\ createFails' = 0 => Leaving' <= sem' + PostsOwed'
<1>7. SUFFICES Kept
  BY <1>4 DEF CountsInv, CreatedCounted
<1>8. UNCHANGED workerPc => UNCHANGED <<Woken, Waiting, Leaving, C>>
  BY DEF Woken, Waiting, Leaving, WorkersAt, Created
<1> HIDE DEF C
\* Init.
<1>9. ASSUME NEW n \in 0 .. ThreadPoolNumMax, InitEnter(c, n) \/ InitResourceFails(c, n)
      PROVE  Kept
  <2>1. /\ old = "out" /\ ~isInit /\ jobList' = <<>> /\ isRunning' /\ ~isInit'
        /\ maxThreadNum' = n /\ idleThreadNum' = n /\ UNCHANGED <<workerPc, createFails, deinits>>
        /\ \/ pc = "create" /\ sem' = 0 /\ idx' = 0
           \/ pc = "out" /\ UNCHANGED sem
    BY <1>1, <1>9 DEF InitEnter, InitResourceFails, SetUp, workerVars, historyVars, loopVars, CallerGoto, pc
  <2>2. n \in Nat /\ Len(jobList') = 0
    BY <2>1, ConstantsAssumption
  <2>3. ~Exited => jobs = 0
    <3>1. ~Exited => jobList = <<>>
      BY <1>1, <2>1, LockHoldsUntilExit DEF JobsInv, Places
    <3>2. QED BY <3>1
  <2>4. Exited' = Exited
    BY <2>1 DEF Exited
  <2>5. ~Exited => C = 0 /\ Woken = 0 /\ Waiting = 0 /\ sem' = 0
    BY <1>1, <1>2, <1>5, <1>6, <2>1, <2>3 DEF CountsInv
  <2>6. QED BY <1>2, <1>5, <1>8, <2>1, <2>2, <2>4, <2>5
<1>10. CASE InitCreate(c)
  <2>1. /\ old = "create" /\ pc = "create" /\ idx < maxThreadNum /\ idx' = idx + 1
        /\ UNCHANGED <<isInit, isRunning, maxThreadNum, sem, jobList, idleThreadNum, exitNum, createFails, deinits>>
    BY <1>10 DEF InitCreate, listVars, countVars, historyVars, pc
  <2>2. PICK t \in Threads : workerPc[t] = "none" /\ workerPc' = [workerPc EXCEPT ![t] = "check"]
    BY <1>10 DEF InitCreate, Created, WorkerGoto
  <2>3. Woken' = Woken /\ Waiting' = Waiting /\ Leaving' = Leaving /\ C' = C + 1
    <3> DEFINE from == workerPc[t]
               to == "check"
    <3>1. /\ Woken' = Woken - (IF from \in {"lock_pop", "pop", "take"} THEN 1 ELSE 0)
                            + (IF to \in {"lock_pop", "pop", "take"} THEN 1 ELSE 0)
          /\ Waiting' = Waiting - (IF from \in {"wait", "lock_pop", "pop"} THEN 1 ELSE 0)
                                + (IF to \in {"wait", "lock_pop", "pop"} THEN 1 ELSE 0)
          /\ Leaving' = Leaving - (IF from \in {"lock_idle", "idle", "wait"} THEN 1 ELSE 0)
                                + (IF to \in {"lock_idle", "idle", "wait"} THEN 1 ELSE 0)
          /\ from = "none" /\ to # "none" => C' = C + 1
      BY <1>1, <2>2, WorkerCounts, Zenon DEF C
    <3> HIDE DEF from
    <3>2. from = "none"
      BY <2>2 DEF from
    <3>3. QED BY <1>2, <3>1, <3>2
  <2>4. Exited' = Exited
    BY <2>1 DEF Exited
  <2>5. QED BY <1>1, <1>2, <1>5, <1>6, <2>1, <2>3, <2>4 DEF CountsInv
<1>11. CASE InitDone(c)
  <2>1. /\ old = "create" /\ pc = "out" /\ idx = maxThreadNum /\ isInit'
        /\ UNCHANGED <<isRunning, maxThreadNum, sem, jobList, idleThreadNum, createFails, deinits, workerPc>>
    BY <1>1, <1>11 DEF InitDone, listVars, countVars, historyVars, workerVars, CallerGoto, pc
  <2>2. Exited' = Exited
    BY <2>1 DEF Exited
  <2>3. QED BY <1>1, <1>2, <1>5, <1>6, <1>8, <2>1, <2>2 DEF CountsInv
<1>12. CASE InitCreateFails(c)
  <2>1. createFails' = createFails + 1 /\ UNCHANGED deinits
    BY <1>12 DEF InitCreateFails
  <2>2. Exited' /\ createFails' # 0
    BY <1>1, <2>1 DEF Exited
  <2>3. QED BY <2>2
\* AddJob.
<1>13. CASE AddEnter(c) \/ AddLock(c) \/ AddFindHead(c)
  <2>1. /\ old \in {"out", "lock_add", "add"} /\ pc \in {"lock_add", "add", "link"}
        /\ UNCHANGED <<isInit, isRunning, maxThreadNum, sem, jobList, idleThreadNum, createFails, deinits, workerPc>>
    BY <1>1, <1>13 DEF AddEnter, AddLock, AddFindHead, poolVars, listVars, countVars, historyVars, workerVars, CallerGoto, pc
  <2>2. Exited' = Exited
    BY <2>1 DEF Exited
  <2>3. QED BY <1>1, <1>2, <1>5, <1>6, <1>8, <2>1, <2>2 DEF CountsInv
<1>14. ASSUME NEW j \in Jobs, AddLink(c, j) PROVE Kept
  <2>1. /\ old = "link" /\ pc = "post" /\ jobList' = <<j>> \o jobList
        /\ UNCHANGED <<isInit, isRunning, maxThreadNum, sem, idleThreadNum, createFails, deinits, workerPc>>
    BY <1>1, <1>14 DEF AddLink, poolVars, workerVars, CallerGoto, pc
  <2>2. Len(jobList') = jobs + 1
    BY <1>1, <2>1, ConcatProperties
  <2>3. Exited' = Exited
    BY <2>1 DEF Exited
  <2>4. Post' = Post + 1 /\ Post \in Nat /\ PostsOwed' = PostsOwed
    BY <1>5, <2>1
  <2>5. UNCHANGED <<sem, Woken, Waiting, Leaving, C, isInit, isRunning, maxThreadNum, idleThreadNum, createFails>>
    BY <1>8, <2>1
  <2> HIDE DEF jobs
  <2>6. ~Exited => sem' + Woken' + Post' = Len(jobList')
    <3>1. ~Exited => sem + Woken + Post = jobs
      BY DEF CountsInv, jobs
    <3>2. QED BY <1>1, <1>2, <2>2, <2>4, <2>5, <3>1
  <2>7. old = "link" /\ pc = "post"
    BY <2>1
  <2>8. QED BY <1>6, <2>3, <2>4, <2>5, <2>6, <2>7 DEF CountsInv
<1>15. CASE AddPost(c)
  <2>1. /\ old = "post" /\ pc = "out" /\ sem' = sem + 1
        /\ UNCHANGED <<isInit, isRunning, maxThreadNum, jobList, idleThreadNum, createFails, deinits, workerPc>>
    BY <1>1, <1>15 DEF AddPost, poolVars, listVars, countVars, historyVars, workerVars, CallerGoto, pc
  <2>2. Exited' = Exited
    BY <2>1 DEF Exited
  <2>3. QED BY <1>1, <1>2, <1>5, <1>6, <1>8, <2>1, <2>2 DEF CountsInv
\* Deinit and the exit handler: a first Deinit posts for every thread there is,
\* a second one finds isRunning down and the posts made.
<1>16. CASE DeinitEnter(c)
  <2>1. /\ old = "out" /\ isInit /\ deinits' = deinits + 1
        /\ pc = (IF maxThreadNum = 0 THEN "exit_destroy" ELSE "exit_post")
        /\ exitNum' = maxThreadNum /\ idx' = 0
        /\ UNCHANGED <<sem, createFails, workerPc>>
    BY <1>1, <1>16 DEF DeinitEnter, DeinitWith, ExitBegin, workerVars, CallerGoto, pc
  <2>2. Exited' /\ (~Exited <=> deinits = 0 /\ createFails = 0)
    BY <1>1, <2>1 DEF Exited
  <2>3. PostsOwed' = maxThreadNum /\ PostsOwed = 0
    BY <1>1, <1>5, <2>1
  <2>4. ASSUME createFails = 0 PROVE Leaving <= sem + maxThreadNum
    <3>1. CASE deinits = 0
      BY <1>1, <1>2, <1>6, <2>1, <2>2, <2>4, <3>1
    <3>2. CASE deinits # 0
      <4>1. ~isRunning
        BY <1>1, <3>2 DEF JobsInv, Owned, Control, DeinitLast
      <4>2. QED BY <1>1, <1>2, <2>3, <2>4, <4>1 DEF CountsInv
    <3>3. QED BY <3>1, <3>2
  <2>5. QED BY <1>8, <2>1, <2>2, <2>3, <2>4
<1>17. CASE ExitPost(c) \/ ExitJoin(c)
  <2>1. /\ \/ /\ old = "exit_post" /\ pc = "exit_join"
              /\ sem' = sem + 1 /\ UNCHANGED <<idx, exitNum>>
           \/ /\ old = "exit_join" /\ pc = (IF idx + 1 = exitNum THEN "exit_destroy" ELSE "exit_post")
              /\ idx' = idx + 1 /\ UNCHANGED <<sem, exitNum>>
        /\ UNCHANGED <<isRunning, createFails, deinits, workerPc>>
    BY <1>1, <1>17 DEF ExitPost, ExitJoin, ExitNext, poolVars, workerVars, loopVars, historyVars, CallerGoto, pc
  <2>2. Exited /\ Exited' = Exited
    BY <2>1 DEF Exited, JobsInv, Owned, Control, ExitBegun
  <2>3. sem' + PostsOwed' = sem + PostsOwed
    BY <1>1, <1>5, <2>1
  <2>4. QED BY <1>8, <2>1, <2>2, <2>3 DEF CountsInv
<1>18. CASE ExitJoinCrash(c)
  <2>1. old = "exit_join" /\ pc = old /\ UNCHANGED <<isRunning, createFails, deinits, workerPc, sem, idx, exitNum>>
    BY <1>18 DEF ExitJoinCrash, poolVars, workerVars, loopVars, pc
  <2>2. Exited /\ Exited' = Exited
    BY <2>1 DEF Exited, JobsInv, Owned, Control, ExitBegun
  <2>3. QED BY <1>5, <1>8, <2>1, <2>2 DEF CountsInv
<1>19. CASE ExitDestroy(c) \/ DeinitReset(c) \/ DeinitFree(c) \/ DeinitDone(c)
  <2>1. /\ old \in {"exit_destroy", "reset", "free"} /\ pc \in {"out", "reset", "free"}
        /\ UNCHANGED <<isRunning, createFails, deinits, workerPc, sem>>
    BY <1>1, <1>19 DEF ExitDestroy, DeinitReset, DeinitFree, DeinitDone, poolVars, workerVars,
      historyVars, CallerGoto, pc
  <2>2. Exited /\ Exited' = Exited
    BY <2>1 DEF Exited, JobsInv, Owned, Control, ExitBegun
  <2>3. QED BY <1>5, <1>8, <2>1, <2>2 DEF CountsInv
<1>20. CASE UseAfterFree
  <2>1. /\ pc = old
        /\ UNCHANGED <<isInit, isRunning, maxThreadNum, sem, jobList, idleThreadNum, idx, exitNum, createFails,
                       deinits, workerPc>>
    BY <1>20 DEF UseAfterFree, poolVars, listVars, countVars, workerVars, loopVars, pc
  <2>2. Exited' = Exited
    BY <2>1 DEF Exited
  <2>3. QED BY <1>4, <1>5, <1>6, <1>8, <2>1, <2>2 DEF CountsInv
<1>21. QED
  BY <1>9, <1>10, <1>11, <1>12, <1>13, <1>14, <1>15, <1>16, <1>17, <1>18, <1>19, <1>20
  DEF CallerStep, CallerChoice, AddLinkFreed, DeinitFreeFreed

LEMMA CountsInit == Init => CountsInv
<1> SUFFICES ASSUME Init PROVE CountsInv
  OBVIOUS
<1>1. TypeOK
  BY TypeInit
<1>2. Created = {}
  BY DEF Init, Created
<1>3. Cardinality(Created) = 0 /\ Woken = 0 /\ Waiting = 0 /\ Leaving = 0
  BY <1>1, <1>2, FS_EmptySet, NoneCounted
<1>4. \A pcs : "out" \notin pcs => ~CallerAt(pcs)
  BY DEF Init, CallerAt
<1>5. Post = 0 /\ PostsOwed = 0 /\ ~CallerAt({"create"})
  BY <1>4 DEF Post, PostsOwed
<1>6. sem = 0 /\ Len(jobList) = 0 /\ idleThreadNum = 0 /\ maxThreadNum = 0 /\ ~isInit
  BY DEF Init
<1>7. QED BY <1>3, <1>5, <1>6 DEF CountsInv, CreatedCounted

LEMMA CountsStep == JobsInv /\ CountsInv /\ [Next]_vars => CountsInv'
<1> SUFFICES ASSUME JobsInv, CountsInv, [Next]_vars PROVE CountsInv'
  OBVIOUS
<1>1. CASE UNCHANGED vars
  BY <1>1 DEF vars, poolVars, countVars, listVars, workerVars, loopVars, historyVars, CountsInv, CreatedCounted,
    Exited, CallerAt, Created, Woken, Waiting, Leaving, WorkersAt, Post, PostsOwed
<1>2. QED BY <1>1, WorkerCounted, CallerCounted DEF Next, Rest

LEMMA CountsInvariant == Spec => [](JobsInv /\ CountsInv)
<1>1. JobsInv /\ [Next]_vars => JobsInv'
  BY JobsStep
<1>2. QED BY <1>1, JobsInit, CountsInit, CountsStep, PTL DEF Spec

\* Until the pool is told to exit, the semaphore's value, the workers it has let
\* through and the post still to come add up to the length of the list: none is
\* lost and none is spurious (thread_pool.c:63-73 and 185-190).
THEOREM TokensMatchJobsAlways == Spec => []TokensMatchJobs
<1>1. CountsInv => TokensMatchJobs
  BY DEF CountsInv, TokensMatchJobs, Woken, Post
<1>2. QED BY <1>1, CountsInvariant, PTL

\* Until the pool is told to exit, idleThreadNum is no less than the number of
\* threads that wait, and no more than the pool has (thread_pool.c:58-66, 105).
THEOREM IdleCoversWaitingAlways == Spec => []IdleCoversWaiting
<1>1. CountsInv => IdleCoversWaiting
  BY DEF CountsInv, IdleCoversWaiting, Waiting
<1>2. QED BY <1>1, CountsInvariant, PTL

\* Once isRunning is down, each worker that may still block in sem_wait has a
\* token or one that ThreadPoolExitHandle is about to post, whatever jobs are
\* left and however often Deinit is called (thread_pool.c:35-46 and 56-63).
THEOREM ExitTokensSufficeAlways == Spec => []ExitTokensSuffice
<1>1. CountsInv => ExitTokensSuffice
  BY DEF CountsInv, ExitTokensSuffice, Leaving
<1>2. QED BY <1>1, CountsInvariant, PTL
===============================================================================
