------------------------------ MODULE TimerProofs ------------------------------
(***************************************************************************)
(* Proofs about Timer, for all values of its constants: the table owns the *)
(* timers, none is lost, and a callback runs for its own.                  *)
(***************************************************************************)
EXTENDS Timer, DataLemmas

(***************************************************************************)
(* The invariants the theorems rest on.                                    *)
(***************************************************************************)
InitStages == {"init_epoll", "init_heartbeat", "init_thread"}
DeleteStages == {"delete_check", "delete"}

\* Init and Deinit hold g_initMutex, and the handler runs between them.
Mutexed ==
  /\ \A p \in Threads : /\ callPc[p] \in InitStages => initMutex = p /\ ~isInit
                        /\ callPc[p] = "join" => initMutex = p /\ isInit
  /\ ~isInit => handlerPc = "none"
  /\ isInit \/ InCall({"init_heartbeat", "init_thread"}) => epollOpen

\* There are slots to look at while the module is initialised.
TableSized == (maxEventNum = 0) <=> ~isInit /\ ~InCall(InitStages)

\* What is in the table before, during and after the module is initialised.
Staged ==
  /\ \A i \in Slots : table[i].fd # None => i < maxEventNum
  /\ InCall(InitStages) => ~InCall({"add", "added"} \cup DeleteStages)
  /\ ~isInit => handles = {} /\ \A i \in Slots \ {0} : table[i].fd = None
  /\ InCall({"init_epoll", "init_heartbeat"}) => table[0].fd = None
  /\ isInit \/ InCall({"init_thread"}) => table[0].fd # None /\ table[0].cb = Heartbeat

\* A slot in use names an open timer, and no other slot does.
Owned == \A i \in Slots : table[i].fd # None =>
  /\ fdCb[table[i].fd] = table[i].cb /\ fdCb[table[i].fd] # None
  /\ table[i].fd \in watched
  /\ \A j \in Slots : table[j].fd = table[i].fd => j = i

\* Somebody's timer: it has a slot other than the heartbeat's.
InTable(f) == \E i \in Slots \ {0} : table[i].fd = f

\* The descriptors of the calls and those handed out do not overlap.
Added(p) ==
  /\ callFd[p] \in Fds \ handles /\ fdCb[callFd[p]] # None
  /\ IF callIdx[p] = maxEventNum THEN \A i \in Slots : table[i].fd # callFd[p]
     ELSE isInit /\ InTable(callFd[p])

Deleting(p) == callPc[p] \in DeleteStages /\ isInit

CallsApart ==
  /\ \A f \in handles : InTable(f)
  /\ \A p \in Threads :
       /\ callPc[p] = "added" => Added(p)
       /\ Deleting(p) => callFd[p] \notin handles /\ InTable(callFd[p])
  /\ \A p, q \in Threads :
       /\ callPc[p] = "added" \/ Deleting(p)
       /\ callPc[q] = "added" \/ Deleting(q)
       /\ callFd[p] = callFd[q]
       => p = q

\* An open timer is in the table, or of an AddTimerEvent that is to return.
NoneLost == \A f \in Fds : fdCb[f] # None =>
  \/ \E i \in Slots : table[i].fd = f
  \/ \E p \in Threads : callPc[p] = "added" /\ callFd[p] = f

\* All this as long as no Deinit or Init got in the middle of a call.
TimersKept == ~straddled => Staged /\ Owned /\ CallsApart /\ NoneLost

\* A callback is added once, and its timer deleted once.
CallbacksOnce ==
  /\ deleted \subseteq used
  /\ \A i \in Slots : table[i].cb \in Callbacks => table[i].cb \in used \ deleted
  /\ \A i, j \in Slots : table[i].cb \in Callbacks /\ table[i].cb = table[j].cb => i = j
  /\ \A i \in Slots \ {0} : table[i].cb # Heartbeat
  /\ \A p \in Threads : callPc[p] \in {"add_check", "add"} =>
       /\ callCb[p] \in used \ deleted /\ \A i \in Slots : table[i].cb # callCb[p]
       /\ \A q \in Threads : callPc[q] \in {"add_check", "add"} /\ callCb[q] = callCb[p] => q = p

\* Nothing is watched that is not open.
WatchedOpen == \A f \in watched : fdCb[f] # None

\* The handler's copy holds nothing that had been deleted when it was taken.
CopyKept ==
  handlerPc \in {"read", "callback"} =>
    /\ \A i \in Slots : copy[i].fd # None => copy[i].cb \notin stale
    /\ handlerPc = "callback" => calling.fd # None /\ \E i \in Slots : calling = copy[i]

\* What epoll_wait returned and is neither closed nor set anew is still there,
\* the copy has its callback, and the one that runs got its expiry.
RoundKept ==
  /\ handlerPc \in {"copy", "read", "callback"} => events \ touched \subseteq ready \cap watched
  /\ ~straddled /\ handlerPc \in {"read", "callback"} =>
       \A i \in Slots : copy[i].fd \in events \ touched => fdCb[copy[i].fd] = copy[i].cb
  /\ ~straddled /\ handlerPc = "callback" /\ calling.fd \notin touched =>
       calling.fd \in watched /\ taken = calling.cb /\ fdCb[calling.fd] = calling.cb
-------------------------------------------------------------------------------
(***************************************************************************)
(* Every action opened at once, and what the bigger ones do.               *)
(***************************************************************************)
LEMMA NextCases ==
  ASSUME Next
  PROVE  \/ Tick \/ HandlerCheck \/ HandlerWait \/ HandlerWaitFails \/ HandlerCopy \/ HandlerReturn
         \/ \E f \in Fds : Expire(f) \/ HandlerRead(f)
         \/ \E p \in Threads :
              \/ InitEpoll(p) \/ InitHeartbeat(p) \/ InitDone(p) \/ InitFails(p) \/ DeinitJoined(p)
              \/ InitCheck(p) \/ AddInsert(p) \/ AddFails(p) \/ AddReturn(p) \/ Delete(p)
              \/ InitInvalid(p) \/ DeinitBegin(p)
              \/ \E n \in 1 .. EventNumMax : InitBegin(p, n)
              \/ \E cb \in Callbacks : AddBegin(p, cb)
              \/ \E f \in Fds : DeleteBegin(p, f)
              \/ \E f \in Fds, t \in StartTimes, period \in BOOLEAN : Set(p, f, t, period)
BY DEF Next, HandlerStep, CallStep, CallBegin

LEMMA Constants ==
  /\ 0 \in Slots /\ NoEvent \in Entry /\ NoEvent.fd = None /\ NoEvent.cb = None
  /\ EmptyTable \in [Slots -> Entry] /\ \A i \in Slots : EmptyTable[i] = NoEvent
  /\ \A f \in Fds : f # None
  /\ \A p \in Threads : p # None
  /\ \A cb \in Callbacks : cb # None /\ cb # Heartbeat
  /\ Heartbeat # None
  /\ Max(StartTimes) \in StartTimes /\ \A t \in StartTimes : t \in Nat
<1>1. NoEvent \in Entry /\ NoEvent.fd = None /\ NoEvent.cb = None
  BY DEF NoEvent, Entry
<1>2. 0 \in Slots
  BY ConstantsAssumption DEF Slots
<1>3. EmptyTable \in [Slots -> Entry] /\ \A i \in Slots : EmptyTable[i] = NoEvent
  BY <1>1 DEF EmptyTable
<1>4. Max(StartTimes) \in StartTimes
  BY ConstantsAssumption, MaxOf
<1>5. QED BY <1>1, <1>2, <1>3, <1>4, ConstantsAssumption DEF Fds, Threads

LEMMA SlotFound ==
  ASSUME NEW t, NEW f
  PROVE  /\ \A i \in SlotOf(t, f) : /\ i \in Slots /\ i < maxEventNum /\ t[i].fd = f
                                    /\ \A j \in SlotOf(t, f) : j = i
         /\ SlotOf(t, f) # {} => Min(SlotOf(t, f)) \in SlotOf(t, f)
         /\ \A i \in Slots : i < maxEventNum /\ t[i].fd = f => SlotOf(t, f) # {}
<1>1. SlotOf(t, f) \in SUBSET Nat
  BY ConstantsAssumption DEF SlotOf, UsedSlots, Slots
<1>2. SlotOf(t, f) # {} => Min(SlotOf(t, f)) \in SlotOf(t, f)
  BY <1>1, MinOf
<1>3. \A i \in SlotOf(t, f) : /\ i \in Slots /\ i < maxEventNum /\ t[i].fd = f
                              /\ \A j \in SlotOf(t, f) : j = i
  BY <1>1 DEF SlotOf, UsedSlots
<1>4. ASSUME NEW i \in Slots, i < maxEventNum, t[i].fd = f PROVE SlotOf(t, f) # {}
  <2> DEFINE S == {j \in UsedSlots : t[j].fd = f}
  <2>1. S \in SUBSET Nat /\ S # {}
    BY <1>4, ConstantsAssumption DEF UsedSlots, Slots
  <2> HIDE DEF S
  <2>2. PICK m \in S : \A n \in S : m <= n
    BY <2>1, LeastNatural
  <2>3. m \in SlotOf(t, f)
    BY <2>2 DEF S, SlotOf
  <2>4. QED BY <2>3
<1>5. QED BY <1>2, <1>3, <1>4

\* What AddTimerEvent's critical section does.
LEMMA Inserted ==
  ASSUME NEW p \in Threads, AddInsert(p)
  PROVE  /\ callPc[p] = "add" /\ callPc' = [callPc EXCEPT ![p] = "added"]
         /\ UNCHANGED <<isInit, initMutex, isRunning, maxEventNum, epollOpen, due, periodic, ready,
                        touched, now, handlerVars, callCb, handles, used, historyVars>>
         /\ \E f \in Fds :
              /\ fdCb[f] = None /\ fdCb' = [fdCb EXCEPT ![f] = callCb[p]]
              /\ callFd' = [callFd EXCEPT ![p] = f]
              /\ \/ /\ \A i \in Slots : i < maxEventNum => table[i].fd # None
                    /\ callIdx' = [callIdx EXCEPT ![p] = maxEventNum] /\ UNCHANGED <<table, watched>>
                 \/ \E s \in Slots :
                      /\ s < maxEventNum /\ table[s].fd = None
                      /\ callIdx' = [callIdx EXCEPT ![p] = s]
                      /\ table' = [table EXCEPT ![s] = [fd |-> f, cb |-> callCb[p]]]
                      /\ watched' = IF epollOpen THEN watched \cup {f} ELSE watched
<1>1. PICK f \in Fds : /\ CreateTimer(f, callCb[p]) /\ callFd' = [callFd EXCEPT ![p] = f]
                       /\ IF SlotOf(table, None) = {}
                          THEN /\ callIdx' = [callIdx EXCEPT ![p] = maxEventNum]
                               /\ UNCHANGED <<table, watched>>
                          ELSE LET s == Min(SlotOf(table, None)) IN
                               /\ callIdx' = [callIdx EXCEPT ![p] = s]
                               /\ table' = [table EXCEPT ![s] = [fd |-> f, cb |-> callCb[p]]]
                               /\ watched' = IF epollOpen THEN watched \cup {f} ELSE watched
  BY DEF AddInsert
<1>2. fdCb[f] = None /\ fdCb' = [fdCb EXCEPT ![f] = callCb[p]]
  <2>1. FreeFds \in SUBSET Nat
    BY DEF FreeFds, Fds
  <2>2. f \in FreeFds
    BY <1>1, <2>1, MinOf DEF CreateTimer
  <2>3. QED BY <1>1, <2>2 DEF CreateTimer, FreeFds
<1>3. CASE SlotOf(table, None) = {}
  BY <1>1, <1>2, <1>3, SlotFound DEF AddInsert, Goto
<1>4. CASE SlotOf(table, None) # {}
  <2>1. PICK s \in Slots : s = Min(SlotOf(table, None)) /\ s < maxEventNum /\ table[s].fd = None
    BY <1>4, SlotFound
  <2>2. QED BY <1>1, <1>2, <1>4, <2>1 DEF AddInsert, Goto
<1>5. QED BY <1>3, <1>4

\* What DeleteTimerEvent's does.
LEMMA Deleted ==
  ASSUME NEW p \in Threads, Delete(p)
  PROVE  /\ callPc[p] = "delete" /\ Return(p)
         /\ UNCHANGED <<isInit, initMutex, isRunning, maxEventNum, epollOpen, now, handlerVars,
                        handles, used, straddled, inits>>
         /\ \/ /\ \A i \in Slots : i < maxEventNum => table[i].fd # callFd[p]
               /\ UNCHANGED <<table, kernelVars, deleted>>
            \/ \E s \in Slots :
                 /\ s < maxEventNum /\ table[s].fd = callFd[p]
                 /\ table' = [i \in Slots |-> IF i = s THEN NoEvent ELSE table[i]]
                 /\ deleted' = deleted \cup ({table[s].cb} \cap Callbacks)
                 /\ CloseTimers({callFd[p]})
<1>1. CASE SlotOf(table, callFd[p]) = {}
  BY <1>1, SlotFound DEF Delete, DeleteTimer, kernelVars
<1>2. CASE SlotOf(table, callFd[p]) # {}
  <2>1. PICK s \in Slots : /\ s < maxEventNum /\ table[s].fd = callFd[p]
                           /\ SlotOf(table, callFd[p]) = {s}
    BY <1>2, SlotFound
  <2>2. /\ table' = [i \in Slots |-> IF i = s THEN NoEvent ELSE table[i]]
        /\ deleted' = deleted \cup ({table[s].cb} \cap Callbacks)
        /\ CloseTimers({callFd[p]}) /\ UNCHANGED epollOpen
    BY <1>2, <2>1 DEF Delete, DeleteTimer
  <2>3. QED BY <2>1, <2>2 DEF Delete, DeleteTimer
<1>3. QED BY <1>1, <1>2

LEMMA HeartbeatAdded ==
  ASSUME NEW p \in Threads, InitHeartbeat(p)
  PROVE  \E f \in Fds : /\ fdCb[f] = None /\ fdCb' = [fdCb EXCEPT ![f] = Heartbeat]
                        /\ table' = [table EXCEPT ![0] = [fd |-> f, cb |-> Heartbeat]]
                        /\ watched' = watched \cup {f}
<1>1. PICK f \in Fds : /\ CreateTimer(f, Heartbeat)
                       /\ table' = [table EXCEPT ![0] = [fd |-> f, cb |-> Heartbeat]]
                       /\ watched' = watched \cup {f}
  BY DEF InitHeartbeat
<1>2. FreeFds \in SUBSET Nat
  BY DEF FreeFds, Fds
<1>3. f \in FreeFds
  BY <1>1, <1>2, MinOf DEF CreateTimer
<1>4. QED BY <1>1, <1>3 DEF CreateTimer, FreeFds
-------------------------------------------------------------------------------
(***************************************************************************)
(* Types.                                                                  *)
(***************************************************************************)
ControlTypes ==
  /\ isInit \in BOOLEAN /\ isRunning \in BOOLEAN /\ epollOpen \in BOOLEAN
  /\ initMutex \in Callers \cup {None}
  /\ maxEventNum \in 0 .. EventNumMax + 1
  /\ now \in 1 .. MaxNow
  /\ handlerPc \in {"none", "check", "wait", "copy", "read", "callback", "done"}
  /\ callPc \in [Threads -> {"out", "init_epoll", "init_heartbeat", "init_thread", "join",
                             "add_check", "add", "added", "delete_check", "delete"}]
  /\ straddled \in BOOLEAN /\ inits \in 0 .. MaxInits /\ faults \in 0 .. MaxFaults

KernelTypes ==
  /\ fdCb \in [Fds -> Callbacks \cup {Heartbeat, None}]
  /\ watched \subseteq Fds /\ ready \subseteq Fds /\ periodic \subseteq Fds
  /\ touched \subseteq Fds
  /\ due \in [Fds -> Nat \cup {None}]

CallTypes ==
  /\ callCb \in [Threads -> Callbacks \cup {None}]
  /\ callFd \in [Threads -> Fds \cup {None}]
  /\ callIdx \in [Threads -> 0 .. EventNumMax + 1]
  /\ handles \subseteq Fds

TableTypes ==
  /\ table \in [Slots -> Entry] /\ copy \in [Slots -> Entry]
  /\ events \subseteq Fds /\ calling \in Entry /\ taken \in Callbacks \cup {Heartbeat, None}
  /\ used \subseteq Callbacks /\ deleted \subseteq Callbacks /\ stale \subseteq deleted

\* DeleteTimerEvent has a descriptor, and so has AddTimerEvent once it is out
\* of its critical section.
CallsHaveTimers == \A p \in Threads : callPc[p] \in {"added"} \cup DeleteStages => callFd[p] \in Fds

LEMMA TypesTogether == TypeOK <=> ControlTypes /\ KernelTypes /\ CallTypes /\ TableTypes
BY DEF TypeOK, ControlTypes, KernelTypes, CallTypes, TableTypes

LEMMA ControlTyped ==
  ASSUME TypeOK, Next \/ UNCHANGED vars
  PROVE  ControlTypes'
<1> USE ConstantsAssumption DEF TypeOK, ControlTypes, Goto, Return
<1>1. CASE UNCHANGED vars
  BY <1>1 DEF vars, tableVars, kernelVars, handlerVars, callVars, argVars, historyVars
<1>2. CASE Tick \/ \E f \in Fds : Expire(f)
  BY <1>2 DEF Tick, Expire, tableVars, kernelVars, handlerVars, callVars, argVars, historyVars
<1>3. CASE \/ HandlerCheck \/ HandlerWait \/ HandlerWaitFails \/ HandlerCopy \/ HandlerReturn
           \/ \E f \in Fds : HandlerRead(f)
  BY <1>3 DEF HandlerCheck, Loop, HandlerWait, HandlerWaitFails, HandlerCopy, HandlerReturn, NextEvent, HandlerRead,
    Dispatch, tableVars, kernelVars, callVars, argVars, historyVars
<1>4. ASSUME NEW p \in Threads,
             \/ InitEpoll(p) \/ InitHeartbeat(p) \/ InitDone(p) \/ InitFails(p) \/ DeinitJoined(p)
             \/ InitInvalid(p) \/ DeinitBegin(p)
             \/ \E n \in 1 .. EventNumMax : InitBegin(p, n)
      PROVE  ControlTypes'
  <2>1. CASE InitEpoll(p) \/ InitHeartbeat(p) \/ InitDone(p)
    BY <2>1 DEF InitEpoll, InitHeartbeat, InitDone, tableVars, handlerVars, historyVars
  <2>2. CASE InitFails(p)
    <3>1. /\ epollOpen' = FALSE /\ maxEventNum' = 0 /\ isInit' = FALSE /\ initMutex' = None
          /\ callPc' = [callPc EXCEPT ![p] = "out"]
          /\ UNCHANGED <<isRunning, now, handlerPc, straddled, inits, faults>>
      BY <2>2 DEF InitFails, DeinitCore, handlerVars, historyVars
    <3>2. isInit' \in BOOLEAN /\ isRunning' \in BOOLEAN /\ epollOpen' \in BOOLEAN
      BY <3>1
    <3>3. initMutex' \in Callers \cup {None}
      BY <3>1
    <3>4. maxEventNum' \in 0 .. EventNumMax + 1
      BY <3>1
    <3>5. QED BY <3>1, <3>2, <3>3, <3>4
  <2>3. CASE DeinitJoined(p)
    <3>1. /\ epollOpen' = FALSE /\ maxEventNum' = 0 /\ isInit' = FALSE /\ initMutex' = None
          /\ callPc' = [callPc EXCEPT ![p] = "out"] /\ handlerPc' = "none"
          /\ straddled' \in BOOLEAN /\ UNCHANGED <<isRunning, now, inits, faults>>
      BY <2>3 DEF DeinitJoined, DeinitCore, InCall
    <3>2. isInit' \in BOOLEAN /\ isRunning' \in BOOLEAN /\ epollOpen' \in BOOLEAN
      BY <3>1
    <3>3. initMutex' \in Callers \cup {None}
      BY <3>1
    <3>4. maxEventNum' \in 0 .. EventNumMax + 1
      BY <3>1
    <3>5. QED BY <3>1, <3>2, <3>3, <3>4
  <2>4. CASE InitInvalid(p)
    BY <2>4 DEF InitInvalid, kernelVars, handlerVars, callVars, historyVars
  <2>5. CASE DeinitBegin(p)
    BY <2>5 DEF DeinitBegin, tableVars, handlerVars, historyVars
  <2>6. ASSUME NEW n \in 1 .. EventNumMax, InitBegin(p, n) PROVE ControlTypes'
    BY <2>6 DEF InitBegin, InitData, kernelVars, handlerVars
  <2>7. QED BY <1>4, <2>1, <2>2, <2>3, <2>4, <2>5, <2>6
<1>5. ASSUME NEW p \in Threads,
             \/ InitCheck(p) \/ AddInsert(p) \/ AddFails(p) \/ AddReturn(p) \/ Delete(p)
             \/ \E cb \in Callbacks : AddBegin(p, cb)
             \/ \E f \in Fds : DeleteBegin(p, f)
             \/ \E f \in Fds, t \in StartTimes, period \in BOOLEAN : Set(p, f, t, period)
      PROVE  ControlTypes'
  <2>1. CASE InitCheck(p) \/ AddInsert(p) \/ AddFails(p)
    BY <2>1 DEF InitCheck, AddInsert, AddFails, tableVars, kernelVars, handlerVars, historyVars
  <2>2. CASE AddReturn(p) \/ Delete(p)
    BY <2>2 DEF AddReturn, Delete, DeleteTimer, tableVars, kernelVars, handlerVars, historyVars
  <2>3. CASE \/ \E cb \in Callbacks : AddBegin(p, cb)
             \/ \E f \in Fds : DeleteBegin(p, f)
             \/ \E f \in Fds, t \in StartTimes, period \in BOOLEAN : Set(p, f, t, period)
    BY <2>3 DEF AddBegin, DeleteBegin, Set, tableVars, kernelVars, handlerVars, callVars, historyVars
  <2>4. QED BY <1>5, <2>1, <2>2, <2>3
<1>6. QED BY <1>1, <1>2, <1>3, <1>4, <1>5, NextCases

LEMMA ClosedTypes ==
  ASSUME KernelTypes, NEW fds \in SUBSET Fds, CloseTimers(fds)
  PROVE  KernelTypes'
BY DEF KernelTypes, CloseTimers

LEMMA SetTypes ==
  ASSUME KernelTypes, NEW f \in Fds \cup {None}, NEW t \in StartTimes, NEW period \in BOOLEAN,
         SetTimer(f, t, period), UNCHANGED <<fdCb, watched>>
  PROVE  KernelTypes'
BY Constants DEF KernelTypes, SetTimer

LEMMA KernelTyped ==
  ASSUME TypeOK, CallsHaveTimers, Next \/ UNCHANGED vars
  PROVE  KernelTypes'
<1>1. KernelTypes
  BY TypesTogether
<1>2. CASE \/ UNCHANGED vars \/ Tick \/ HandlerCheck \/ HandlerWait \/ HandlerWaitFails \/ HandlerCopy
           \/ HandlerReturn
  BY <1>1, <1>2 DEF KernelTypes, vars, kernelVars, Tick, HandlerCheck, Loop, HandlerWait, HandlerWaitFails,
    HandlerCopy, HandlerReturn
<1>3. ASSUME NEW f \in Fds, Expire(f) PROVE KernelTypes'
  BY <1>3, ConstantsAssumption DEF TypeOK, KernelTypes, Expire
<1>4. CASE \E f \in Fds : HandlerRead(f)
  BY <1>1, <1>4 DEF KernelTypes, HandlerRead, Dispatch
<1>5. ASSUME NEW p \in Threads,
             \/ InitEpoll(p) \/ InitCheck(p) \/ AddFails(p) \/ InitInvalid(p)
             \/ \E n \in 1 .. EventNumMax : InitBegin(p, n)
             \/ \E cb \in Callbacks : AddBegin(p, cb)
             \/ \E f \in Fds : DeleteBegin(p, f)
      PROVE  KernelTypes'
  BY <1>1, <1>5 DEF KernelTypes, InitEpoll, InitCheck, AddFails, InitInvalid, InitBegin, InitData,
    AddBegin, DeleteBegin, kernelVars
<1>6. ASSUME NEW p \in Threads, InitHeartbeat(p) PROVE KernelTypes'
  BY <1>1, <1>6, HeartbeatAdded DEF KernelTypes, InitHeartbeat
<1>7. ASSUME NEW p \in Threads, AddInsert(p) PROVE KernelTypes'
  <2>1. PICK f \in Fds : /\ fdCb' = [fdCb EXCEPT ![f] = callCb[p]]
                         /\ watched' \in {watched, watched \cup {f}}
    BY <1>7, Inserted
  <2>2. callCb[p] \in Callbacks \cup {None}
    BY DEF TypeOK
  <2>3. QED BY <1>1, <1>7, <2>1, <2>2 DEF KernelTypes, AddInsert
<1>8. ASSUME NEW p \in Threads, InitDone(p) \/ DeinitBegin(p) PROVE KernelTypes'
  <2>1. table[0].fd \in Fds \cup {None}
    BY Constants DEF TypeOK, Entry
  <2>2. SetTimer(table[0].fd, Max(StartTimes), TRUE) /\ UNCHANGED <<fdCb, watched>>
    BY <1>8 DEF InitDone, DeinitBegin
  <2>3. QED BY <1>1, <2>1, <2>2, Constants, SetTypes
<1>9. ASSUME NEW p \in Threads, InitFails(p) \/ DeinitJoined(p) \/ AddReturn(p) \/ Delete(p)
      PROVE  KernelTypes'
  <2>1. TableFds \subseteq Fds /\ {table[0].fd} \ {None} \subseteq Fds
    BY Constants DEF TableFds, UsedSlots, TypeOK, Entry
  <2>2. CASE InitFails(p) \/ DeinitJoined(p)
    <3>1. PICK fds \in {{}, TableFds} : CloseTimers(fds \cup ({table[0].fd} \ {None}))
      BY <2>2 DEF InitFails, DeinitJoined, DeinitCore
    <3>2. QED BY <1>1, <2>1, <3>1, ClosedTypes
  <2>3. CASE AddReturn(p) \/ Delete(p)
    <3>1. callPc[p] \in {"added", "delete"}
      BY <2>3, Deleted DEF AddReturn
    <3>2. {callFd[p]} \subseteq Fds
      BY <3>1 DEF CallsHaveTimers, DeleteStages
    <3>3. UNCHANGED kernelVars \/ CloseTimers({callFd[p]})
      BY <2>3, Deleted DEF AddReturn
    <3>4. QED BY <1>1, <3>2, <3>3, ClosedTypes DEF KernelTypes, kernelVars
  <2>4. QED BY <1>9, <2>2, <2>3
<1>10. ASSUME NEW p \in Threads, NEW f \in Fds, NEW t \in StartTimes, NEW period \in BOOLEAN,
              Set(p, f, t, period)
       PROVE  KernelTypes'
  BY <1>1, <1>10, SetTypes DEF Set
<1>11. QED BY <1>2, <1>3, <1>4, <1>5, <1>6, <1>7, <1>8, <1>9, <1>10, NextCases

LEMMA CallTyped ==
  ASSUME TypeOK, CallsHaveTimers, Next \/ UNCHANGED vars
  PROVE  CallTypes'
<1>1. CallTypes
  BY TypesTogether
<1>2. CASE \/ UNCHANGED vars \/ Tick \/ HandlerCheck \/ HandlerWait \/ HandlerWaitFails \/ HandlerCopy
           \/ HandlerReturn \/ \E f \in Fds : Expire(f) \/ HandlerRead(f)
  BY <1>1, <1>2 DEF CallTypes, vars, Tick, HandlerCheck, Loop, HandlerWait, HandlerWaitFails, HandlerCopy,
    HandlerReturn, Expire, HandlerRead, Dispatch, callVars, argVars
<1>3. ASSUME NEW p \in Threads,
             \/ InitEpoll(p) \/ InitHeartbeat(p) \/ InitDone(p) \/ InitFails(p) \/ DeinitJoined(p)
             \/ InitInvalid(p) \/ DeinitBegin(p)
             \/ \E n \in 1 .. EventNumMax : InitBegin(p, n)
             \/ \E f \in Fds, t \in StartTimes, period \in BOOLEAN : Set(p, f, t, period)
      PROVE  CallTypes'
  BY <1>1, <1>3 DEF CallTypes, InitEpoll, InitHeartbeat, InitDone, InitFails, DeinitJoined,
    InitInvalid, DeinitBegin, InitBegin, InitData, Set, callVars, argVars
<1>4. ASSUME NEW p \in Threads, Return(p), handles' \in {handles, handles \cup {callFd[p]}},
             callFd[p] \in Fds \/ UNCHANGED handles
      PROVE  CallTypes'
  BY <1>1, <1>4, ConstantsAssumption DEF CallTypes, Return
<1>5. ASSUME NEW p \in Threads, InitCheck(p) PROVE CallTypes'
  BY <1>1, <1>4, <1>5 DEF CallTypes, InitCheck
<1>6. ASSUME NEW p \in Threads, AddInsert(p) PROVE CallTypes'
  <2>1. PICK f \in Fds, i \in Slots \cup {maxEventNum} :
             callFd' = [callFd EXCEPT ![p] = f] /\ callIdx' = [callIdx EXCEPT ![p] = i]
    BY <1>6, Inserted
  <2>2. i \in 0 .. EventNumMax + 1
    BY ConstantsAssumption DEF TypeOK, Slots
  <2>3. QED BY <1>1, <1>6, <2>1, <2>2 DEF CallTypes, AddInsert
<1>7. ASSUME NEW p \in Threads, AddFails(p) \/ Delete(p) PROVE CallTypes'
  BY <1>4, <1>7, Deleted DEF AddFails
<1>8. ASSUME NEW p \in Threads, AddReturn(p) PROVE CallTypes'
  <2>1. callFd[p] \in Fds
    BY <1>8 DEF AddReturn, CallsHaveTimers
  <2>2. QED BY <1>4, <1>8, <2>1 DEF AddReturn
<1>9. ASSUME NEW p \in Threads,
             \/ \E cb \in Callbacks : AddBegin(p, cb)
             \/ \E f \in Fds : DeleteBegin(p, f)
      PROVE  CallTypes'
  BY <1>1, <1>9 DEF CallTypes, AddBegin, DeleteBegin
<1>10. QED BY <1>2, <1>3, <1>5, <1>6, <1>7, <1>8, <1>9, NextCases

LEMMA CallsHaveTimersStep ==
  ASSUME TypeOK, CallsHaveTimers, Next \/ UNCHANGED vars
  PROVE  CallsHaveTimers'
<1> USE DEF DeleteStages
<1>1. CASE UNCHANGED <<callPc, callFd>>
  BY <1>1 DEF CallsHaveTimers
<1>2. ASSUME NEW p \in Threads, AddInsert(p) PROVE CallsHaveTimers'
  <2>1. PICK f \in Fds : callFd' = [callFd EXCEPT ![p] = f]
    BY <1>2, Inserted
  <2>2. QED BY <1>2, <2>1 DEF AddInsert, Goto, TypeOK, CallsHaveTimers
<1>3. ASSUME NEW p \in Threads, NEW f \in Fds, DeleteBegin(p, f) PROVE CallsHaveTimers'
  BY <1>3 DEF DeleteBegin, Goto, TypeOK, CallsHaveTimers
<1>4. ASSUME NEW p \in Threads, NEW pc, pc \notin {"added", "delete_check", "delete"}, Goto(p, pc),
             UNCHANGED callFd
      PROVE  CallsHaveTimers'
  BY <1>4 DEF Goto, TypeOK, CallsHaveTimers
<1>5. ASSUME NEW p \in Threads, Return(p) PROVE CallsHaveTimers'
  BY <1>5 DEF Return, Goto, TypeOK, CallsHaveTimers
<1>6. ASSUME NEW p \in Threads,
             \/ InitEpoll(p) \/ InitHeartbeat(p) \/ InitDone(p) \/ InitFails(p) \/ DeinitJoined(p)
             \/ DeinitBegin(p)
             \/ \E n \in 1 .. EventNumMax : InitBegin(p, n)
             \/ \E cb \in Callbacks : AddBegin(p, cb)
      PROVE  CallsHaveTimers'
  BY <1>4, <1>6 DEF InitEpoll, InitHeartbeat, InitDone, InitFails, DeinitJoined, DeinitBegin, InitBegin,
    InitData, AddBegin, argVars
<1>7. ASSUME NEW p \in Threads, AddFails(p) \/ AddReturn(p) \/ Delete(p) PROVE CallsHaveTimers'
  BY <1>5, <1>7, Deleted DEF AddFails, AddReturn
<1>8. ASSUME NEW p \in Threads, InitCheck(p) PROVE CallsHaveTimers'
  <2>1. CASE isInit
    BY <1>8, <2>1 DEF InitCheck, Goto, TypeOK, CallsHaveTimers
  <2>2. CASE ~isInit
    BY <1>5, <1>8, <2>2 DEF InitCheck
  <2>3. QED BY <2>1, <2>2
<1>9. CASE \/ UNCHANGED vars \/ Tick \/ HandlerCheck \/ HandlerWait \/ HandlerWaitFails \/ HandlerCopy
           \/ HandlerReturn \/ \E f \in Fds : Expire(f) \/ HandlerRead(f)
           \/ \E p \in Threads :
                \/ InitInvalid(p)
                \/ \E f \in Fds, t \in StartTimes, period \in BOOLEAN : Set(p, f, t, period)
  BY <1>1, <1>9 DEF vars, Tick, HandlerCheck, Loop, HandlerWait, HandlerWaitFails, HandlerCopy, HandlerReturn, Expire,
    HandlerRead, Dispatch, InitInvalid, Set, callVars, argVars
<1>10. QED BY <1>2, <1>3, <1>6, <1>7, <1>8, <1>9, NextCases

LEMMA TableTyped ==
  ASSUME TypeOK, CallsHaveTimers, Next \/ UNCHANGED vars
  PROVE  TableTypes'
<1>1. TableTypes
  BY TypesTogether
<1>2. \A i \in Slots : table[i].cb \in Callbacks \cup {Heartbeat, None}
  BY DEF TypeOK, Entry
<1>3. CASE \/ UNCHANGED vars \/ Tick \/ HandlerCheck \/ \E f \in Fds : Expire(f)
  BY <1>1, <1>3 DEF TableTypes, vars, tableVars, handlerVars, callVars, argVars, historyVars, Tick,
    HandlerCheck, Loop, Expire
<1>4. CASE HandlerWait \/ HandlerWaitFails \/ HandlerCopy \/ HandlerReturn
  BY <1>1, <1>4, Constants DEF TableTypes, TypeOK, HandlerWait, HandlerWaitFails, HandlerCopy, HandlerReturn, NextEvent,
    tableVars, callVars, argVars, historyVars
<1>5. ASSUME NEW f \in Fds, HandlerRead(f) PROVE TableTypes'
  <2>1. calling' \in Entry
    <3>1. CASE SlotOf(copy, f) = {}
      BY <1>1, <1>5, <3>1 DEF TableTypes, HandlerRead, Dispatch
    <3>2. CASE SlotOf(copy, f) # {}
      <4>1. Min(SlotOf(copy, f)) \in Slots
        BY <3>2, SlotFound
      <4>2. QED BY <1>1, <1>5, <3>2, <4>1 DEF TableTypes, HandlerRead, Dispatch
    <3>3. QED BY <3>1, <3>2
  <2>2. /\ events' \subseteq Fds /\ copy' \in {copy, EmptyTable} /\ stale' \in {stale, {}}
        /\ taken' \in Callbacks \cup {Heartbeat, None} /\ UNCHANGED <<table, used, deleted>>
    BY <1>1, <1>5 DEF TableTypes, TypeOK, HandlerRead, Dispatch, NextEvent, tableVars, callVars, argVars, historyVars
  <2>3. QED BY <1>1, <2>1, <2>2, Constants DEF TableTypes
<1>6. ASSUME NEW p \in Threads,
             \/ InitEpoll(p) \/ InitCheck(p) \/ AddFails(p) \/ AddReturn(p) \/ DeinitBegin(p) \/ InitDone(p)
             \/ \E f \in Fds : DeleteBegin(p, f)
             \/ \E f \in Fds, t \in StartTimes, period \in BOOLEAN : Set(p, f, t, period)
             \/ \E cb \in Callbacks : AddBegin(p, cb)
      PROVE  TableTypes'
  BY <1>1, <1>6 DEF TableTypes, InitEpoll, InitCheck, AddFails, AddReturn, DeinitBegin, InitDone, DeleteBegin,
    Set, AddBegin, tableVars, handlerVars, callVars, argVars, historyVars
<1>7. ASSUME NEW p \in Threads,
             \/ InitInvalid(p) \/ InitFails(p) \/ \E n \in 1 .. EventNumMax : InitBegin(p, n)
      PROVE  TableTypes'
  BY <1>1, <1>7, Constants DEF TableTypes, InitInvalid, InitFails, InitBegin, InitData, handlerVars, callVars,
    argVars, historyVars
<1>8. ASSUME NEW p \in Threads, InitHeartbeat(p) PROVE TableTypes'
  <2>1. PICK f \in Fds : table' = [table EXCEPT ![0] = [fd |-> f, cb |-> Heartbeat]]
    BY <1>8, HeartbeatAdded
  <2>2. [fd |-> f, cb |-> Heartbeat] \in Entry
    BY DEF Entry
  <2>3. QED BY <1>1, <1>8, <2>1, <2>2 DEF TableTypes, InitHeartbeat, handlerVars, argVars, historyVars
<1>9. ASSUME NEW p \in Threads, AddInsert(p) PROVE TableTypes'
  <2>1. PICK f \in Fds, s \in Slots :
             table' \in {table, [table EXCEPT ![s] = [fd |-> f, cb |-> callCb[p]]]}
    BY <1>9, Inserted, Constants
  <2>2. [fd |-> f, cb |-> callCb[p]] \in Entry
    BY DEF Entry, TypeOK
  <2>3. QED BY <1>1, <1>9, <2>1, <2>2 DEF TableTypes, AddInsert, handlerVars, historyVars
<1>10. ASSUME NEW p \in Threads, Delete(p) PROVE TableTypes'
  <2>1. /\ table' \in [Slots -> Entry] /\ deleted' \subseteq Callbacks /\ deleted \subseteq deleted'
        /\ UNCHANGED <<copy, events, calling, taken, used, stale>>
    BY <1>1, <1>10, Deleted, Constants, ZenonT(40) DEF TableTypes, handlerVars
  <2>2. QED BY <1>1, <2>1 DEF TableTypes
<1>11. ASSUME NEW p \in Threads, DeinitJoined(p) PROVE TableTypes'
  BY <1>1, <1>11, Constants DEF TableTypes, DeinitJoined
<1>12. QED BY <1>3, <1>4, <1>5, <1>6, <1>7, <1>8, <1>9, <1>10, <1>11, NextCases

LEMMA TypesInit == Init => TypeOK /\ CallsHaveTimers
<1> SUFFICES ASSUME Init PROVE TypeOK /\ CallsHaveTimers
  OBVIOUS
<1>1. ControlTypes
  <2>1. isInit \in BOOLEAN /\ isRunning \in BOOLEAN /\ epollOpen \in BOOLEAN
    BY DEF Init
  <2>2. initMutex \in Callers \cup {None}
    BY DEF Init
  <2>3. maxEventNum \in 0 .. EventNumMax + 1
    BY ConstantsAssumption DEF Init
  <2>4. now \in 1 .. MaxNow /\ inits \in 0 .. MaxInits /\ straddled \in BOOLEAN /\ faults \in 0 .. MaxFaults
    <3>1. now = 1 /\ inits = 0 /\ straddled = FALSE /\ faults = 0
      BY DEF Init
    <3>2. straddled \in BOOLEAN
      BY <3>1
    <3>3. QED BY <3>1, <3>2, ConstantsAssumption
  <2>5. callPc = [p \in Threads |-> "out"] /\ handlerPc = "none"
    BY DEF Init
  <2>6. QED BY <2>1, <2>2, <2>3, <2>4, <2>5 DEF ControlTypes
<1>2. KernelTypes /\ CallTypes /\ CallsHaveTimers
  BY ConstantsAssumption DEF Init, KernelTypes, CallTypes, CallsHaveTimers, DeleteStages
<1>3. TableTypes
  BY Constants DEF Init, TableTypes
<1>4. QED BY <1>1, <1>2, <1>3, TypesTogether

\* Every variable keeps its type, and g_maxEventNum stays within g_eventInfo
\* (timer_event_manage.c:125 and 130).
THEOREM TypeCorrect == Spec => []TypeOK
<1>1. TypeOK /\ CallsHaveTimers /\ [Next]_vars => (TypeOK /\ CallsHaveTimers)'
  BY ControlTyped, KernelTyped, CallTyped, CallsHaveTimersStep, TableTyped, TypesTogether
    DEF TypeOK, ControlTypes, KernelTypes, CallTypes, TableTypes
<1>2. QED BY <1>1, TypesInit, PTL DEF Spec
-------------------------------------------------------------------------------
(***************************************************************************)
(* Locks and stages.                                                       *)
(***************************************************************************)

\* The steps of the handler, the clock and the kernel, and SetTimerEvent,
\* change nothing of this.
settledVars == <<isInit, initMutex, epollOpen, tableVars, fdCb, watched, callVars, historyVars>>

LEMMA StepCases ==
  ASSUME Next \/ UNCHANGED vars
  PROVE  \/ UNCHANGED settledVars /\ (handlerPc = "none" => handlerPc' = "none")
         \/ \E p \in Threads :
              \/ InitEpoll(p) \/ InitHeartbeat(p) \/ InitDone(p) \/ InitFails(p) \/ DeinitJoined(p)
              \/ InitCheck(p) \/ AddInsert(p) \/ AddFails(p) \/ AddReturn(p) \/ Delete(p)
              \/ InitInvalid(p) \/ DeinitBegin(p)
              \/ \E n \in 1 .. EventNumMax : InitBegin(p, n)
              \/ \E cb \in Callbacks : AddBegin(p, cb)
              \/ \E f \in Fds : DeleteBegin(p, f)
<1>1. CASE \/ UNCHANGED vars \/ Tick
           \/ \E f \in Fds : Expire(f)
           \/ \E p \in Threads, f \in Fds, t \in StartTimes, period \in BOOLEAN : Set(p, f, t, period)
  BY <1>1 DEF vars, Tick, Expire, Set, handlerVars, kernelVars, settledVars
<1>2. CASE \/ HandlerCheck \/ HandlerWait \/ HandlerWaitFails \/ HandlerCopy \/ HandlerReturn
           \/ \E f \in Fds : HandlerRead(f)
  BY <1>2 DEF HandlerCheck, Loop, HandlerWait, HandlerWaitFails, HandlerCopy, HandlerReturn, HandlerRead, Dispatch, kernelVars,
    settledVars
<1>3. QED BY <1>1, <1>2, NextCases

\* AddTimerEvent and DeleteTimerEvent go from one of these places to another.
CallPlaces == {"out", "add_check", "add", "added", "delete_check", "delete"}

LEMMA CallMoves ==
  ASSUME NEW p \in Threads,
         \/ InitCheck(p) \/ AddInsert(p) \/ AddFails(p) \/ AddReturn(p) \/ Delete(p)
         \/ \E cb \in Callbacks : AddBegin(p, cb)
         \/ \E f \in Fds : DeleteBegin(p, f)
  PROVE  /\ callPc[p] \in CallPlaces /\ \E pc \in CallPlaces : Goto(p, pc)
         /\ UNCHANGED <<isInit, initMutex, epollOpen, maxEventNum, handlerPc, copy, calling, stale, straddled>>
<1>1. CASE InitCheck(p)
  <2>1. \E pc \in CallPlaces : Goto(p, pc)
    BY <1>1 DEF InitCheck, Return, CallPlaces
  <2>2. QED BY <1>1, <2>1 DEF InitCheck, CallPlaces, tableVars, kernelVars, handlerVars, historyVars
<1>2. CASE AddInsert(p) \/ AddFails(p)
  BY <1>2 DEF AddInsert, AddFails, Return, CallPlaces, tableVars, kernelVars, handlerVars, historyVars
<1>3. CASE AddReturn(p)
  BY <1>3 DEF AddReturn, Return, CallPlaces, tableVars, kernelVars, handlerVars, historyVars
<1>4. CASE Delete(p)
  BY <1>4, Deleted DEF Return, CallPlaces, handlerVars
<1>5. CASE (\E cb \in Callbacks : AddBegin(p, cb)) \/ \E f \in Fds : DeleteBegin(p, f)
  BY <1>5 DEF AddBegin, DeleteBegin, MayCall, CallPlaces, tableVars, kernelVars, handlerVars, historyVars
<1>6. QED BY <1>1, <1>2, <1>3, <1>4, <1>5

LEMMA MutexedStep ==
  ASSUME TypeOK, Mutexed, Next \/ UNCHANGED vars
  PROVE  Mutexed'
<1>1. CASE UNCHANGED settledVars /\ (handlerPc = "none" => handlerPc' = "none")
  BY <1>1 DEF Mutexed, InCall, settledVars, callVars
<1>2. ASSUME NEW p \in Threads, NEW pc \in CallPlaces, Goto(p, pc),
             UNCHANGED <<isInit, initMutex, epollOpen, handlerPc>>
      PROVE  Mutexed'
  BY <1>2 DEF Mutexed, InCall, InitStages, CallPlaces, Goto, TypeOK
<1>3. CASE \E p \in Threads : \/ InitCheck(p) \/ AddInsert(p) \/ AddFails(p) \/ AddReturn(p) \/ Delete(p)
                              \/ \E cb \in Callbacks : AddBegin(p, cb)
                              \/ \E f \in Fds : DeleteBegin(p, f)
  BY <1>2, <1>3, CallMoves
<1>5. ASSUME NEW p \in Threads, InitInvalid(p) PROVE Mutexed'
  BY <1>5 DEF InitInvalid, Mutexed, InCall, callVars, kernelVars, handlerVars
<1>6. ASSUME NEW p \in Threads, NEW n \in 1 .. EventNumMax, InitBegin(p, n) PROVE Mutexed'
  BY <1>6, Constants DEF InitBegin, InitData, Mutexed, InCall, InitStages, Goto, TypeOK, kernelVars, handlerVars
<1>7. ASSUME NEW p \in Threads, InitEpoll(p) \/ InitHeartbeat(p) PROVE Mutexed'
  BY <1>7 DEF InitEpoll, InitHeartbeat, Mutexed, InCall, InitStages, Goto, TypeOK, handlerVars
<1>8. ASSUME NEW p \in Threads, InitDone(p) PROVE Mutexed'
  BY <1>8, Constants DEF InitDone, Mutexed, InCall, InitStages, Goto, TypeOK
<1>9. ASSUME NEW p \in Threads, InitFails(p) \/ DeinitJoined(p) PROVE Mutexed'
  <2>1. /\ Goto(p, "out") /\ callPc[p] \in InitStages \cup {"join"}
        /\ isInit' = FALSE /\ initMutex' = None
        /\ handlerPc' = "none"
    BY <1>9 DEF InitFails, DeinitJoined, DeinitCore, Mutexed, InitStages, handlerVars
  <2>2. \A q \in Threads : callPc'[q] \notin InitStages \cup {"join"}
    BY <2>1 DEF Goto, TypeOK, Mutexed, InitStages
  <2>3. QED BY <2>1, <2>2 DEF Mutexed, InCall, InitStages
<1>10. ASSUME NEW p \in Threads, DeinitBegin(p) PROVE Mutexed'
  BY <1>10, Constants DEF DeinitBegin, Mutexed, InCall, InitStages, Goto, TypeOK, handlerVars
<1>11. QED BY <1>1, <1>3, <1>5, <1>6, <1>7, <1>8, <1>9, <1>10, StepCases
-------------------------------------------------------------------------------
(***************************************************************************)
(* Callbacks.                                                              *)
(***************************************************************************)
AddStages == {"add_check", "add"}

\* What keeps CallbacksOnce: slots are cleared, what they had may be deleted,
\* the heartbeat goes to slot 0, and nobody starts to add.
LEMMA CallbacksCleared ==
  ASSUME TypeOK, CallbacksOnce, deleted' \subseteq used, used \subseteq used', UNCHANGED callCb,
         \A i \in Slots : table'[i].cb \in {table[i].cb, None} \/ (i = 0 /\ table'[i].cb = Heartbeat),
         \A i \in Slots : table'[i].cb \in Callbacks => table'[i].cb \notin deleted',
         \A cb \in deleted' : cb \in deleted \/ \E i \in Slots : table[i].cb = cb,
         \A p \in Threads : callPc'[p] \in AddStages => callPc[p] \in AddStages
  PROVE  CallbacksOnce'
<1>1. /\ deleted' \subseteq used'
      /\ \A i \in Slots : table'[i].cb \in Callbacks => table'[i].cb \in used' \ deleted'
      /\ \A i \in Slots \ {0} : table'[i].cb # Heartbeat
  BY Constants DEF CallbacksOnce
<1>2. ASSUME NEW i \in Slots, NEW j \in Slots, table'[i].cb \in Callbacks, table'[i].cb = table'[j].cb
      PROVE  i = j
  BY <1>2, Constants DEF CallbacksOnce
<1>3. ASSUME NEW p \in Threads, callPc'[p] \in AddStages
      PROVE  /\ callCb'[p] \in used' \ deleted' /\ \A i \in Slots : table'[i].cb # callCb'[p]
             /\ \A q \in Threads : callPc'[q] \in AddStages /\ callCb'[q] = callCb'[p] => q = p
  <2>1. callPc[p] \in AddStages /\ callCb[p] \in Callbacks
    BY <1>3 DEF CallbacksOnce, AddStages, TypeOK
  <2>2. QED BY <1>3, <2>1, Constants DEF CallbacksOnce, AddStages
<1>4. QED BY <1>1, <1>2, <1>3 DEF CallbacksOnce, AddStages

LEMMA CallbacksStep ==
  ASSUME TypeOK, CallbacksOnce, Next \/ UNCHANGED vars
  PROVE  CallbacksOnce'
<1>1. CASE UNCHANGED settledVars
  BY <1>1 DEF CallbacksOnce, settledVars, tableVars, callVars, argVars, historyVars
<1>2. ASSUME NEW p \in Threads,
             \/ InitEpoll(p) \/ InitHeartbeat(p) \/ InitDone(p) \/ InitFails(p) \/ InitInvalid(p)
             \/ DeinitBegin(p) \/ \E n \in 1 .. EventNumMax : InitBegin(p, n)
      PROVE  CallbacksOnce'
  <2>1. /\ UNCHANGED <<callCb, used, deleted>>
        /\ UNCHANGED callPc
             \/ \E pc \in {"out", "join", "init_epoll", "init_heartbeat", "init_thread"} : Goto(p, pc)
    BY <1>2 DEF InitEpoll, InitHeartbeat, InitDone, InitFails, InitInvalid, DeinitBegin, InitBegin, InitData,
      callVars, argVars, historyVars
  <2>2. \A q \in Threads : callPc'[q] \in AddStages => callPc[q] \in AddStages
    BY <2>1 DEF Goto, AddStages, TypeOK
  <2>3. \A i \in Slots : table'[i].cb \in {table[i].cb, None} \/ (i = 0 /\ table'[i].cb = Heartbeat)
    <3>1. CASE InitHeartbeat(p)
      <4>1. PICK f \in Fds : table' = [table EXCEPT ![0] = [fd |-> f, cb |-> Heartbeat]]
        BY <3>1, HeartbeatAdded
      <4>2. QED BY <4>1 DEF TypeOK
    <3>2. CASE ~InitHeartbeat(p)
      <4>1. table' \in {table, EmptyTable, [table EXCEPT ![0] = NoEvent]}
        BY <1>2, <3>2 DEF InitEpoll, InitDone, InitFails, InitInvalid, DeinitBegin, InitBegin, InitData, tableVars
      <4>2. QED BY <4>1, Constants DEF TypeOK
    <3>3. QED BY <3>1, <3>2
  <2>4. \A i \in Slots : table'[i].cb \in Callbacks => table'[i].cb \notin deleted'
    BY <2>1, <2>3, Constants DEF CallbacksOnce
  <2>5. deleted' \subseteq used /\ used \subseteq used'
    BY <2>1 DEF CallbacksOnce
  <2>6. QED BY <2>1, <2>2, <2>3, <2>4, <2>5, CallbacksCleared
<1>3. ASSUME NEW p \in Threads, DeinitJoined(p) PROVE CallbacksOnce'
  <2>1. /\ UNCHANGED <<callCb, used>> /\ Goto(p, "out")
        /\ table' = [i \in Slots |-> IF i \in UsedSlots THEN NoEvent ELSE table[i]]
        /\ deleted' = deleted \cup ({table[i].cb : i \in UsedSlots} \cap Callbacks)
    BY <1>3 DEF DeinitJoined
  <2>2. \A i \in Slots : table'[i].cb \in {table[i].cb, None}
    BY <2>1, Constants
  <2>3. UsedSlots \subseteq Slots /\ \A cb \in deleted' \ deleted : cb \in Callbacks /\ \E i \in UsedSlots : table[i].cb = cb
    BY <2>1 DEF UsedSlots
  <2>4. ASSUME NEW i \in Slots, table'[i].cb \in Callbacks PROVE table'[i].cb \notin deleted'
    <3>1. i \notin UsedSlots /\ table'[i] = table[i]
      BY <2>1, <2>4, Constants
    <3>2. QED BY <2>3, <2>4, <3>1 DEF CallbacksOnce
  <2>5. deleted' \subseteq used
    BY <2>3 DEF CallbacksOnce
  <2>6. \A q \in Threads : callPc'[q] \in AddStages => callPc[q] \in AddStages
    BY <2>1 DEF Goto, AddStages, TypeOK
  <2>7. QED BY <2>1, <2>2, <2>3, <2>4, <2>5, <2>6, CallbacksCleared
<1>4. ASSUME NEW p \in Threads, AddFails(p) \/ AddReturn(p) PROVE CallbacksOnce'
  BY <1>4 DEF CallbacksOnce, AddFails, AddReturn, Return, Goto, TypeOK, tableVars, historyVars
<1>5. ASSUME NEW p \in Threads, InitCheck(p) PROVE CallbacksOnce'
  <2>1. UNCHANGED <<table, used, deleted>>
    BY <1>5 DEF InitCheck, tableVars, historyVars
  <2>2. ASSUME NEW q \in Threads, callPc'[q] \in AddStages
        PROVE  callPc[q] \in AddStages /\ callCb'[q] = callCb[q]
    BY <1>5, <2>2 DEF InitCheck, Return, Goto, AddStages, TypeOK
  <2>3. QED BY <2>1, <2>2 DEF CallbacksOnce, AddStages
<1>6. ASSUME NEW p \in Threads, Delete(p) PROVE CallbacksOnce'
  <2>1. Return(p) /\ UNCHANGED used /\ callPc[p] = "delete"
    BY <1>6, Deleted
  <2>2. ASSUME NEW q \in Threads, callPc'[q] \in AddStages
        PROVE  callPc[q] \in AddStages /\ callCb'[q] = callCb[q]
    BY <2>1, <2>2 DEF Return, Goto, AddStages, TypeOK
  <2>3. CASE UNCHANGED <<table, deleted>>
    BY <2>1, <2>2, <2>3 DEF CallbacksOnce, AddStages
  <2>4. ASSUME NEW s \in Slots, table' = [i \in Slots |-> IF i = s THEN NoEvent ELSE table[i]],
               deleted' = deleted \cup ({table[s].cb} \cap Callbacks)
        PROVE  CallbacksOnce'
    <3>1. \A i \in Slots : table'[i].cb \in Callbacks \cup {Heartbeat} => i # s /\ table'[i].cb = table[i].cb
      BY <2>4, Constants
    <3>2. \A q \in Threads : callPc'[q] \in AddStages => callCb[q] # table[s].cb
      BY <2>2 DEF CallbacksOnce, AddStages
    <3>3. \A q \in Threads : callPc'[q] \in AddStages => callCb[q] \in Callbacks
      BY <2>2 DEF CallbacksOnce, AddStages, TypeOK
    <3>4. /\ deleted' \subseteq used'
          /\ \A i \in Slots : table'[i].cb \in Callbacks => table'[i].cb \in used' \ deleted'
          /\ \A i, j \in Slots : table'[i].cb \in Callbacks /\ table'[i].cb = table'[j].cb => i = j
          /\ \A i \in Slots \ {0} : table'[i].cb # Heartbeat
      BY <2>1, <2>4, <3>1 DEF CallbacksOnce
    <3>5. ASSUME NEW q \in Threads, callPc'[q] \in AddStages
          PROVE  /\ callCb'[q] \in used' \ deleted' /\ \A i \in Slots : table'[i].cb # callCb'[q]
                 /\ \A r \in Threads : callPc'[r] \in AddStages /\ callCb'[r] = callCb'[q] => r = q
      BY <2>1, <2>2, <2>4, <3>1, <3>2, <3>3, <3>5 DEF CallbacksOnce, AddStages
    <3>6. QED BY <3>4, <3>5 DEF CallbacksOnce, AddStages
  <2>5. QED BY <1>6, <2>3, <2>4, Deleted
<1>7. ASSUME NEW p \in Threads, AddInsert(p) PROVE CallbacksOnce'
  <2>1. /\ callPc[p] = "add" /\ callPc' = [callPc EXCEPT ![p] = "added"] /\ UNCHANGED <<callCb, used, deleted>>
    BY <1>7, Inserted DEF historyVars
  <2>2. \A q \in Threads : callPc'[q] \in AddStages => callPc[q] \in AddStages /\ q # p
    BY <2>1 DEF AddStages, TypeOK
  <2>3. callCb[p] \in used \ deleted /\ callCb[p] \in Callbacks
    BY <2>1 DEF CallbacksOnce, TypeOK
  <2>4. CASE UNCHANGED table
    BY <2>1, <2>2, <2>4 DEF CallbacksOnce, AddStages
  <2>5. ASSUME NEW s \in Slots, NEW f \in Fds, table' = [table EXCEPT ![s] = [fd |-> f, cb |-> callCb[p]]]
        PROVE  CallbacksOnce'
    <3>1. \A i \in Slots : table'[i].cb = IF i = s THEN callCb[p] ELSE table[i].cb
      BY <2>5 DEF TypeOK
    <3>2. \A i \in Slots : table[i].cb # callCb[p]
      BY <2>1 DEF CallbacksOnce
    <3>3. /\ deleted' \subseteq used'
          /\ \A i \in Slots : table'[i].cb \in Callbacks => table'[i].cb \in used' \ deleted'
          /\ \A i, j \in Slots : table'[i].cb \in Callbacks /\ table'[i].cb = table'[j].cb => i = j
          /\ \A i \in Slots \ {0} : table'[i].cb # Heartbeat
      BY <2>1, <2>3, <3>1, <3>2, Constants DEF CallbacksOnce
    <3>4. ASSUME NEW q \in Threads, callPc'[q] \in AddStages
          PROVE  /\ callCb'[q] \in used' \ deleted' /\ \A i \in Slots : table'[i].cb # callCb'[q]
                 /\ \A r \in Threads : callPc'[r] \in AddStages /\ callCb'[r] = callCb'[q] => r = q
      BY <2>1, <2>2, <3>1, <3>4 DEF CallbacksOnce, AddStages
    <3>5. QED BY <3>3, <3>4 DEF CallbacksOnce, AddStages
  <2>6. QED BY <1>7, <2>4, <2>5, Inserted
<1>8. ASSUME NEW p \in Threads, NEW cb \in Callbacks, AddBegin(p, cb) PROVE CallbacksOnce'
  <2>1. /\ UNCHANGED <<table, deleted>> /\ used' = used \cup {cb} /\ cb \notin used
        /\ callPc' = [callPc EXCEPT ![p] = "add_check"] /\ callCb' = [callCb EXCEPT ![p] = cb]
    BY <1>8 DEF AddBegin, Goto, tableVars, historyVars
  <2>2. \A i \in Slots : table[i].cb # cb
    BY <2>1 DEF CallbacksOnce
  <2>3. ASSUME NEW q \in Threads, callPc'[q] \in AddStages
        PROVE  /\ callCb'[q] \in used' \ deleted' /\ \A i \in Slots : table'[i].cb # callCb'[q]
               /\ \A r \in Threads : callPc'[r] \in AddStages /\ callCb'[r] = callCb'[q] => r = q
    BY <2>1, <2>2, <2>3 DEF CallbacksOnce, AddStages, TypeOK
  <2>4. QED BY <2>1, <2>3 DEF CallbacksOnce, AddStages
<1>9. ASSUME NEW p \in Threads, NEW f \in Fds, DeleteBegin(p, f) PROVE CallbacksOnce'
  BY <1>9 DEF CallbacksOnce, DeleteBegin, Goto, TypeOK, tableVars, historyVars
<1>10. QED BY <1>1, <1>2, <1>3, <1>4, <1>5, <1>6, <1>7, <1>8, <1>9, StepCases
-------------------------------------------------------------------------------
(***************************************************************************)
(* The table, the descriptors handed out and those of the calls.           *)
(***************************************************************************)
LEMMA SizedStep ==
  ASSUME TypeOK, Mutexed, TableSized, Next \/ UNCHANGED vars
  PROVE  TableSized'
<1>1. CASE UNCHANGED settledVars
  BY <1>1 DEF TableSized, InCall, settledVars, tableVars, callVars
<1>2. ASSUME NEW p \in Threads, NEW pc, Goto(p, pc), callPc[p] \in InitStages <=> pc \in InitStages,
             UNCHANGED <<isInit, maxEventNum>>
      PROVE  TableSized'
  <2>1. \A q \in Threads : callPc'[q] \in InitStages <=> callPc[q] \in InitStages
    BY <1>2 DEF Goto, TypeOK
  <2>2. QED BY <1>2, <2>1 DEF TableSized, InCall
<1>3. CASE \E p \in Threads : \/ InitCheck(p) \/ AddInsert(p) \/ AddFails(p) \/ AddReturn(p) \/ Delete(p)
                              \/ \E cb \in Callbacks : AddBegin(p, cb)
                              \/ \E f \in Fds : DeleteBegin(p, f)
  <2>1. CallPlaces \cap InitStages = {}
    BY DEF CallPlaces, InitStages
  <2>2. QED BY <1>2, <1>3, <2>1, CallMoves
<1>4. ASSUME NEW p \in Threads, InitEpoll(p) \/ InitHeartbeat(p) \/ DeinitBegin(p) PROVE TableSized'
  BY <1>2, <1>4 DEF InitEpoll, InitHeartbeat, DeinitBegin, InitStages, tableVars
<1>5. ASSUME NEW p \in Threads, InitDone(p) PROVE TableSized'
  <2>1. callPc[p] \in InitStages /\ isInit' /\ maxEventNum' = maxEventNum
    BY <1>5 DEF InitDone, InitStages, tableVars
  <2>2. QED BY <2>1 DEF TableSized, InCall
<1>6. ASSUME NEW p \in Threads, InitInvalid(p) PROVE TableSized'
  <2>1. ~InCall(InitStages) /\ ~isInit
    BY <1>6, Constants DEF InitInvalid, Mutexed, InCall
  <2>2. maxEventNum' = 0 /\ UNCHANGED <<isInit, callPc>>
    BY <1>6 DEF InitInvalid, callVars
  <2>3. QED BY <2>1, <2>2 DEF TableSized, InCall
<1>7. ASSUME NEW p \in Threads, NEW n \in 1 .. EventNumMax, InitBegin(p, n) PROVE TableSized'
  <2>1. maxEventNum' # 0
    BY <1>7, ConstantsAssumption DEF InitBegin, InitData
  <2>2. callPc'[p] \in InitStages
    BY <1>7 DEF InitBegin, InitData, Goto, InitStages, TypeOK
  <2>3. QED BY <2>1, <2>2 DEF TableSized, InCall
<1>8. ASSUME NEW p \in Threads, InitFails(p) \/ DeinitJoined(p) PROVE TableSized'
  <2>1. /\ Goto(p, "out") /\ callPc[p] \in InitStages \cup {"join"} /\ isInit' = FALSE /\ maxEventNum' = 0
    BY <1>8 DEF InitFails, DeinitJoined, DeinitCore, InitStages
  <2>2. \A q \in Threads : callPc'[q] \notin InitStages
    BY <2>1 DEF Goto, TypeOK, Mutexed, InitStages
  <2>3. QED BY <2>1, <2>2 DEF TableSized, InCall
<1>9. QED BY <1>1, <1>3, <1>4, <1>5, <1>6, <1>7, <1>8, StepCases

\* What every step starts from, unless the rest is void.
Known == TypeOK /\ CallsHaveTimers /\ Mutexed /\ TableSized /\ CallbacksOnce
InOrder == Staged /\ Owned /\ CallsApart /\ NoneLost

\* A thread goes from one place to another, the timers stay as they are.
LEMMA MovedKeeps ==
  ASSUME Known, InOrder, NEW p \in Threads, NEW pc, Goto(p, pc),
         callPc[p] \notin InitStages \cup {"added"}, pc \notin InitStages \cup {"added"},
         pc \in {"add", "delete"} => ~InCall(InitStages),
         pc \in DeleteStages => callPc[p] \in DeleteStages /\ UNCHANGED callFd,
         \A q \in Threads \ {p} : callFd'[q] = callFd[q] /\ callIdx'[q] = callIdx[q],
         UNCHANGED <<isInit, maxEventNum, table, fdCb, watched, handles>>
  PROVE  InOrder'
<1>1. \A q \in Threads : callPc'[q] = IF q = p THEN pc ELSE callPc[q]
  BY DEF Goto, Known, TypeOK
<1>2. Staged'
  BY <1>1 DEF InOrder, Staged, InCall, InitStages, DeleteStages
<1>3. Owned'
  BY DEF InOrder, Owned
<1>4. \A q \in Threads : callPc'[q] = "added" => /\ callPc[q] = "added" /\ callFd'[q] = callFd[q]
                                                 /\ callIdx'[q] = callIdx[q]
  BY <1>1
<1>5. \A q \in Threads : Deleting(q)' => Deleting(q) /\ callFd'[q] = callFd[q]
  BY <1>1 DEF Deleting
<1>6. CallsApart'
  <2>1. (\A f \in handles : InTable(f))'
    BY DEF InOrder, CallsApart, InTable
  <2>2. ASSUME NEW q \in Threads, callPc'[q] = "added" PROVE Added(q)'
    BY <1>4, <2>2 DEF InOrder, CallsApart, Added, InTable
  <2>3. ASSUME NEW q \in Threads, Deleting(q)' PROVE (callFd[q] \notin handles /\ InTable(callFd[q]))'
    BY <1>5, <2>3 DEF InOrder, CallsApart, InTable
  <2>4. ASSUME NEW q \in Threads, NEW r \in Threads, callPc'[q] = "added" \/ Deleting(q)',
               callPc'[r] = "added" \/ Deleting(r)', callFd'[q] = callFd'[r]
        PROVE  q = r
    BY <1>4, <1>5, <2>4 DEF InOrder, CallsApart
  <2>5. QED BY <2>1, <2>2, <2>3, <2>4 DEF CallsApart
<1>7. NoneLost'
  BY <1>1 DEF InOrder, NoneLost
<1>8. QED BY <1>2, <1>3, <1>6, <1>7 DEF InOrder

\* InitTimerEventManage starts from an empty table, or straddles a call.
LEMMA InitBeginKeeps ==
  ASSUME Known, InOrder, NEW p \in Threads, NEW n \in 1 .. EventNumMax, InitBegin(p, n), ~straddled'
  PROVE  InOrder'
<1>1. /\ callPc' = [callPc EXCEPT ![p] = "init_epoll"] /\ callPc[p] = "out" /\ initMutex = None
      /\ ~isInit /\ ~InCall({"add", "added", "delete_check", "delete"})
      /\ table' = EmptyTable /\ UNCHANGED <<isInit, fdCb, handles>>
  BY DEF InitBegin, InitData, Goto, kernelVars, argVars
<1>2. ~InCall(InitStages)
  BY <1>1, Constants DEF Known, Mutexed, InCall
<1>3. \A i \in Slots : table[i].fd = None
  <2>1. maxEventNum = 0
    BY <1>1, <1>2 DEF Known, TableSized
  <2>2. \A i \in Slots : ~(i < 0)
    BY ConstantsAssumption DEF Slots
  <2>3. QED BY <2>1, <2>2 DEF InOrder, Staged
<1>4. \A f \in Fds : fdCb[f] = None
  BY <1>1, <1>3, Constants DEF InOrder, NoneLost, InCall
<1>5. \A q \in Threads : callPc'[q] = IF q = p THEN "init_epoll" ELSE callPc[q]
  BY <1>1 DEF Known, TypeOK
<1>6. \A i \in Slots : table'[i].fd = None
  BY <1>1, Constants
<1>7. handles' = {}
  BY <1>1 DEF InOrder, Staged
<1>8. ~InCall({"add", "added"} \cup DeleteStages)'
  BY <1>1, <1>5 DEF InCall, DeleteStages
<1>9. Staged'
  <2>1. ~InCall({"init_thread"})'
    BY <1>2, <1>5 DEF InCall, InitStages
  <2>2. QED BY <1>1, <1>6, <1>7, <1>8, <2>1, Constants DEF Staged
<1>10. Owned'
  BY <1>6 DEF Owned
<1>11. NoneLost'
  BY <1>1, <1>4 DEF NoneLost
<1>12. CallsApart'
  BY <1>1, <1>7, <1>8 DEF CallsApart, InCall, Deleting
<1>13. QED BY <1>9, <1>10, <1>11, <1>12 DEF InOrder

LEMMA InitInvalidKeeps ==
  ASSUME Known, InOrder, NEW p \in Threads, InitInvalid(p)
  PROVE  InOrder'
<1>1. /\ initMutex = None /\ ~isInit /\ table' = EmptyTable /\ maxEventNum' = 0
      /\ UNCHANGED <<isInit, fdCb, callPc, callFd, callIdx, handles>>
  BY DEF InitInvalid, kernelVars, callVars, argVars
<1>2. ~InCall(InitStages)
  BY <1>1, Constants DEF Known, Mutexed, InCall
<1>3. maxEventNum = 0
  BY <1>1, <1>2 DEF Known, TableSized
<1>4. \A i \in Slots : table[i].fd = None
  <2>1. \A i \in Slots : ~(i < 0)
    BY ConstantsAssumption DEF Slots
  <2>2. QED BY <1>3, <2>1 DEF InOrder, Staged
<1>5. \A i \in Slots : table'[i].fd = None
  BY <1>1, Constants
<1>6. Staged'
  <2>1. ~InCall({"init_epoll", "init_heartbeat"}) /\ ~InCall({"init_thread"})
    BY <1>2 DEF InCall, InitStages
  <2>2. QED BY <1>1, <1>2, <1>5, <2>1 DEF InOrder, Staged, InCall
<1>7. Owned'
  BY <1>5 DEF Owned
<1>8. NoneLost'
  BY <1>1, <1>4, <1>5, Constants DEF InOrder, NoneLost
<1>9. CallsApart'
  <2>1. handles = {}
    BY <1>1 DEF InOrder, Staged
  <2>2. ASSUME NEW q \in Threads, callPc[q] = "added" PROVE Added(q)'
    <3>1. callIdx[q] = maxEventNum /\ callFd[q] \in Fds /\ fdCb[callFd[q]] # None
      BY <1>1, <2>2 DEF InOrder, CallsApart, Added
    <3>2. QED BY <1>1, <1>3, <1>5, <2>1, <3>1, Constants DEF Added
  <2>3. QED BY <1>1, <2>1, <2>2 DEF InOrder, CallsApart, Deleting
<1>10. QED BY <1>6, <1>7, <1>8, <1>9 DEF InOrder

\* The stages of InitTimerEventManage.
LEMMA InitStagesKeep ==
  ASSUME Known, InOrder, NEW p \in Threads, InitEpoll(p) \/ InitHeartbeat(p) \/ InitDone(p) \/ InitFails(p)
  PROVE  InOrder'
<1>1. /\ callPc[p] \in InitStages /\ UNCHANGED handles
      /\ \E pc \in {"out", "init_heartbeat", "init_thread"} : Goto(p, pc)
  BY DEF InitEpoll, InitHeartbeat, InitDone, InitFails, InitStages, argVars
<1>2. InCall(InitStages) /\ ~isInit /\ handles = {}
  BY <1>1 DEF InCall, Known, Mutexed, InOrder, Staged
<1>3. /\ ~InCall({"add", "added"} \cup DeleteStages)
      /\ \A q \in Threads \ {p} : callPc[q] \notin InitStages
  BY <1>1, <1>2 DEF InOrder, Staged, Known, Mutexed
<1>4. ~InCall({"add", "added"} \cup DeleteStages)'
  BY <1>1, <1>3 DEF InCall, Goto, Known, TypeOK, DeleteStages
<1>5. CallsApart'
  BY <1>1, <1>2, <1>4 DEF CallsApart, InCall, Deleting
<1>6. \A i \in Slots \ {0} : table[i].fd = None
  BY <1>2 DEF InOrder, Staged
<1>7. \A f \in Fds : fdCb[f] # None => \E i \in Slots : table[i].fd = f
  BY <1>3 DEF InOrder, NoneLost, InCall
<1>8. maxEventNum > 0
  BY <1>2 DEF Known, TypeOK, TableSized
<1>9. CASE InitEpoll(p)
  <2>1. UNCHANGED <<isInit, maxEventNum, table, fdCb, watched>> /\ Goto(p, "init_heartbeat") /\ callPc[p] = "init_epoll"
    BY <1>9 DEF InitEpoll, tableVars
  <2>2. ~InCall({"init_thread"})'
    BY <1>3, <2>1 DEF InCall, Goto, InitStages, Known, TypeOK
  <2>3. InCall({"init_epoll", "init_heartbeat"})
    BY <2>1 DEF InCall
  <2>4. Staged'
    BY <1>1, <1>2, <1>4, <2>1, <2>2, <2>3 DEF InOrder, Staged
  <2>5. Owned' /\ NoneLost'
    BY <1>7, <2>1 DEF InOrder, Owned, NoneLost
  <2>6. QED BY <1>5, <2>4, <2>5 DEF InOrder
<1>10. CASE InitHeartbeat(p)
  <2>1. PICK f \in Fds : /\ fdCb[f] = None /\ fdCb' = [fdCb EXCEPT ![f] = Heartbeat]
                         /\ table' = [table EXCEPT ![0] = [fd |-> f, cb |-> Heartbeat]]
                         /\ watched' = watched \cup {f}
    BY <1>10, HeartbeatAdded
  <2>2. UNCHANGED <<isInit, maxEventNum>> /\ Goto(p, "init_thread") /\ callPc[p] = "init_heartbeat"
    BY <1>10 DEF InitHeartbeat
  <2>3. table'[0] = [fd |-> f, cb |-> Heartbeat] /\ \A i \in Slots \ {0} : table'[i].fd = None
    BY <1>6, <2>1, Constants DEF Known, TypeOK
  <2>4. \A g \in Fds : fdCb[g] = None
    <3>1. table[0].fd = None
      BY <2>2 DEF InOrder, Staged, InCall
    <3>2. QED BY <1>6, <1>7, <3>1, Constants
  <2>5. ~InCall({"init_epoll", "init_heartbeat"})'
    BY <1>3, <2>2 DEF InCall, Goto, InitStages, Known, TypeOK
  <2>6. Staged'
    BY <1>1, <1>2, <1>4, <1>8, <2>2, <2>3, <2>5, Constants DEF Staged
  <2>7. Owned'
    BY <2>1, <2>3, Constants DEF Owned, Known, TypeOK
  <2>8. NoneLost'
    BY <2>1, <2>3, <2>4, Constants DEF NoneLost, Known, TypeOK
  <2>9. QED BY <1>5, <2>6, <2>7, <2>8 DEF InOrder
<1>11. CASE InitDone(p)
  <2>1. /\ isInit' = TRUE /\ UNCHANGED <<maxEventNum, table, fdCb, watched>> /\ Goto(p, "out")
        /\ callPc[p] = "init_thread"
    BY <1>11 DEF InitDone, tableVars
  <2>2. ~InCall(InitStages)'
    BY <1>3, <2>1 DEF InCall, Goto, InitStages, Known, TypeOK
  <2>3. InCall({"init_thread"}) /\ ~InCall({"init_epoll", "init_heartbeat"})'
    BY <2>1, <2>2 DEF InCall, InitStages
  <2>4. Staged'
    BY <2>1, <2>2, <2>3 DEF InOrder, Staged
  <2>5. Owned' /\ NoneLost'
    BY <1>7, <2>1 DEF InOrder, Owned, NoneLost
  <2>6. QED BY <1>5, <2>4, <2>5 DEF InOrder
<1>12. CASE InitFails(p)
  <2>1. /\ Goto(p, "out") /\ table' = [table EXCEPT ![0] = NoEvent] /\ isInit' = FALSE
        /\ fdCb' = [f \in Fds |-> IF f \in {table[0].fd} \ {None} THEN None ELSE fdCb[f]]
    BY <1>12 DEF InitFails, DeinitCore, CloseTimers
  <2>2. \A i \in Slots : table'[i].fd = None
    BY <1>6, <2>1, Constants DEF Known, TypeOK
  <2>3. \A f \in Fds : fdCb'[f] = None
    BY <1>6, <1>7, <2>1, Constants
  <2>4. ~InCall(InitStages)'
    BY <1>3, <2>1 DEF InCall, Goto, InitStages, Known, TypeOK
  <2>5. ~InCall({"init_epoll", "init_heartbeat"})' /\ ~InCall({"init_thread"})'
    BY <2>4 DEF InCall, InitStages
  <2>6. Staged'
    BY <1>1, <1>2, <2>1, <2>2, <2>4, <2>5 DEF Staged
  <2>7. Owned' /\ NoneLost'
    BY <2>2, <2>3 DEF Owned, NoneLost
  <2>8. QED BY <1>5, <2>6, <2>7 DEF InOrder
<1>13. QED BY <1>9, <1>10, <1>11, <1>12

LEMMA DeinitJoinedKeeps ==
  ASSUME Known, InOrder, NEW p \in Threads, DeinitJoined(p), ~straddled'
  PROVE  InOrder'
<1>1. /\ callPc[p] = "join" /\ Goto(p, "out") /\ ~InCall({"added"})
      /\ isInit' = FALSE /\ handles' = {}
      /\ table' = [i \in Slots |-> IF i \in UsedSlots THEN NoEvent ELSE table[i]]
      /\ \A f \in Fds : fdCb'[f] = IF f \in TableFds \cup ({table[0].fd} \ {None}) THEN None ELSE fdCb[f]
  BY DEF DeinitJoined, DeinitCore, CloseTimers
<1>2. \A i \in Slots : table[i].fd # None => i \in UsedSlots
  BY DEF InOrder, Staged, UsedSlots
<1>3. \A i \in Slots : table'[i].fd = None
  BY <1>1, <1>2, Constants
<1>4. \A f \in Fds : fdCb'[f] = None
  <2>1. ASSUME NEW f \in Fds, fdCb[f] # None PROVE f \in TableFds
    <3>1. PICK i \in Slots : table[i].fd = f
      BY <1>1, <2>1 DEF InOrder, NoneLost, InCall
    <3>2. QED BY <1>2, <3>1, Constants DEF TableFds
  <2>2. QED BY <1>1, <2>1
<1>5. ~InCall(InitStages)'
  BY <1>1 DEF InCall, Goto, Known, Mutexed, TypeOK, InitStages
<1>6. ~InCall({"init_epoll", "init_heartbeat"})' /\ ~InCall({"init_thread"})' /\ ~InCall({"added"})'
  BY <1>1, <1>5 DEF InCall, InitStages, Goto, Known, TypeOK
<1>7. Staged'
  BY <1>1, <1>3, <1>5, <1>6 DEF Staged
<1>8. Owned' /\ NoneLost'
  BY <1>3, <1>4 DEF Owned, NoneLost
<1>9. CallsApart'
  BY <1>1, <1>6 DEF CallsApart, InCall, Deleting
<1>10. QED BY <1>7, <1>8, <1>9 DEF InOrder

\* The calls that leave every timer as it is.
LEMMA QuietCallsKeep ==
  ASSUME Known, InOrder, NEW p \in Threads,
         \/ InitCheck(p) \/ AddFails(p) \/ DeinitBegin(p) \/ \E cb \in Callbacks : AddBegin(p, cb)
  PROVE  InOrder'
<1>1. CASE InitCheck(p)
  <2>1. UNCHANGED <<isInit, maxEventNum, table, fdCb, watched, handles>> /\ callPc[p] \in {"add_check", "delete_check"}
    BY <1>1 DEF InitCheck, tableVars, kernelVars
  <2>2. ~InCall(InitStages)
    BY <1>1, Constants DEF InitCheck, Known, Mutexed, InCall
  <2>3. CASE isInit
    <3>1. UNCHANGED <<callFd, callIdx>>
      BY <1>1, <2>3 DEF InitCheck
    <3>2. CASE callPc[p] = "add_check"
      <4>1. Goto(p, "add")
        BY <1>1, <2>3, <3>2 DEF InitCheck
      <4>2. QED BY <2>1, <2>2, <3>1, <3>2, <4>1, MovedKeeps DEF InitStages, DeleteStages
    <3>3. CASE callPc[p] = "delete_check"
      <4>1. Goto(p, "delete")
        BY <1>1, <2>3, <3>3 DEF InitCheck
      <4>2. QED BY <2>1, <2>2, <3>1, <3>3, <4>1, MovedKeeps DEF InitStages, DeleteStages
    <3>4. QED BY <2>1, <3>2, <3>3
  <2>4. CASE ~isInit
    <3>1. Goto(p, "out") /\ \A q \in Threads \ {p} : callFd'[q] = callFd[q] /\ callIdx'[q] = callIdx[q]
      BY <1>1, <2>4 DEF InitCheck, Return, Known, TypeOK
    <3>2. QED BY <2>1, <3>1, MovedKeeps DEF InitStages, DeleteStages
  <2>5. QED BY <2>3, <2>4
<1>2. CASE AddFails(p)
  <2>1. /\ callPc[p] = "add" /\ Goto(p, "out")
        /\ \A q \in Threads \ {p} : callFd'[q] = callFd[q] /\ callIdx'[q] = callIdx[q]
        /\ UNCHANGED <<isInit, maxEventNum, table, fdCb, watched, handles>>
    BY <1>2 DEF AddFails, Return, Known, TypeOK, tableVars, kernelVars
  <2>2. QED BY <2>1, MovedKeeps DEF InitStages, DeleteStages
<1>3. CASE DeinitBegin(p)
  <2>1. /\ callPc[p] = "out" /\ Goto(p, "join")
        /\ UNCHANGED <<isInit, maxEventNum, table, fdCb, watched, handles, callFd, callIdx>>
    BY <1>3 DEF DeinitBegin, tableVars, argVars
  <2>2. QED BY <2>1, MovedKeeps DEF InitStages, DeleteStages
<1>4. ASSUME NEW cb \in Callbacks, AddBegin(p, cb) PROVE InOrder'
  <2>1. /\ callPc[p] = "out" /\ Goto(p, "add_check")
        /\ UNCHANGED <<isInit, maxEventNum, table, fdCb, watched, handles, callFd, callIdx>>
    BY <1>4 DEF AddBegin, MayCall, tableVars, kernelVars
  <2>2. QED BY <2>1, MovedKeeps DEF InitStages, DeleteStages
<1>5. QED BY <1>1, <1>2, <1>3, <1>4

\* A timer that is to be deleted was handed out, so that it has a slot.
LEMMA DeleteBeginKeeps ==
  ASSUME Known, InOrder, NEW p \in Threads, NEW f \in Fds, DeleteBegin(p, f)
  PROVE  InOrder'
<1>1. /\ callPc[p] = "out" /\ callPc' = [callPc EXCEPT ![p] = "delete_check"]
      /\ f \in handles /\ handles' = handles \ {f} /\ callFd' = [callFd EXCEPT ![p] = f]
      /\ UNCHANGED <<isInit, maxEventNum, table, fdCb, watched, callIdx>>
  BY DEF DeleteBegin, MayCall, Goto, tableVars, kernelVars
<1>2. isInit /\ ~InCall(InitStages) /\ InTable(f)
  BY <1>1 DEF InOrder, Staged, CallsApart, Known, Mutexed, InCall
<1>3. \A q \in Threads : /\ callPc'[q] = IF q = p THEN "delete_check" ELSE callPc[q]
                         /\ callFd'[q] = IF q = p THEN f ELSE callFd[q]
  BY <1>1 DEF Known, TypeOK
<1>4. ~InCall(InitStages)'
  BY <1>2, <1>3 DEF InCall, InitStages
<1>5. Staged'
  <2>1. ~InCall({"init_epoll", "init_heartbeat"})'
    BY <1>4 DEF InCall, InitStages
  <2>2. QED BY <1>1, <1>2, <1>4, <2>1 DEF InOrder, Staged
<1>6. Owned'
  BY <1>1 DEF InOrder, Owned
<1>7. NoneLost'
  BY <1>1, <1>3 DEF InOrder, NoneLost
<1>8. \A q \in Threads \ {p} : /\ callPc'[q] = "added" => callPc[q] = "added" /\ callFd'[q] = callFd[q]
                               /\ Deleting(q)' => Deleting(q) /\ callFd'[q] = callFd[q]
  BY <1>1, <1>3 DEF Deleting
<1>9. \A q \in Threads \ {p} : callPc'[q] = "added" \/ Deleting(q)' => callFd'[q] \notin handles
  BY <1>8 DEF InOrder, CallsApart, Added
<1>10. CallsApart'
  <2>1. (\A g \in handles : InTable(g))'
    BY <1>1 DEF InOrder, CallsApart, InTable
  <2>2. ASSUME NEW q \in Threads, callPc'[q] = "added" PROVE Added(q)'
    BY <1>1, <1>3, <2>2 DEF InOrder, CallsApart, Added, InTable
  <2>3. ASSUME NEW q \in Threads, Deleting(q)' PROVE (callFd[q] \notin handles /\ InTable(callFd[q]))'
    <3>1. CASE q = p
      BY <1>1, <1>2, <1>3, <3>1 DEF InTable
    <3>2. CASE q # p
      BY <1>1, <1>8, <2>3, <3>2 DEF InOrder, CallsApart, InTable
    <3>3. QED BY <3>1, <3>2
  <2>4. ASSUME NEW q \in Threads, NEW r \in Threads, callPc'[q] = "added" \/ Deleting(q)',
               callPc'[r] = "added" \/ Deleting(r)', callFd'[q] = callFd'[r]
        PROVE  q = r
    <3>1. CASE q # p /\ r # p
      BY <1>8, <2>4, <3>1 DEF InOrder, CallsApart
    <3>2. CASE q = p \/ r = p
      BY <1>1, <1>3, <1>9, <2>4, <3>2
    <3>3. QED BY <3>1, <3>2
  <2>5. QED BY <2>1, <2>2, <2>3, <2>4 DEF CallsApart
<1>11. QED BY <1>5, <1>6, <1>7, <1>10 DEF InOrder

\* The descriptor of a new timer was closed: no slot and no call has it.
LEMMA AddInsertKeeps ==
  ASSUME Known, InOrder, NEW p \in Threads, AddInsert(p)
  PROVE  InOrder'
<1>1. /\ callPc[p] = "add" /\ callPc' = [callPc EXCEPT ![p] = "added"]
      /\ UNCHANGED <<isInit, maxEventNum, handles>>
  BY Inserted
<1>2. PICK f \in Fds :
        /\ fdCb[f] = None /\ fdCb' = [fdCb EXCEPT ![f] = callCb[p]]
        /\ callFd' = [callFd EXCEPT ![p] = f]
        /\ \/ /\ callIdx' = [callIdx EXCEPT ![p] = maxEventNum] /\ UNCHANGED <<table, watched>>
           \/ \E s \in Slots : /\ s < maxEventNum /\ table[s].fd = None
                               /\ callIdx' = [callIdx EXCEPT ![p] = s]
                               /\ table' = [table EXCEPT ![s] = [fd |-> f, cb |-> callCb[p]]]
                               /\ watched' = IF epollOpen THEN watched \cup {f} ELSE watched
  BY Inserted
<1>3. callCb[p] \in Callbacks /\ callCb[p] # None
  BY <1>1, Constants DEF Known, CallbacksOnce, TypeOK
<1>4. \A q \in Threads : /\ callPc'[q] = IF q = p THEN "added" ELSE callPc[q]
                         /\ callFd'[q] = IF q = p THEN f ELSE callFd[q]
                         /\ q # p => callIdx'[q] = callIdx[q]
  BY <1>1, <1>2 DEF Known, TypeOK
<1>5. ~InCall(InitStages)
  BY <1>1 DEF InOrder, Staged, InCall
<1>6. ~InCall(InitStages)' /\ ~InCall({"init_epoll", "init_heartbeat"})' /\ ~InCall({"init_thread"})'
  BY <1>4, <1>5 DEF InCall, InitStages
<1>7. \A g \in Fds : fdCb'[g] = IF g = f THEN callCb[p] ELSE fdCb[g]
  BY <1>2 DEF Known, TypeOK
<1>8. \A i \in Slots : table[i].fd # f
  BY <1>2, Constants DEF InOrder, Owned
<1>9. f \notin handles /\ \A q \in Threads : callPc[q] = "added" \/ Deleting(q) => callFd[q] # f
  BY <1>2, <1>8 DEF InOrder, CallsApart, Added, InTable
<1>10. \A i \in Slots : table[i].fd \in Fds \cup {None}
  BY DEF Known, TypeOK, Entry
<1>11. \A q \in Threads \ {p} : /\ callPc'[q] = "added" => callPc[q] = "added" /\ callFd'[q] = callFd[q]
                                /\ Deleting(q)' => Deleting(q) /\ callFd'[q] = callFd[q]
  BY <1>1, <1>4 DEF Deleting
<1>12. ~Deleting(p)' /\ callFd'[p] = f
  BY <1>4 DEF Deleting, DeleteStages
<1>13. ASSUME NEW q \in Threads, NEW r \in Threads, callPc'[q] = "added" \/ Deleting(q)',
              callPc'[r] = "added" \/ Deleting(r)', callFd'[q] = callFd'[r]
       PROVE  q = r
  <2>1. CASE q # p /\ r # p
    BY <1>11, <1>13, <2>1 DEF InOrder, CallsApart
  <2>2. CASE q = p \/ r = p
    BY <1>9, <1>11, <1>12, <1>13, <2>2
  <2>3. QED BY <2>1, <2>2
<1>14. CASE callIdx' = [callIdx EXCEPT ![p] = maxEventNum] /\ UNCHANGED <<table, watched>>
  <2>1. Staged'
    BY <1>1, <1>6, <1>14 DEF InOrder, Staged
  <2>2. Owned'
    BY <1>7, <1>8, <1>10, <1>14 DEF InOrder, Owned
  <2>3. NoneLost'
    BY <1>4, <1>7, <1>14, <1>1 DEF InOrder, NoneLost
  <2>4. callIdx'[p] = maxEventNum'
    BY <1>1, <1>14 DEF Known, TypeOK
  <2>5. ASSUME NEW q \in Threads, callPc'[q] = "added" PROVE Added(q)'
    <3>1. CASE q = p
      BY <1>3, <1>7, <1>8, <1>9, <1>1, <1>12, <1>14, <2>4, <3>1 DEF Added
    <3>2. CASE q # p
      <4>1. Added(q) /\ callFd'[q] = callFd[q] /\ callIdx'[q] = callIdx[q]
        BY <1>4, <1>11, <2>5, <3>2 DEF InOrder, CallsApart
      <4>2. QED BY <1>1, <1>2, <1>7, <1>14, <4>1 DEF Added, InTable
    <3>3. QED BY <3>1, <3>2
  <2>6. ASSUME NEW q \in Threads, Deleting(q)' PROVE (callFd[q] \notin handles /\ InTable(callFd[q]))'
    BY <1>1, <1>11, <1>12, <1>14, <2>6 DEF InOrder, CallsApart, InTable
  <2>7. (\A g \in handles : InTable(g))'
    BY <1>1, <1>14 DEF InOrder, CallsApart, InTable
  <2>8. CallsApart'
    BY <1>13, <2>5, <2>6, <2>7 DEF CallsApart
  <2>9. QED BY <2>1, <2>2, <2>3, <2>8 DEF InOrder
<1>15. ASSUME NEW s \in Slots, s < maxEventNum, table[s].fd = None,
              callIdx' = [callIdx EXCEPT ![p] = s],
              table' = [table EXCEPT ![s] = [fd |-> f, cb |-> callCb[p]]],
              watched' = IF epollOpen THEN watched \cup {f} ELSE watched
       PROVE  InOrder'
  <2>1. \A i \in Slots : table'[i] = IF i = s THEN [fd |-> f, cb |-> callCb[p]] ELSE table[i]
    BY <1>15 DEF Known, TypeOK
  <2>2. isInit /\ epollOpen
    <3>1. maxEventNum # 0
      BY <1>15, ConstantsAssumption DEF Slots
    <3>2. QED BY <1>5, <3>1 DEF Known, TableSized, Mutexed
  <2>3. s # 0
    BY <1>15, <2>2 DEF InOrder, Staged
  <2>4. \A g \in Fds : g # f => (InTable(g)' <=> InTable(g))
    BY <1>15, <2>1, Constants DEF InTable
  <2>5. InTable(f)'
    BY <2>1, <2>3 DEF InTable
  <2>6. Staged'
    BY <1>1, <1>6, <1>15, <2>1, <2>2, <2>3, Constants DEF InOrder, Staged
  <2>7. Owned'
    <3>1. ASSUME NEW i \in Slots, table'[i].fd # None
          PROVE  /\ fdCb'[table'[i].fd] = table'[i].cb /\ fdCb'[table'[i].fd] # None
                 /\ table'[i].fd \in watched'
                 /\ \A j \in Slots : table'[j].fd = table'[i].fd => j = i
      <4>1. CASE i = s
        BY <1>3, <1>7, <1>8, <1>15, <2>1, <2>2, <4>1
      <4>2. CASE i # s
        BY <1>7, <1>8, <1>10, <1>15, <2>1, <2>2, <3>1, <4>2 DEF InOrder, Owned
      <4>3. QED BY <4>1, <4>2
    <3>2. QED BY <3>1 DEF Owned
  <2>8. NoneLost'
    <3>1. ASSUME NEW g \in Fds, fdCb'[g] # None, g # f
          PROVE  \/ \E i \in Slots : table'[i].fd = g
                 \/ \E q \in Threads : callPc'[q] = "added" /\ callFd'[q] = g
      <4>1. \/ \E i \in Slots : table[i].fd = g
            \/ \E q \in Threads : callPc[q] = "added" /\ callFd[q] = g
        BY <1>7, <3>1 DEF InOrder, NoneLost
      <4>2. QED BY <1>1, <1>4, <1>15, <2>1, <4>1, Constants
    <3>2. QED BY <2>1, <3>1 DEF NoneLost
  <2>9. callIdx'[p] = s /\ s # maxEventNum'
    BY <1>1, <1>15, ConstantsAssumption DEF Known, TypeOK, Slots
  <2>10. ASSUME NEW q \in Threads, callPc'[q] = "added" PROVE Added(q)'
    <3>1. CASE q = p
      BY <1>1, <1>3, <1>7, <1>9, <1>12, <2>2, <2>5, <2>9, <3>1 DEF Added
    <3>2. CASE q # p
      <4>1. Added(q) /\ callFd'[q] = callFd[q] /\ callIdx'[q] = callIdx[q] /\ callFd[q] # f
        BY <1>4, <1>9, <1>11, <2>10, <3>2 DEF InOrder, CallsApart
      <4>2. callFd[q] \in Fds /\ (InTable(callFd[q])' <=> InTable(callFd[q]))
        BY <2>4, <4>1 DEF Added
      <4>3. QED BY <1>1, <1>7, <2>1, <4>1, <4>2, <2>4 DEF Added, InTable
    <3>3. QED BY <3>1, <3>2
  <2>11. ASSUME NEW q \in Threads, Deleting(q)' PROVE (callFd[q] \notin handles /\ InTable(callFd[q]))'
    <3>1. q # p /\ Deleting(q) /\ callFd'[q] = callFd[q] /\ callFd[q] # f
      BY <1>9, <1>11, <1>12, <2>11
    <3>2. callFd[q] \notin handles /\ InTable(callFd[q])
      BY <3>1 DEF InOrder, CallsApart
    <3>3. PICK i \in Slots \ {0} : table[i].fd = callFd[q]
      BY <3>2 DEF InTable
    <3>4. callFd[q] # None
      BY <3>1, Constants DEF Deleting, Known, CallsHaveTimers
    <3>5. QED BY <1>1, <1>15, <2>1, <3>1, <3>2, <3>3, <3>4 DEF InTable
  <2>12. (\A g \in handles : InTable(g))'
    BY <1>1, <1>9, <2>4 DEF InOrder, CallsApart, Known, TypeOK
  <2>13. CallsApart'
    BY <1>13, <2>10, <2>11, <2>12 DEF CallsApart
  <2>14. QED BY <2>6, <2>7, <2>8, <2>13 DEF InOrder
<1>16. QED BY <1>2, <1>14, <1>15

\* A timer without a slot is closed, one with a slot is handed out.
LEMMA AddReturnKeeps ==
  ASSUME Known, InOrder, NEW p \in Threads, AddReturn(p)
  PROVE  InOrder'
<1>1. /\ callPc[p] = "added" /\ Return(p)
      /\ UNCHANGED <<isInit, maxEventNum, table>>
      /\ \/ /\ callIdx[p] = maxEventNum /\ UNCHANGED handles
            /\ fdCb' = [f \in Fds |-> IF f \in {callFd[p]} THEN None ELSE fdCb[f]]
            /\ watched' = watched \ {callFd[p]}
         \/ callIdx[p] # maxEventNum /\ handles' = handles \cup {callFd[p]} /\ UNCHANGED <<fdCb, watched>>
  BY DEF AddReturn, CloseTimers, tableVars, kernelVars
<1>2. Added(p) /\ callFd[p] \in Fds
  BY <1>1 DEF InOrder, CallsApart, Added
<1>3. \A q \in Threads : /\ callPc'[q] = IF q = p THEN "out" ELSE callPc[q]
                         /\ q # p => callFd'[q] = callFd[q] /\ callIdx'[q] = callIdx[q]
  BY <1>1 DEF Return, Goto, Known, TypeOK
<1>4. ~InCall(InitStages)
  BY <1>1 DEF InOrder, Staged, InCall
<1>5. ~InCall(InitStages)' /\ ~InCall({"init_epoll", "init_heartbeat"})' /\ ~InCall({"init_thread"})'
  BY <1>3, <1>4 DEF InCall, InitStages
<1>6. \A q \in Threads : /\ callPc'[q] = "added" => q # p /\ callPc[q] = "added"
                         /\ Deleting(q)' => q # p /\ Deleting(q)
  BY <1>1, <1>3 DEF Deleting, DeleteStages
<1>7. \A q \in Threads : callPc'[q] = "added" \/ Deleting(q)' => callFd[q] # callFd[p]
  BY <1>1, <1>6 DEF InOrder, CallsApart
<1>8. ASSUME NEW q \in Threads, NEW r \in Threads, callPc'[q] = "added" \/ Deleting(q)',
             callPc'[r] = "added" \/ Deleting(r)', callFd'[q] = callFd'[r]
      PROVE  q = r
  BY <1>3, <1>6, <1>8 DEF InOrder, CallsApart
<1>9. CASE /\ callIdx[p] = maxEventNum /\ UNCHANGED handles
           /\ fdCb' = [f \in Fds |-> IF f \in {callFd[p]} THEN None ELSE fdCb[f]]
           /\ watched' = watched \ {callFd[p]}
  <2>1. \A i \in Slots : table[i].fd # callFd[p]
    BY <1>2, <1>9 DEF Added
  <2>2. Staged'
    BY <1>1, <1>5, <1>9 DEF InOrder, Staged
  <2>3. \A i \in Slots : table[i].fd \in Fds \cup {None}
    BY DEF Known, TypeOK, Entry
  <2>4. Owned'
    BY <1>1, <1>9, <2>1, <2>3 DEF InOrder, Owned
  <2>5. NoneLost'
    <3>1. ASSUME NEW f \in Fds, fdCb'[f] # None
          PROVE  \/ \E i \in Slots : table'[i].fd = f
                 \/ \E q \in Threads : callPc'[q] = "added" /\ callFd'[q] = f
      <4>1. f # callFd[p] /\ fdCb[f] # None
        BY <1>9, <3>1
      <4>2. QED BY <1>1, <1>3, <4>1 DEF InOrder, NoneLost
    <3>2. QED BY <3>1 DEF NoneLost
  <2>6. ASSUME NEW q \in Threads, callPc'[q] = "added" PROVE Added(q)'
    <3>1. q # p /\ Added(q) /\ callFd[q] # callFd[p] /\ callFd'[q] = callFd[q] /\ callIdx'[q] = callIdx[q]
      BY <1>3, <1>6, <1>7, <2>6 DEF InOrder, CallsApart
    <3>2. QED BY <1>1, <1>9, <3>1 DEF Added, InTable
  <2>7. ASSUME NEW q \in Threads, Deleting(q)' PROVE (callFd[q] \notin handles /\ InTable(callFd[q]))'
    BY <1>1, <1>3, <1>6, <1>9, <2>7 DEF InOrder, CallsApart, InTable
  <2>8. (\A f \in handles : InTable(f))'
    BY <1>1, <1>9 DEF InOrder, CallsApart, InTable
  <2>9. CallsApart'
    BY <1>8, <2>6, <2>7, <2>8 DEF CallsApart
  <2>10. QED BY <2>2, <2>4, <2>5, <2>9 DEF InOrder
<1>10. CASE callIdx[p] # maxEventNum /\ handles' = handles \cup {callFd[p]} /\ UNCHANGED <<fdCb, watched>>
  <2>1. isInit /\ InTable(callFd[p])
    BY <1>2, <1>10 DEF Added
  <2>2. Staged'
    BY <1>1, <1>5, <1>10, <2>1 DEF InOrder, Staged
  <2>3. Owned'
    BY <1>1, <1>10 DEF InOrder, Owned
  <2>4. NoneLost'
    <3>1. \E i \in Slots : table[i].fd = callFd[p]
      BY <2>1 DEF InTable
    <3>2. QED BY <1>1, <1>3, <1>10, <3>1 DEF InOrder, NoneLost
  <2>5. ASSUME NEW q \in Threads, callPc'[q] = "added" PROVE Added(q)'
    <3>1. q # p /\ Added(q) /\ callFd[q] # callFd[p] /\ callFd'[q] = callFd[q] /\ callIdx'[q] = callIdx[q]
      BY <1>3, <1>6, <1>7, <2>5 DEF InOrder, CallsApart
    <3>2. QED BY <1>1, <1>10, <3>1 DEF Added, InTable
  <2>6. ASSUME NEW q \in Threads, Deleting(q)' PROVE (callFd[q] \notin handles /\ InTable(callFd[q]))'
    BY <1>1, <1>3, <1>6, <1>7, <1>10, <2>6 DEF InOrder, CallsApart, InTable
  <2>7. (\A f \in handles : InTable(f))'
    BY <1>1, <1>10, <2>1 DEF InOrder, CallsApart, InTable
  <2>8. CallsApart'
    BY <1>8, <2>5, <2>6, <2>7 DEF CallsApart
  <2>9. QED BY <2>2, <2>3, <2>4, <2>8 DEF InOrder
<1>11. QED BY <1>1, <1>9, <1>10

\* The timer that is closed had one slot, which is cleared, and not slot 0.
LEMMA DeleteKeeps ==
  ASSUME Known, InOrder, NEW p \in Threads, Delete(p)
  PROVE  InOrder'
<1>1. /\ callPc[p] = "delete" /\ Return(p) /\ UNCHANGED <<isInit, maxEventNum, handles>>
  BY Deleted
<1>2. callFd[p] \in Fds /\ callFd[p] # None
  BY <1>1, Constants DEF Known, CallsHaveTimers, DeleteStages
<1>3. \A q \in Threads : /\ callPc'[q] = IF q = p THEN "out" ELSE callPc[q]
                         /\ q # p => callFd'[q] = callFd[q] /\ callIdx'[q] = callIdx[q]
  BY <1>1 DEF Return, Goto, Known, TypeOK
<1>4. CASE UNCHANGED <<table, kernelVars, deleted>>
  <2>1. Goto(p, "out") /\ UNCHANGED <<fdCb, watched>>
    BY <1>1, <1>4 DEF Return, kernelVars
  <2>2. QED BY <1>1, <1>3, <1>4, <2>1, MovedKeeps DEF InitStages, DeleteStages
<1>5. ASSUME NEW s \in Slots, s < maxEventNum, table[s].fd = callFd[p],
             table' = [i \in Slots |-> IF i = s THEN NoEvent ELSE table[i]], CloseTimers({callFd[p]})
      PROVE  InOrder'
  <2>1. ~InCall(InitStages)
    BY <1>1 DEF InOrder, Staged, InCall, DeleteStages
  <2>2. isInit
    <3>1. maxEventNum # 0
      BY <1>5, ConstantsAssumption DEF Slots
    <3>2. QED BY <2>1, <3>1 DEF Known, TableSized
  <2>3. Deleting(p)
    BY <1>1, <2>2 DEF Deleting, DeleteStages
  <2>4. callFd[p] \notin handles /\ s # 0 /\ \A i \in Slots \ {s} : table[i].fd # callFd[p]
    <3>1. InTable(callFd[p]) /\ callFd[p] \notin handles
      BY <2>3 DEF InOrder, CallsApart
    <3>2. \A i \in Slots : table[i].fd = callFd[p] => i = s
      BY <1>2, <1>5 DEF InOrder, Owned
    <3>3. QED BY <3>1, <3>2 DEF InTable
  <2>5. ~InCall(InitStages)' /\ ~InCall({"init_epoll", "init_heartbeat"})' /\ ~InCall({"init_thread"})'
    BY <1>3, <2>1 DEF InCall, InitStages
  <2>6. \A i \in Slots : table'[i] = IF i = s THEN NoEvent ELSE table[i]
    BY <1>5
  <2>7. /\ \A f \in Fds : fdCb'[f] = IF f = callFd[p] THEN None ELSE fdCb[f]
        /\ watched' = watched \ {callFd[p]}
    BY <1>5 DEF CloseTimers
  <2>8. \A q \in Threads : /\ callPc'[q] = "added" => q # p /\ callPc[q] = "added"
                           /\ Deleting(q)' => q # p /\ Deleting(q)
    BY <1>1, <1>3 DEF Deleting, DeleteStages
  <2>9. \A q \in Threads : callPc'[q] = "added" \/ Deleting(q)' => callFd[q] # callFd[p]
    BY <2>3, <2>8 DEF InOrder, CallsApart
  <2>10. \A f \in Fds : f # callFd[p] => (InTable(f)' <=> InTable(f))
    BY <1>2, <1>5, <2>6, Constants DEF InTable
  <2>11. \A i \in Slots : table[i].fd \in Fds \cup {None}
    BY DEF Known, TypeOK, Entry
  <2>12. Staged'
    BY <1>1, <2>2, <2>4, <2>5, <2>6, Constants DEF InOrder, Staged
  <2>13. Owned'
    <3>1. ASSUME NEW i \in Slots, table'[i].fd # None
          PROVE  /\ fdCb'[table'[i].fd] = table'[i].cb /\ fdCb'[table'[i].fd] # None
                 /\ table'[i].fd \in watched'
                 /\ \A j \in Slots : table'[j].fd = table'[i].fd => j = i
      <4>1. i # s /\ table'[i] = table[i] /\ table[i].fd # callFd[p] /\ table[i].fd \in Fds
        BY <2>4, <2>6, <2>11, <3>1, Constants
      <4>2. /\ fdCb[table[i].fd] = table[i].cb /\ fdCb[table[i].fd] # None
            /\ table[i].fd \in watched
            /\ \A j \in Slots : table[j].fd = table[i].fd => j = i
        BY <3>1, <4>1 DEF InOrder, Owned
      <4>3. QED BY <2>6, <2>7, <3>1, <4>1, <4>2, Constants
    <3>2. QED BY <3>1 DEF Owned
  <2>14. NoneLost'
    <3>1. ASSUME NEW f \in Fds, fdCb'[f] # None
          PROVE  \/ \E i \in Slots : table'[i].fd = f
                 \/ \E q \in Threads : callPc'[q] = "added" /\ callFd'[q] = f
      <4>1. f # callFd[p] /\ fdCb[f] # None
        BY <2>7, <3>1
      <4>2. \/ \E i \in Slots : table[i].fd = f
            \/ \E q \in Threads : callPc[q] = "added" /\ callFd[q] = f
        BY <4>1 DEF InOrder, NoneLost
      <4>3. QED BY <1>1, <1>3, <1>5, <2>6, <4>1, <4>2
    <3>2. QED BY <3>1 DEF NoneLost
  <2>15. ASSUME NEW q \in Threads, callPc'[q] = "added" PROVE Added(q)'
    <3>1. q # p /\ Added(q) /\ callFd[q] # callFd[p] /\ callFd'[q] = callFd[q] /\ callIdx'[q] = callIdx[q]
      BY <1>3, <2>8, <2>9, <2>15 DEF InOrder, CallsApart
    <3>2. /\ callFd[q] \in Fds /\ callFd[q] # None /\ (InTable(callFd[q])' <=> InTable(callFd[q]))
          /\ \A i \in Slots : table'[i].fd = callFd[q] => table[i].fd = callFd[q]
      BY <2>6, <2>10, <3>1, Constants DEF Added
    <3>3. QED BY <1>1, <2>7, <3>1, <3>2 DEF Added, InTable
  <2>16. ASSUME NEW q \in Threads, Deleting(q)' PROVE (callFd[q] \notin handles /\ InTable(callFd[q]))'
    <3>1. q # p /\ Deleting(q) /\ callFd'[q] = callFd[q] /\ callFd[q] # callFd[p] /\ callFd[q] \in Fds
      BY <1>3, <2>8, <2>9, <2>16 DEF Known, CallsHaveTimers, Deleting
    <3>2. QED BY <1>1, <2>10, <3>1 DEF InOrder, CallsApart, InTable
  <2>17. (\A f \in handles : InTable(f))'
    BY <1>1, <2>4, <2>10 DEF InOrder, CallsApart, Known, TypeOK
  <2>18. ASSUME NEW q \in Threads, NEW r \in Threads, callPc'[q] = "added" \/ Deleting(q)',
                callPc'[r] = "added" \/ Deleting(r)', callFd'[q] = callFd'[r]
         PROVE  q = r
    BY <1>3, <2>8, <2>18 DEF InOrder, CallsApart
  <2>19. CallsApart'
    BY <2>15, <2>16, <2>17, <2>18 DEF CallsApart
  <2>20. QED BY <2>12, <2>13, <2>14, <2>19 DEF InOrder
<1>6. QED BY <1>4, <1>5, Deleted

LEMMA TimersStep ==
  ASSUME Known, TimersKept, Next \/ UNCHANGED vars
  PROVE  TimersKept'
<1> SUFFICES ASSUME ~straddled' PROVE InOrder'
  BY DEF TimersKept, InOrder
<1>1. CASE UNCHANGED settledVars
  <2>1. InOrder
    BY <1>1 DEF TimersKept, InOrder, settledVars, historyVars
  <2>2. QED
    BY <1>1, <2>1 DEF InOrder, Staged, Owned, CallsApart, Added, Deleting, InTable, NoneLost, InCall, settledVars,
      tableVars, callVars, argVars
<1>2. ASSUME NEW p \in Threads,
             \/ InitEpoll(p) \/ InitHeartbeat(p) \/ InitDone(p) \/ InitFails(p) \/ DeinitJoined(p)
             \/ InitCheck(p) \/ AddInsert(p) \/ AddFails(p) \/ AddReturn(p) \/ Delete(p)
             \/ InitInvalid(p) \/ DeinitBegin(p)
             \/ \E n \in 1 .. EventNumMax : InitBegin(p, n)
             \/ \E cb \in Callbacks : AddBegin(p, cb)
             \/ \E f \in Fds : DeleteBegin(p, f)
      PROVE  InOrder'
  <2>1. ~straddled
    <3>1. CASE UNCHANGED straddled
      BY <3>1
    <3>2. CASE DeinitJoined(p) \/ \E n \in 1 .. EventNumMax : InitBegin(p, n)
      BY <3>2 DEF DeinitJoined, InitBegin, InitData
    <3>3. CASE InitEpoll(p) \/ InitHeartbeat(p) \/ InitDone(p) \/ InitFails(p) \/ InitInvalid(p) \/ DeinitBegin(p)
      BY <3>3 DEF InitEpoll, InitHeartbeat, InitDone, InitFails, InitInvalid, DeinitBegin, historyVars
    <3>4. QED BY <1>2, <3>1, <3>2, <3>3, CallMoves
  <2>2. InOrder
    BY <2>1 DEF TimersKept, InOrder
  <2>3. QED BY <1>2, <2>2, InitBeginKeeps, InitInvalidKeeps, InitStagesKeep, DeinitJoinedKeeps, QuietCallsKeep,
      DeleteBeginKeeps, AddInsertKeeps, AddReturnKeeps, DeleteKeeps
<1>3. QED BY <1>1, <1>2, StepCases
-------------------------------------------------------------------------------
(***************************************************************************)
(* A round of the handler.                                                 *)
(***************************************************************************)

\* What every step but epoll_wait leaves of a timer that is neither closed nor
\* set anew.
LEMMA KernelStays ==
  ASSUME Known, WatchedOpen, Next \/ UNCHANGED vars, ~HandlerWait
  PROVE  /\ touched \subseteq touched'
         /\ \A f \in watched \ touched' : f \in watched' /\ fdCb'[f] = fdCb[f]
         /\ \A f \in ready \ touched' : f \in ready' \/ HandlerRead(f)
<1>1. CASE \/ UNCHANGED vars \/ Tick \/ HandlerCheck \/ HandlerWaitFails \/ HandlerCopy \/ HandlerReturn
           \/ \E f \in Fds : Expire(f)
  BY <1>1 DEF vars, kernelVars, Tick, HandlerCheck, Loop, HandlerWaitFails, HandlerCopy, HandlerReturn, Expire
<1>2. CASE \E f \in Fds : HandlerRead(f)
  BY <1>2 DEF HandlerRead, Dispatch
<1>3. ASSUME NEW p \in Threads,
             \/ InitEpoll(p) \/ InitCheck(p) \/ AddFails(p) \/ InitInvalid(p)
             \/ \E n \in 1 .. EventNumMax : InitBegin(p, n)
             \/ \E cb \in Callbacks : AddBegin(p, cb)
             \/ \E f \in Fds : DeleteBegin(p, f)
      PROVE  UNCHANGED <<fdCb, watched, ready, touched>>
  BY <1>3 DEF InitEpoll, InitCheck, AddFails, InitInvalid, InitBegin, InitData, AddBegin, DeleteBegin, kernelVars
<1>4. ASSUME NEW p \in Threads, InitHeartbeat(p) \/ AddInsert(p)
      PROVE  /\ watched \subseteq watched' /\ UNCHANGED <<ready, touched>>
             /\ \E f \in Fds : \E cb : fdCb[f] = None /\ fdCb' = [fdCb EXCEPT ![f] = cb]
  <2>1. CASE InitHeartbeat(p)
    BY <2>1, HeartbeatAdded DEF InitHeartbeat
  <2>2. CASE AddInsert(p)
    BY <2>2, Inserted
  <2>3. QED BY <1>4, <2>1, <2>2
<1>5. ASSUME NEW f, NEW t, NEW period, SetTimer(f, t, period), UNCHANGED <<fdCb, watched>>
      PROVE  /\ touched \subseteq touched' /\ UNCHANGED <<fdCb, watched>>
             /\ \A g \in ready \ touched' : g \in ready'
  BY <1>5 DEF SetTimer
<1>6. ASSUME NEW p \in Threads,
             \/ InitDone(p) \/ DeinitBegin(p)
             \/ \E f \in Fds, t \in StartTimes, period \in BOOLEAN : Set(p, f, t, period)
      PROVE  /\ touched \subseteq touched' /\ UNCHANGED <<fdCb, watched>>
             /\ \A g \in ready \ touched' : g \in ready'
  BY <1>5, <1>6 DEF InitDone, DeinitBegin, Set
<1>7. ASSUME NEW fds, CloseTimers(fds)
      PROVE  /\ touched \subseteq touched' /\ \A f \in ready \ touched' : f \in ready'
             /\ \A f \in watched \ touched' : f \in watched' /\ fdCb'[f] = fdCb[f]
  <2>1. watched \subseteq Fds
    BY DEF Known, TypeOK
  <2>2. QED BY <1>7, <2>1 DEF CloseTimers
<1>8. ASSUME NEW p \in Threads, InitFails(p) \/ DeinitJoined(p) \/ AddReturn(p) \/ Delete(p)
      PROVE  UNCHANGED kernelVars \/ \E fds : CloseTimers(fds)
  BY <1>8, Deleted DEF InitFails, DeinitJoined, DeinitCore, AddReturn
<1>9. CASE \E p \in Threads : InitHeartbeat(p) \/ AddInsert(p)
  <2>1. PICK f \in Fds : \E cb : fdCb[f] = None /\ fdCb' = [fdCb EXCEPT ![f] = cb]
    BY <1>4, <1>9
  <2>2. \A g \in watched : g \in Fds /\ g # f
    BY <2>1 DEF WatchedOpen, Known, TypeOK
  <2>3. QED BY <1>4, <1>9, <2>1, <2>2 DEF Known, TypeOK
<1>10. CASE \E p \in Threads : InitFails(p) \/ DeinitJoined(p) \/ AddReturn(p) \/ Delete(p)
  BY <1>7, <1>8, <1>10 DEF kernelVars
<1>11. QED BY <1>1, <1>2, <1>3, <1>6, <1>9, <1>10, NextCases

LEMMA WatchedStep ==
  ASSUME Known, WatchedOpen, Next \/ UNCHANGED vars
  PROVE  WatchedOpen'
<1>1. CASE UNCHANGED settledVars
  BY <1>1 DEF WatchedOpen, settledVars
<1>2. ASSUME NEW p \in Threads, InitHeartbeat(p) PROVE WatchedOpen'
  BY <1>2, HeartbeatAdded, Constants DEF WatchedOpen, Known, TypeOK
<1>3. ASSUME NEW p \in Threads, AddInsert(p) PROVE WatchedOpen'
  <2>1. callCb[p] # None
    BY <1>3, Inserted, Constants DEF Known, TypeOK, CallbacksOnce
  <2>2. PICK f \in Fds : fdCb' = [fdCb EXCEPT ![f] = callCb[p]] /\ watched' \subseteq watched \cup {f}
    BY <1>3, Inserted
  <2>3. QED BY <2>1, <2>2 DEF WatchedOpen, Known, TypeOK
<1>4. ASSUME NEW fds, CloseTimers(fds) PROVE WatchedOpen'
  BY <1>4 DEF WatchedOpen, CloseTimers, Known, TypeOK
<1>5. ASSUME NEW p \in Threads, InitFails(p) \/ DeinitJoined(p) \/ AddReturn(p) \/ Delete(p)
      PROVE  UNCHANGED kernelVars \/ \E fds : CloseTimers(fds)
  BY <1>5, Deleted DEF InitFails, DeinitJoined, DeinitCore, AddReturn
<1>6. ASSUME NEW p \in Threads, InitFails(p) \/ DeinitJoined(p) \/ AddReturn(p) \/ Delete(p) PROVE WatchedOpen'
  BY <1>4, <1>5, <1>6 DEF WatchedOpen, kernelVars
<1>7. ASSUME NEW p \in Threads,
             \/ InitEpoll(p) \/ InitDone(p) \/ DeinitBegin(p) \/ InitCheck(p) \/ AddFails(p) \/ InitInvalid(p)
             \/ \E n \in 1 .. EventNumMax : InitBegin(p, n)
             \/ \E cb \in Callbacks : AddBegin(p, cb)
             \/ \E f \in Fds : DeleteBegin(p, f)
      PROVE  WatchedOpen'
  BY <1>7 DEF InitEpoll, InitDone, DeinitBegin, InitCheck, AddFails, InitInvalid, InitBegin, InitData, AddBegin,
    DeleteBegin, kernelVars, WatchedOpen
<1>8. QED BY <1>1, <1>2, <1>3, <1>6, <1>7, StepCases

\* What the other threads leave of the handler.
LEMMA HandlerStays ==
  ASSUME Known, Next \/ UNCHANGED vars
  PROVE  \/ HandlerStep
         \/ /\ UNCHANGED <<events, copy, calling, taken, stale>> /\ (straddled => straddled')
            /\ handlerPc' = handlerPc \/ handlerPc' \in {"check", "none"}
<1>1. CASE \/ UNCHANGED vars \/ Tick
           \/ \E f \in Fds : Expire(f)
           \/ \E p \in Threads, f \in Fds, t \in StartTimes, period \in BOOLEAN : Set(p, f, t, period)
  BY <1>1 DEF vars, handlerVars, historyVars, Tick, Expire, Set
<1>2. ASSUME NEW p \in Threads, InitDone(p) \/ DeinitJoined(p)
      PROVE  /\ UNCHANGED <<events, copy, calling, taken, stale>> /\ (straddled => straddled')
             /\ handlerPc' \in {"check", "none"}
  <2>1. UNCHANGED straddled \/ straddled' = (straddled \/ InCall({"added"}))
    BY <1>2 DEF InitDone, DeinitJoined, historyVars
  <2>2. straddled => straddled'
    BY <2>1, Zenon
  <2>3. QED BY <1>2, <2>2 DEF InitDone, DeinitJoined
<1>3. ASSUME NEW p \in Threads,
             \/ InitEpoll(p) \/ InitHeartbeat(p) \/ InitFails(p) \/ DeinitBegin(p) \/ InitInvalid(p)
             \/ \E n \in 1 .. EventNumMax : InitBegin(p, n)
      PROVE  UNCHANGED handlerVars /\ (straddled => straddled')
  <2>1. \/ UNCHANGED straddled
        \/ straddled' = (straddled \/ InCall({"add", "added", "delete_check", "delete"}))
    BY <1>3 DEF InitEpoll, InitHeartbeat, InitFails, DeinitBegin, InitInvalid, InitBegin, InitData, historyVars
  <2>2. straddled => straddled'
    BY <2>1, Zenon
  <2>3. QED
    BY <1>3, <2>2 DEF InitEpoll, InitHeartbeat, InitFails, DeinitBegin, InitInvalid, InitBegin, InitData
<1>4. ASSUME NEW p \in Threads,
             \/ InitCheck(p) \/ AddInsert(p) \/ AddFails(p) \/ AddReturn(p) \/ Delete(p)
             \/ \E cb \in Callbacks : AddBegin(p, cb)
             \/ \E f \in Fds : DeleteBegin(p, f)
      PROVE  UNCHANGED <<handlerVars, straddled>>
  BY <1>4, Deleted DEF InitCheck, AddInsert, AddFails, AddReturn, AddBegin, DeleteBegin, historyVars
<1>5. CASE HandlerStep
  BY <1>5
<1>6. QED BY <1>1, <1>2, <1>3, <1>4, <1>5, NextCases DEF handlerVars, HandlerStep

LEMMA CopyStep ==
  ASSUME Known, CopyKept, Next \/ UNCHANGED vars
  PROVE  CopyKept'
<1>1. ASSUME UNCHANGED <<copy, calling, stale>>, handlerPc' = handlerPc \/ handlerPc' \in {"check", "none"}
      PROVE  CopyKept'
  BY <1>1 DEF CopyKept
<1>2. CASE HandlerCheck \/ HandlerWait \/ HandlerWaitFails
  BY <1>2 DEF HandlerCheck, Loop, HandlerWait, HandlerWaitFails, CopyKept
<1>3. CASE HandlerCopy
  <2>1. copy' = table /\ stale' = deleted /\ handlerPc' = "read"
    BY <1>3 DEF HandlerCopy
  <2>2. \A i \in Slots : table[i].cb \notin deleted
    BY DEF Known, CallbacksOnce, TypeOK
  <2>3. QED BY <2>1, <2>2 DEF CopyKept
<1>4. ASSUME NEW f \in Fds, HandlerRead(f) PROVE CopyKept'
  <2>1. CASE SlotOf(copy, f) = {}
    <3>1. handlerPc = "read" /\ (handlerPc' = "check" \/ (handlerPc' = "read" /\ UNCHANGED <<copy, stale>>))
      BY <1>4, <2>1 DEF HandlerRead, Dispatch, NextEvent
    <3>2. QED BY <3>1 DEF CopyKept
  <2>2. CASE SlotOf(copy, f) # {}
    <3>1. calling' = copy[Min(SlotOf(copy, f))] /\ handlerPc = "read" /\ UNCHANGED <<copy, stale>>
      BY <1>4, <2>2 DEF HandlerRead, Dispatch
    <3>2. PICK s \in Slots : s = Min(SlotOf(copy, f)) /\ copy[s].fd = f
      BY <2>2, SlotFound
    <3>3. QED BY <3>1, <3>2, Constants DEF CopyKept
  <2>3. QED BY <2>1, <2>2
<1>5. CASE HandlerReturn
  <2>1. handlerPc = "callback" /\ (handlerPc' = "check" \/ (handlerPc' = "read" /\ UNCHANGED <<copy, stale>>))
    BY <1>5 DEF HandlerReturn, NextEvent
  <2>2. QED BY <2>1 DEF CopyKept
<1>6. QED BY <1>1, <1>2, <1>3, <1>4, <1>5, HandlerStays DEF HandlerStep

LEMMA RoundStep ==
  ASSUME Known, WatchedOpen, TimersKept, RoundKept, Next \/ UNCHANGED vars
  PROVE  RoundKept'
<1>1. CASE HandlerWait
  BY <1>1 DEF HandlerWait, RoundKept
<1>2. CASE HandlerCheck \/ HandlerWaitFails
  BY <1>2 DEF HandlerCheck, Loop, HandlerWaitFails, RoundKept
<1>3. CASE HandlerCopy
  <2>1. /\ handlerPc = "copy" /\ handlerPc' = "read" /\ copy' = table
        /\ UNCHANGED <<events, touched, ready, watched, fdCb, straddled>>
    BY <1>3 DEF HandlerCopy, kernelVars, historyVars
  <2>2. ~straddled => \A i \in Slots : table[i].fd # None => fdCb[table[i].fd] = table[i].cb
    BY DEF TimersKept, Owned
  <2>3. \A f \in events : f # None
    BY Constants DEF Known, TypeOK
  <2>4. QED BY <2>1, <2>2, <2>3 DEF RoundKept
<1>4. ASSUME NEW f \in Fds, HandlerRead(f) PROVE RoundKept'
  <2>1. /\ handlerPc = "read" /\ f \in events /\ events' = events \ {f} /\ ready' = ready \ {f}
        /\ UNCHANGED <<watched, touched, fdCb, straddled>>
    BY <1>4 DEF HandlerRead, Dispatch, historyVars
  <2>2. CASE SlotOf(copy, f) = {}
    <3>1. handlerPc' = "check" \/ (handlerPc' = "read" /\ UNCHANGED copy)
      BY <1>4, <2>2 DEF HandlerRead, Dispatch, NextEvent
    <3>2. QED BY <2>1, <3>1 DEF RoundKept
  <2>3. CASE SlotOf(copy, f) # {}
    <3>1. /\ calling' = copy[Min(SlotOf(copy, f))] /\ handlerPc' = "callback" /\ UNCHANGED copy
          /\ taken' = IF f \in ready THEN fdCb[f] ELSE None
      BY <1>4, <2>3 DEF HandlerRead, Dispatch
    <3>2. PICK s \in Slots : s = Min(SlotOf(copy, f)) /\ copy[s].fd = f
      BY <2>3, SlotFound
    <3>3. ~straddled /\ f \notin touched => f \in watched /\ taken' = fdCb[f] /\ fdCb[f] = copy[s].cb
      BY <2>1, <3>1, <3>2 DEF RoundKept
    <3>4. QED BY <2>1, <3>1, <3>2, <3>3 DEF RoundKept
  <2>4. QED BY <2>2, <2>3
<1>5. CASE HandlerReturn
  <2>1. /\ handlerPc = "callback" /\ (handlerPc' = "check" \/ (handlerPc' = "read" /\ UNCHANGED copy))
        /\ UNCHANGED <<events, ready, watched, touched, fdCb, straddled>>
    BY <1>5 DEF HandlerReturn, NextEvent, kernelVars, historyVars
  <2>2. QED BY <2>1 DEF RoundKept
<1>6. ASSUME ~HandlerStep PROVE RoundKept'
  <2>1. /\ UNCHANGED <<events, copy, calling, taken>> /\ (straddled => straddled')
        /\ handlerPc' = handlerPc \/ handlerPc' \in {"check", "none"}
    BY <1>6, HandlerStays
  <2>2. /\ touched \subseteq touched'
        /\ \A f \in watched \ touched' : f \in watched' /\ fdCb'[f] = fdCb[f]
    BY <1>6, KernelStays DEF HandlerStep
  <2>3. \A f \in ready \ touched' : f \in ready'
    <3>1. ready \subseteq Fds
      BY DEF Known, TypeOK
    <3>2. QED BY <1>6, <3>1, KernelStays DEF HandlerStep
  <2>4. CASE handlerPc' \in {"check", "none"}
    BY <2>4 DEF RoundKept
  <2>5. CASE handlerPc' = handlerPc
    <3>1. handlerPc \in {"copy", "read", "callback"} => events \ touched' \subseteq ready' \cap watched'
      BY <2>2, <2>3 DEF RoundKept
    <3>2. ~straddled' /\ handlerPc \in {"read", "callback"} =>
            \A i \in Slots : copy[i].fd \in events \ touched' => fdCb'[copy[i].fd] = copy[i].cb
      <4>1. ASSUME ~straddled', handlerPc \in {"read", "callback"}, NEW i \in Slots,
                   copy[i].fd \in events \ touched'
            PROVE  fdCb'[copy[i].fd] = copy[i].cb
        BY <2>1, <2>2, <4>1 DEF RoundKept
      <4>2. QED BY <4>1
    <3>3. ~straddled' /\ handlerPc = "callback" /\ calling.fd \notin touched' =>
            calling.fd \in watched' /\ taken = calling.cb /\ fdCb'[calling.fd] = calling.cb
      BY <2>1, <2>2 DEF RoundKept
    <3>4. QED BY <2>1, <2>5, <3>1, <3>2, <3>3 DEF RoundKept
  <2>6. QED BY <2>1, <2>4, <2>5
<1>7. QED BY <1>1, <1>2, <1>3, <1>4, <1>5, <1>6 DEF HandlerStep
-------------------------------------------------------------------------------
(***************************************************************************)
(* The theorems.                                                           *)
(***************************************************************************)
Inv == Known /\ TimersKept /\ WatchedOpen /\ CopyKept /\ RoundKept

LEMMA InvInit == Init => Inv
<1> SUFFICES ASSUME Init PROVE Inv
  OBVIOUS
<1>1. /\ callPc = [p \in Threads |-> "out"] /\ table = EmptyTable /\ handles = {} /\ deleted = {}
      /\ isInit = FALSE /\ maxEventNum = 0 /\ handlerPc = "none" /\ fdCb = [f \in Fds |-> None]
  BY DEF Init
<1>2. \A pcs : "out" \notin pcs => ~InCall(pcs)
  BY <1>1 DEF InCall
<1>3. /\ ~InCall(InitStages) /\ ~InCall({"init_epoll", "init_heartbeat"}) /\ ~InCall({"init_thread"})
      /\ ~InCall({"init_heartbeat", "init_thread"})
  BY <1>2 DEF InitStages
<1>4. Mutexed /\ TableSized
  BY <1>1, <1>3 DEF Mutexed, TableSized, InitStages
<1>5. CallbacksOnce
  BY <1>1, Constants DEF CallbacksOnce
<1>6. Staged
  BY <1>1, <1>3, Constants DEF Staged
<1>7. Owned /\ CallsApart /\ NoneLost
  BY <1>1, Constants DEF Owned, CallsApart, NoneLost, Deleting
<1>8. CopyKept /\ RoundKept /\ WatchedOpen
  BY <1>1 DEF CopyKept, RoundKept, WatchedOpen, Init
<1>9. QED BY <1>4, <1>5, <1>6, <1>7, <1>8, TypesInit DEF Inv, Known, TimersKept

LEMMA InvStep == Inv /\ [Next]_vars => Inv'
<1> SUFFICES ASSUME Inv, Next \/ UNCHANGED vars PROVE Inv'
  OBVIOUS
<1>1. TypeOK'
  BY ControlTyped, KernelTyped, CallTyped, TableTyped, TypesTogether
    DEF Inv, Known, TypeOK, ControlTypes, KernelTypes, CallTypes, TableTypes
<1>2. Known'
  BY <1>1, CallsHaveTimersStep, MutexedStep, SizedStep, CallbacksStep DEF Inv, Known
<1>3. QED BY <1>2, TimersStep, WatchedStep, CopyStep, RoundStep DEF Inv

LEMMA Invariance == Spec => []Inv
BY InvInit, InvStep, PTL DEF Spec

\* Unless a Deinit or an Init got in the middle of a call: the slots in use name
\* open and watched timers made for their callbacks, each only one, whatever
\* calls interleave, and what AddTimerEvent has handed out is in the table
\* (timer_event_manage.c:137-144, 179-187, 214-221 and 247-256).
THEOREM TableKept == Spec => []TableOwnsTimers
<1>1. ASSUME Inv PROVE TableOwnsTimers
  <2>1. ASSUME ~straddled
        PROVE  /\ \A i \in Slots : table[i].fd # None =>
                    /\ fdCb[table[i].fd] = table[i].cb
                    /\ isInit => table[i].fd \in watched
                    /\ \A j \in Slots : table[j].fd = table[i].fd => j = i
               /\ handles \subseteq {table[i].fd : i \in Slots}
               /\ isInit => table[0].cb = Heartbeat
    <3>1. Staged /\ Owned /\ CallsApart
      BY <1>1, <2>1 DEF Inv, TimersKept
    <3>2. handles \subseteq {table[i].fd : i \in Slots}
      BY <3>1 DEF CallsApart, InTable
    <3>3. QED BY <3>1, <3>2 DEF Staged, Owned
  <2>2. QED BY <2>1 DEF TableOwnsTimers
<1>2. QED BY <1>1, Invariance, PTL

\* Unless a Deinit or an Init got in the middle of a call: no open timer is out
\* of the table and of every AddTimerEvent, whichever creation failed, whether
\* or not there was a slot, and however often the module was initialised
\* (timer_event_manage.c:86-100, 179-187 and 223-227).
THEOREM NoLeak == Spec => []NoTimerLeaked
<1>1. ASSUME Inv PROVE NoTimerLeaked
  BY <1>1 DEF Inv, TimersKept, NoneLost, NoTimerLeaked
<1>2. QED BY <1>1, Invariance, PTL

\* Unless a Deinit or an Init got in the middle of a call: the handler runs no
\* callback of a timer that was gone when it copied the table; and with a
\* descriptor that has been neither closed nor set anew since epoll_wait, it
\* runs the callback of the timer behind it, for an expiry of this timer
\* (timer_event_manage.c:36-51).
THEOREM RightCallback == Spec => []CallbackOfTimer
<1>1. ASSUME Inv PROVE CallbackOfTimer
  <2>1. handlerPc = "callback" => calling.cb \notin stale
    BY <1>1 DEF Inv, CopyKept
  <2>2. handlerPc = "callback" /\ ~straddled /\ calling.fd \notin touched =>
          taken = calling.cb /\ fdCb[calling.fd] = calling.cb
    BY <1>1 DEF Inv, RoundKept
  <2>3. QED BY <2>1, <2>2 DEF CallbackOfTimer
<1>2. QED BY <1>1, Invariance, PTL
===============================================================================
