-------------------------------- MODULE Timer --------------------------------
(***************************************************************************)
(* framework/timer/timer_event_manage.c: a table of timers, each a         *)
(* descriptor of the kernel (timerfd) with a callback, and one thread      *)
(* (TimerEventManageHandleThread) that waits for expiries with epoll and   *)
(* runs the callbacks.  Any thread may call InitTimerEventManage,          *)
(* DeinitTimerEventManage, AddTimerEvent, DeleteTimerEvent and             *)
(* SetTimerEvent; a callback may call the last three.                      *)
(*                                                                         *)
(* Grain of the steps.  The critical sections of g_eventInfoMutex block on *)
(* nothing and are one step each, so that mutex does not appear.  What is  *)
(* done outside it is a step of its own: the look at g_isInit at the start *)
(* of a call, the comparison after AddTimerEvent's unlock, the stages of   *)
(* InitTimerEventManage, each read() and each callback.                    *)
(***************************************************************************)
EXTENDS Integers, SequencesExt

CONSTANTS
  Callers,            \* the threads of the process that use timers
  Handler,            \* TimerEventManageHandleThread
  Callbacks,          \* the callbacks they add, each one once
  Heartbeat,          \* TimerEventManageHeartbeatCb
  MaxFd,              \* bound: timerfd_create returns descriptors 1 .. MaxFd
  EventNumMax,        \* TIMER_EVENT_NUM_MAX
  StartTimes,         \* the startTime SetTimerEvent is called with, 0 disarms
  MaxNow,             \* bound: the clock stops here
  MaxInits,           \* bound: calls of InitTimerEventManage
  CallbackCalls,      \* callbacks call AddTimerEvent and DeleteTimerEvent
  MaxFaults,          \* bound: calls of epoll_wait that fail
  None

ASSUME ConstantsAssumption ==
  /\ MaxFd \in Nat /\ MaxInits \in Nat /\ MaxFaults \in Nat
  /\ MaxNow \in Nat \ {0} /\ EventNumMax \in Nat \ {0}
  /\ StartTimes \subseteq Nat /\ IsFiniteSet(StartTimes) /\ StartTimes # {}
  /\ CallbackCalls \in BOOLEAN
  /\ None \notin Callers \cup Callbacks \cup {Handler, Heartbeat} \cup 1 .. MaxFd
  /\ Handler \notin Callers /\ Heartbeat \notin Callbacks

VARIABLES
  isInit,             \* g_isInit
  initMutex,          \* owner of g_initMutex, or None
  isRunning,          \* g_isRunning
  maxEventNum,        \* g_maxEventNum
  table,              \* g_eventInfo: descriptor and callback of each slot
  epollOpen,          \* g_epollfd is not -1
  fdCb,               \* the callback the timer behind a descriptor was made for
  watched,            \* descriptors in the epoll set
  due,                \* when the timer expires on CLOCK_MONOTONIC, or None
  periodic,           \* it_interval is not 0
  ready,              \* descriptors with an expiry that has not been read
  touched,            \* history: closed or set anew since the last epoll_wait
  now,                \* CLOCK_MONOTONIC
  handlerPc,          \* where the handler thread is
  events,             \* the descriptors epoll_wait returned, not yet handled
  copy,               \* eventInfo, the handler's copy of the table
  calling,            \* descriptor and callback the handler is running
  taken,              \* history: whose expiry its last read() returned, or None
  callPc,             \* where each thread is in one of the functions
  callCb,             \* cb of its AddTimerEvent
  callFd,             \* timerFd of its AddTimerEvent or DeleteTimerEvent
  callIdx,            \* i of its AddTimerEvent
  handles,            \* descriptors AddTimerEvent has handed out
  used,               \* history: the callbacks that have been added
  deleted,            \* history: callbacks whose timer is gone ...
  stale,              \* ... and the ones that were when the copy was taken
  straddled,          \* history: a Deinit or an Init got in the middle of a call
  faults,             \* how often epoll_wait has failed
  inits               \* how often InitTimerEventManage set up the table

tableVars == <<maxEventNum, table>>
kernelVars == <<epollOpen, fdCb, watched, due, periodic, ready, touched>>
handlerVars == <<handlerPc, events, copy, calling, taken, stale, faults>>
argVars == <<callCb, callFd, callIdx, handles, used>>
callVars == <<callPc, argVars>>
historyVars == <<deleted, straddled, inits>>
vars == <<isInit, initMutex, isRunning, tableVars, kernelVars, now, handlerVars,
          callVars, historyVars>>

Fds == 1 .. MaxFd
Slots == 0 .. EventNumMax
Threads == Callers \cup {Handler}
NoEvent == [fd |-> None, cb |-> None]
Entry == [fd : Fds \cup {None}, cb : Callbacks \cup {Heartbeat, None}]
EmptyTable == [i \in Slots |-> NoEvent]

Init ==
  /\ isInit = FALSE /\ initMutex = None /\ isRunning = FALSE
  /\ maxEventNum = 0
  /\ table = EmptyTable
  /\ epollOpen = FALSE
  /\ fdCb = [f \in Fds |-> None]
  /\ watched = {} /\ ready = {} /\ touched = {}
  /\ due = [f \in Fds |-> None]
  /\ periodic = {}
  /\ now = 1
  /\ handlerPc = "none" /\ events = {} /\ copy = EmptyTable
  /\ calling = NoEvent /\ taken = None /\ faults = 0
  /\ callPc = [p \in Threads |-> "out"]
  /\ callCb = [p \in Threads |-> None]
  /\ callFd = [p \in Threads |-> None]
  /\ callIdx = [p \in Threads |-> 0]
  /\ handles = {} /\ used = {}
  /\ deleted = {} /\ stale = {} /\ straddled = FALSE /\ inits = 0
-------------------------------------------------------------------------------
(***************************************************************************)
(* The kernel: timerfd and epoll.                                          *)
(***************************************************************************)
FreeFds == {f \in Fds : fdCb[f] = None}

\* timerfd_create returns the lowest free descriptor.
CreateTimer(f, cb) ==
  /\ FreeFds # {} /\ f = Min(FreeFds)
  /\ fdCb' = [fdCb EXCEPT ![f] = cb]

\* close() of descriptors, which also leave the epoll set.
CloseTimers(fds) ==
  /\ fdCb' = [f \in Fds |-> IF f \in fds THEN None ELSE fdCb[f]]
  /\ due' = [f \in Fds |-> IF f \in fds THEN None ELSE due[f]]
  /\ watched' = watched \ fds /\ periodic' = periodic \ fds /\ ready' = ready \ fds
  /\ touched' = touched \cup fds

\* timerfd_settime as SetTimerEvent calls it: the flags are CLOCK_MONOTONIC,
\* which is TFD_TIMER_ABSTIME, so that startTime is a time of the clock.  A
\* startTime of 0 disarms the timer, an expiry not yet read is forgotten, and
\* for a descriptor that is not open the call fails.
SetTimer(f, startTime, period) ==
  IF f = None \/ f \in FreeFds THEN UNCHANGED <<due, periodic, ready, touched>>
  ELSE /\ due' = [due EXCEPT ![f] = IF startTime = 0 THEN None ELSE startTime]
       /\ periodic' = IF period THEN periodic \cup {f} ELSE periodic \ {f}
       /\ ready' = ready \ {f}
       /\ touched' = touched \cup {f}

Tick ==
  /\ now < MaxNow
  /\ now' = now + 1
  /\ UNCHANGED <<isInit, initMutex, isRunning, tableVars, kernelVars, handlerVars,
                 callVars, historyVars>>

\* A periodic timer expires again one unit of the clock later.
Expire(f) ==
  /\ due[f] # None /\ now >= due[f] /\ f \notin ready
  /\ ready' = ready \cup {f}
  /\ due' = [due EXCEPT ![f] = IF f \in periodic THEN now + 1 ELSE None]
  /\ UNCHANGED <<isInit, initMutex, isRunning, tableVars, epollOpen, fdCb, watched,
                 periodic, touched, now, handlerVars, callVars, historyVars>>
-------------------------------------------------------------------------------
(***************************************************************************)
(* InitTimerEventManage and DeinitTimerEventManage.                        *)
(***************************************************************************)
Goto(p, pc) == callPc' = [callPc EXCEPT ![p] = pc]

\* There is a thread at one of these places of a call.
InCall(pcs) == \E q \in Threads : callPc[q] \in pcs

\* InitTimerEventManageData, and g_maxEventNum.
InitData(p, num) ==
  /\ callPc[p] = "out" /\ p \in Callers /\ initMutex = None /\ ~isInit
  /\ inits < MaxInits
  /\ inits' = inits + 1
  /\ straddled' = (straddled \/ InCall({"add", "added", "delete_check", "delete"}))
  /\ initMutex' = p
  /\ table' = EmptyTable
  /\ isRunning' = TRUE
  /\ maxEventNum' = num
  /\ Goto(p, "init_epoll")
  /\ UNCHANGED <<isInit, kernelVars, now, handlerVars, argVars, deleted>>

\* Mutant: the bound check lets TIMER_EVENT_NUM_MAX + 1 through.
InitBeginUnchecked(p, eventNum) == InitData(p, eventNum + 2)

InitBegin(p, eventNum) == InitData(p, eventNum + 1)

\* A maxEventNum out of range: DeinitTimerEventManageCore has nothing to undo,
\* and g_isRunning stays set.
InitInvalid(p) ==
  /\ callPc[p] = "out" /\ p \in Callers /\ initMutex = None /\ ~isInit
  /\ table' = EmptyTable
  /\ isRunning' = TRUE
  /\ maxEventNum' = 0
  /\ UNCHANGED <<isInit, initMutex, kernelVars, now, handlerVars, callVars,
                 historyVars>>

InitEpoll(p) ==
  /\ callPc[p] = "init_epoll"
  /\ epollOpen' = TRUE
  /\ Goto(p, "init_heartbeat")
  /\ UNCHANGED <<isInit, initMutex, isRunning, tableVars, fdCb, watched, due,
                 periodic, ready, touched, now, handlerVars, argVars, historyVars>>

\* The heartbeat takes slot 0, whatever is in it, and is watched.
InitHeartbeat(p) ==
  /\ callPc[p] = "init_heartbeat"
  /\ \E f \in Fds :
       /\ CreateTimer(f, Heartbeat)
       /\ table' = [table EXCEPT ![0] = [fd |-> f, cb |-> Heartbeat]]
       /\ watched' = watched \cup {f}
  /\ Goto(p, "init_thread")
  /\ UNCHANGED <<isInit, initMutex, isRunning, maxEventNum, epollOpen, due, periodic,
                 ready, touched, now, handlerVars, argVars, historyVars>>

\* pthread_create succeeds, g_isInit is set and the heartbeat armed.
InitDone(p) ==
  /\ callPc[p] = "init_thread"
  /\ handlerPc' = "check"
  /\ isInit' = TRUE
  /\ SetTimer(table[0].fd, Max(StartTimes), TRUE)
  /\ initMutex' = None
  /\ Goto(p, "out")
  /\ UNCHANGED <<isRunning, tableVars, epollOpen, fdCb, watched, now, events, copy,
                 calling, taken, stale, faults, argVars, historyVars>>

\* DeinitTimerEventManageCore, after the descriptors fds are dealt with.
DeinitCore(fds) ==
  /\ CloseTimers(fds \cup ({table[0].fd} \ {None}))
  /\ epollOpen' = FALSE
  /\ maxEventNum' = 0
  /\ isInit' = FALSE
  /\ initMutex' = None

\* epoll_create, timerfd_create or pthread_create fails.
InitFails(p) ==
  /\ callPc[p] \in {"init_epoll", "init_heartbeat", "init_thread"}
  /\ DeinitCore({})
  /\ table' = [table EXCEPT ![0] = NoEvent]
  /\ Goto(p, "out")
  /\ UNCHANGED <<isRunning, now, handlerVars, argVars, historyVars>>

\* g_isRunning is cleared, and the heartbeat armed to wake the handler.
DeinitBegin(p) ==
  /\ callPc[p] = "out" /\ p \in Callers /\ initMutex = None /\ isInit
  /\ initMutex' = p
  /\ isRunning' = FALSE
  /\ SetTimer(table[0].fd, Max(StartTimes), TRUE)
  /\ Goto(p, "join")
  /\ UNCHANGED <<isInit, tableVars, epollOpen, fdCb, watched, now, handlerVars, argVars,
                 historyVars>>

\* The slots DeinitTimerEventManage goes through, and their descriptors.
UsedSlots == {i \in Slots : i < maxEventNum}

TableFds == {table[i].fd : i \in UsedSlots} \ {None}

\* pthread_join returns, and the whole table is cleared.
DeinitJoined(p) ==
  /\ callPc[p] = "join"
  /\ handlerPc = "done"
  /\ DeinitCore(TableFds)
  /\ table' = [i \in Slots |-> IF i \in UsedSlots THEN NoEvent ELSE table[i]]
  /\ deleted' = deleted \cup ({table[i].cb : i \in UsedSlots} \cap Callbacks)
  /\ straddled' = (straddled \/ InCall({"added"}))
  /\ handlerPc' = "none"
  /\ handles' = {}
  /\ Goto(p, "out")
  /\ UNCHANGED <<isRunning, now, events, copy, calling, taken, stale, faults, callCb,
                 callFd, callIdx, used, inits>>
-------------------------------------------------------------------------------
(***************************************************************************)
(* AddTimerEvent, DeleteTimerEvent and SetTimerEvent.                      *)
(***************************************************************************)

\* A thread that may make a call: a caller, or the handler in a callback.
MayCall(p) ==
  /\ callPc[p] = "out"
  /\ p = Handler => CallbackCalls /\ handlerPc = "callback"

AddBegin(p, cb) ==
  /\ MayCall(p)
  /\ cb \notin used
  /\ used' = used \cup {cb}
  /\ callCb' = [callCb EXCEPT ![p] = cb]
  /\ Goto(p, "add_check")
  /\ UNCHANGED <<isInit, initMutex, isRunning, tableVars, kernelVars, now, handlerVars,
                 callFd, callIdx, handles, historyVars>>

DeleteBegin(p, f) ==
  /\ MayCall(p)
  /\ f \in handles
  /\ handles' = handles \ {f}
  /\ callFd' = [callFd EXCEPT ![p] = f]
  /\ Goto(p, "delete_check")
  /\ UNCHANGED <<isInit, initMutex, isRunning, tableVars, kernelVars, now, handlerVars,
                 callCb, callIdx, used, historyVars>>

Return(p) ==
  /\ Goto(p, "out")
  /\ callCb' = [callCb EXCEPT ![p] = None]
  /\ callFd' = [callFd EXCEPT ![p] = None]
  /\ callIdx' = [callIdx EXCEPT ![p] = 0]

\* The thread takes g_initMutex, looks at g_isInit, and gives the mutex back.
InitCheck(p) ==
  /\ callPc[p] \in {"add_check", "delete_check"}
  /\ initMutex = None
  /\ IF isInit
     THEN /\ Goto(p, IF callPc[p] = "add_check" THEN "add" ELSE "delete")
          /\ UNCHANGED <<callCb, callFd, callIdx>>
     ELSE Return(p)
  /\ UNCHANGED <<isInit, initMutex, isRunning, tableVars, kernelVars, now, handlerVars,
                 handles, used, historyVars>>

\* The first slot of the table t with this descriptor, as a set; None stands
\* for -1, the mark of a free slot.
SlotOf(t, f) ==
  {i \in UsedSlots : t[i].fd = f /\ \A j \in UsedSlots : t[j].fd = f => i <= j}

\* The critical section of AddTimerEvent: a timer is created and takes the
\* first free slot, or none.
AddInsert(p) ==
  LET free == SlotOf(table, None) IN
  /\ callPc[p] = "add"
  /\ \E f \in Fds :
       /\ CreateTimer(f, callCb[p])
       /\ callFd' = [callFd EXCEPT ![p] = f]
       /\ IF free = {}
          THEN /\ callIdx' = [callIdx EXCEPT ![p] = maxEventNum]
               /\ UNCHANGED <<table, watched>>
          ELSE /\ callIdx' = [callIdx EXCEPT ![p] = Min(free)]
               /\ table' = [table EXCEPT ![Min(free)] = [fd |-> f, cb |-> callCb[p]]]
               /\ watched' = IF epollOpen THEN watched \cup {f} ELSE watched
  /\ Goto(p, "added")
  /\ UNCHANGED <<isInit, initMutex, isRunning, maxEventNum, epollOpen, due, periodic,
                 ready, touched, now, handlerVars, callCb, handles, used, historyVars>>

\* timerfd_create fails.
AddFails(p) ==
  /\ callPc[p] = "add"
  /\ FreeFds = {}
  /\ Return(p)
  /\ UNCHANGED <<isInit, initMutex, isRunning, tableVars, kernelVars, now, handlerVars,
                 handles, used, historyVars>>

\* Mutant: the timer that found no slot is not closed.
AddReturnLeaks(p) ==
  /\ callPc[p] = "added"
  /\ handles' = IF callIdx[p] = maxEventNum THEN handles ELSE handles \cup {callFd[p]}
  /\ Return(p)
  /\ UNCHANGED <<isInit, initMutex, isRunning, tableVars, kernelVars, now, handlerVars,
                 used, historyVars>>

\* i == g_maxEventNum is looked at after the unlock: the table was full, or
\* g_maxEventNum has changed meanwhile.
AddReturn(p) ==
  /\ callPc[p] = "added"
  /\ IF callIdx[p] = maxEventNum
     THEN /\ CloseTimers({callFd[p]})
          /\ UNCHANGED <<epollOpen, handles>>
     ELSE /\ handles' = handles \cup {callFd[p]}
          /\ UNCHANGED kernelVars
  /\ Return(p)
  /\ UNCHANGED <<isInit, initMutex, isRunning, tableVars, now, handlerVars, used,
                 historyVars>>

\* The critical section of DeleteTimerEvent: the timer is closed if it
\* has a slot, and these slots are cleared.
DeleteTimer(p, slots) ==
  /\ callPc[p] = "delete"
  /\ IF SlotOf(table, callFd[p]) = {} THEN UNCHANGED <<table, kernelVars, deleted>>
     ELSE /\ table' = [i \in Slots |-> IF i \in slots THEN NoEvent ELSE table[i]]
          /\ deleted' = deleted \cup
                        ({table[i].cb : i \in SlotOf(table, callFd[p])} \cap Callbacks)
          /\ CloseTimers({callFd[p]})
          /\ UNCHANGED epollOpen
  /\ Return(p)
  /\ UNCHANGED <<isInit, initMutex, isRunning, maxEventNum, now, handlerVars, handles,
                 used, straddled, inits>>

\* Mutant: the timer is closed and its slot is kept.
DeleteKeepsSlot(p) == DeleteTimer(p, {})

Delete(p) == DeleteTimer(p, SlotOf(table, callFd[p]))

\* SetTimerEvent takes no lock.
Set(p, f, startTime, period) ==
  /\ MayCall(p)
  /\ f \in handles
  /\ SetTimer(f, startTime, period)
  /\ UNCHANGED <<isInit, initMutex, isRunning, tableVars, epollOpen, fdCb, watched, now,
                 handlerVars, callVars, historyVars>>
-------------------------------------------------------------------------------
(***************************************************************************)
(* TimerEventManageHandleThread and TimerEventManageHandleEvent.           *)
(***************************************************************************)
Loop(goesOn) ==
  /\ handlerPc = "check"
  /\ handlerPc' = IF goesOn THEN "wait" ELSE "done"
  /\ UNCHANGED <<isInit, initMutex, isRunning, tableVars, kernelVars, now, events, copy,
                 calling, taken, stale, faults, callVars, historyVars>>

\* Mutant: the loop does not look at g_isRunning.
HandlerCheckForever == Loop(TRUE)

HandlerCheck == Loop(isRunning)

\* epoll_wait does not wait: the timeout is 0.  Without events the copy is
\* taken for nothing; EINTR, too, only leads to another round.
HandlerWait ==
  /\ handlerPc = "wait"
  /\ events' = ready \cap watched
  /\ touched' = {}
  /\ handlerPc' = IF events' = {} THEN "check" ELSE "copy"
  /\ UNCHANGED <<isInit, initMutex, isRunning, tableVars, epollOpen, fdCb, watched, due,
                 periodic, ready, now, copy, calling, taken, stale, faults, callVars,
                 historyVars>>

\* epoll_wait fails, and the thread ends, which nobody is told of.
HandlerWaitFails ==
  /\ handlerPc = "wait"
  /\ faults < MaxFaults
  /\ faults' = faults + 1
  /\ handlerPc' = "done"
  /\ UNCHANGED <<isInit, initMutex, isRunning, tableVars, kernelVars, now, events, copy,
                 calling, taken, stale, callVars, historyVars>>

HandlerCopy ==
  /\ handlerPc = "copy"
  /\ copy' = table
  /\ stale' = deleted
  /\ handlerPc' = "read"
  /\ UNCHANGED <<isInit, initMutex, isRunning, tableVars, kernelVars, now, events,
                 calling, taken, faults, callVars, historyVars>>

\* After the last event the copy goes out of scope.
NextEvent ==
  IF events' = {}
  THEN handlerPc' = "check" /\ copy' = EmptyTable /\ stale' = {}
  ELSE handlerPc' = "read" /\ UNCHANGED <<copy, stale>>

\* The callback is the one the copy has for the descriptor, if any; nobody asks
\* whether read() has returned an expiry, or whose it was.
Dispatch(f, whose) ==
  LET slot == SlotOf(copy, f) IN
  /\ handlerPc = "read" /\ f \in events
  /\ events' = events \ {f}
  /\ IF slot = {} THEN NextEvent /\ UNCHANGED <<calling, taken>>
     ELSE /\ calling' = copy[Min(slot)] /\ taken' = whose
          /\ handlerPc' = "callback"
          /\ UNCHANGED <<copy, stale>>
  /\ UNCHANGED <<isInit, initMutex, isRunning, tableVars, epollOpen, fdCb, watched, due,
                 periodic, touched, now, faults, callVars, historyVars>>

\* Mutant: the expiry is left in the descriptor.
HandlerReadNothing(f) == Dispatch(f, None) /\ UNCHANGED ready

\* read() takes the expiry of whatever timer the descriptor is now, or fails
\* with EAGAIN if that one has none.
HandlerRead(f) ==
  /\ Dispatch(f, IF f \in ready THEN fdCb[f] ELSE None)
  /\ ready' = ready \ {f}

HandlerReturn ==
  /\ handlerPc = "callback" /\ callPc[Handler] = "out"
  /\ calling' = NoEvent /\ taken' = None
  /\ UNCHANGED events
  /\ NextEvent
  /\ UNCHANGED <<isInit, initMutex, isRunning, tableVars, kernelVars, now, faults,
                 callVars, historyVars>>
-------------------------------------------------------------------------------
HandlerStep ==
  \/ HandlerCheck \/ HandlerWait \/ HandlerWaitFails \/ HandlerCopy \/ HandlerReturn
  \/ \E f \in Fds : HandlerRead(f)

\* A thread goes on with the call it is in.
CallStep(p) ==
  \/ InitEpoll(p) \/ InitHeartbeat(p) \/ InitDone(p) \/ InitFails(p) \/ DeinitJoined(p)
  \/ InitCheck(p) \/ AddInsert(p) \/ AddFails(p) \/ AddReturn(p) \/ Delete(p)

\* A thread makes a call.
CallBegin(p) ==
  \/ \E n \in 1 .. EventNumMax : InitBegin(p, n)
  \/ InitInvalid(p) \/ DeinitBegin(p)
  \/ \E cb \in Callbacks : AddBegin(p, cb)
  \/ \E f \in Fds : DeleteBegin(p, f)
  \/ \E f \in Fds, t \in StartTimes, period \in BOOLEAN : Set(p, f, t, period)

Next ==
  \/ Tick
  \/ \E f \in Fds : Expire(f)
  \/ HandlerStep
  \/ \E p \in Threads : CallStep(p) \/ CallBegin(p)

Spec == Init /\ [][Next]_vars

\* The clock goes on, and the kernel runs the handler and every thread that is
\* inside a call; nobody has to make one.
Fairness ==
  /\ WF_vars(HandlerStep)
  /\ \A p \in Threads : WF_vars(CallStep(p))

FairSpec == Spec /\ Fairness
-------------------------------------------------------------------------------
(***************************************************************************)
(* Properties.                                                             *)
(***************************************************************************)

\* Every variable has its type; in particular g_maxEventNum stays within the
\* array g_eventInfo (timer_event_manage.c:125 and 130).
TypeOK ==
  /\ isInit \in BOOLEAN /\ isRunning \in BOOLEAN /\ epollOpen \in BOOLEAN
  /\ initMutex \in Callers \cup {None}
  /\ maxEventNum \in 0 .. EventNumMax + 1
  /\ table \in [Slots -> Entry] /\ copy \in [Slots -> Entry]
  /\ fdCb \in [Fds -> Callbacks \cup {Heartbeat, None}]
  /\ watched \subseteq Fds /\ ready \subseteq Fds /\ periodic \subseteq Fds
  /\ touched \subseteq Fds
  /\ due \in [Fds -> Nat \cup {None}]
  /\ now \in 1 .. MaxNow
  /\ handlerPc \in {"none", "check", "wait", "copy", "read", "callback", "done"}
  /\ events \subseteq Fds
  /\ calling \in Entry /\ taken \in Callbacks \cup {Heartbeat, None}
  /\ callPc \in [Threads -> {"out", "init_epoll", "init_heartbeat", "init_thread", "join",
                             "add_check", "add", "added", "delete_check", "delete"}]
  /\ callCb \in [Threads -> Callbacks \cup {None}]
  /\ callFd \in [Threads -> Fds \cup {None}]
  /\ callIdx \in [Threads -> 0 .. EventNumMax + 1]
  /\ handles \subseteq Fds
  /\ used \subseteq Callbacks /\ deleted \subseteq Callbacks /\ stale \subseteq deleted
  /\ straddled \in BOOLEAN /\ inits \in 0 .. MaxInits /\ faults \in 0 .. MaxFaults

\* Unless a Deinit or an Init got in the middle of a call: a slot in use names
\* an open timer that is watched and was made for the slot's callback, no two
\* slots name the same one, a descriptor handed out is in a slot, and the
\* heartbeat keeps slot 0 while the module is initialised
\* (timer_event_manage.c:137-144, 179-187, 214-221 and 247-256).
TableOwnsTimers ==
  ~straddled =>
    /\ \A i \in Slots : table[i].fd # None =>
         /\ fdCb[table[i].fd] = table[i].cb
         /\ isInit => table[i].fd \in watched
         /\ \A j \in Slots : table[j].fd = table[i].fd => j = i
    /\ handles \subseteq {table[i].fd : i \in Slots}
    /\ isInit => table[0].cb = Heartbeat

\* Unless a Deinit or an Init got in the middle of a call: an open timer is in
\* the table, or belongs to an AddTimerEvent that is still to return, whatever
\* failed and however often the module was initialised
\* (timer_event_manage.c:86-100, 179-187 and 223-227).
NoTimerLeaked ==
  ~straddled =>
    {f \in Fds : fdCb[f] # None} \subseteq
      {table[i].fd : i \in Slots}
        \cup {callFd[p] : p \in {q \in Threads : callPc[q] = "added"}}

\* Unless a Deinit or an Init got in the middle of a call: a callback that runs
\* is not that of a timer that was gone when the handler copied the table; and
\* if its descriptor has been neither closed nor set anew since epoll_wait, it
\* is that of the timer behind the descriptor, called for an expiry of this
\* timer.  It is not so beyond that: a timer that took over the descriptor is
\* called without an expiry, or the deleted one for an expiry of the new one
\* (timer_event_manage.c:36-51).
CallbackOfTimer ==
  handlerPc = "callback" /\ ~straddled =>
    /\ calling.cb \notin stale
    /\ calling.fd \notin touched =>
         taken = calling.cb /\ fdCb[calling.fd] = calling.cb

\* The callback of the timer behind f is running for an expiry of this timer.
Served(f) ==
  handlerPc = "callback" /\ calling.fd = f /\ taken = calling.cb

\* An expiry of a timer that was neither created nor set since the handler's
\* last epoll_wait gets to its own callback, or the timer is closed or set anew,
\* or epoll_wait fails, as long as the callbacks return.  One that comes in the
\* round in which its descriptor changed hands may be read for the earlier
\* timer (timer_event_manage.c:43-76).
ExpiryHandled ==
  \A f \in Fds :
    f \in (ready \cap watched) \ touched ~> Served(f) \/ f \in touched \/ faults > 0

\* No call keeps its thread for ever; DeinitTimerEventManage in particular gets
\* the handler to end, as long as the callbacks make no calls themselves
\* (timer_event_manage.c:62 and 174-176).
CallsReturn == \A p \in Threads : callPc[p] # "out" ~> callPc[p] = "out"
===============================================================================
