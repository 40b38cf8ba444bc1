---------------------------- MODULE MsgRouteClient ----------------------------
(***************************************************************************)
(* framework/msg_route/msg_route_client.c: the part of the message router  *)
(* that is linked into an application.  MsgRouteClientInit connects to the *)
(* router and starts a thread (MsgRouteClientRxThread), which gives each   *)
(* packet to the callback registered for its type; MsgRouteClientDeinit    *)
(* closes the connection; Subscribe and Unsubscribe first tell the router  *)
(* and then change the table of callbacks.                                 *)
(*                                                                         *)
(* g_initLock orders Init and Deinit; g_fd, g_isRunning and g_curAppId are *)
(* used by everybody else without a lock, so each use is a step.  A call   *)
(* that fails before it changes anything is not a step: Init that cannot   *)
(* connect.  g_isInit is never set, so Init never finds it set.            *)
(* MsgRouteClientSendMsg changes no state of the client; its packets are   *)
(* part of MsgRouteServer.                                                 *)
(*                                                                         *)
(* The kernel and the router are modelled from how this code uses them: a  *)
(* recv() that waits keeps its connection when the descriptor is closed,   *)
(* and the lowest free descriptor is given out.  The router sends any type *)
(* at any time, as a client also gets what it answers itself.              *)
(***************************************************************************)
EXTENDS Integers, SequencesExt

CONSTANTS
  Callers,            \* the threads of the application
  Types,              \* the message types
  AppId,              \* what MsgRouteClientInit is called with
  MaxConns,           \* bound: connections made
  MaxDeinits,         \* bound: calls of MsgRouteClientDeinit
  MaxPackets,         \* bound: packets the router sends
  QueueMax,           \* packets a socket holds
  MaxFaults,          \* bound: threads that do not start, or have no memory
  Beyond,             \* bound: whether steps after an overlap are explored
  None

AllApps == 0          \* ALL_APP_ID

ASSUME ConstantsAssumption ==
  /\ AppId \in Nat \ {AllApps}
  /\ MaxConns \in Nat /\ MaxDeinits \in Nat /\ MaxPackets \in Nat
  /\ QueueMax \in Nat \ {0} /\ MaxFaults \in Nat /\ Beyond \in BOOLEAN
  /\ None \notin Callers \cup Types \cup Nat

\* Connections in the order they are made.  The thread of a connection is the
\* one its Init started; there can be a descriptor for each.
Conns == 1 .. MaxConns
Readers == Conns
Fds == Conns
Packets == 1 .. MaxPackets

VARIABLES
  initLock,           \* who holds g_initLock, or None
  gFd,                \* g_fd, None for -1
  isRunning,          \* g_isRunning
  curAppId,           \* g_curAppId
  registered,         \* the types with a callback in g_subscribeInfo
  callPc,             \* where a caller is in a call
  callType,           \* the type it is about
  callApp,            \* the appId in the request it is to send
  rxPc,               \* where a MsgRouteClientRxThread is
  rxConn, rxPacket,   \* the connection it waits for, the packet it has
  fdConn,             \* the connection of each descriptor
  conns,              \* connections made
  toClient,           \* packets the client has not read
  shut,               \* connections whose other end is closed
  told,               \* types the router sends, once it has read its requests
  packetType,         \* the types of the packets sent, in their order
  deinits, faults,    \* how many there have been
  settled,            \* history, see Settle
  alone,              \* history: who makes a Subscribe that nothing has crossed
  due,                \* history: packets of a settled type
  handled,            \* history: packets given to a callback, in order
  overlap             \* history: see InitConnect

sharedVars == <<gFd, isRunning, curAppId>>
argVars == <<callType, callApp>>
callVars == <<initLock, callPc, argVars>>
rxVars == <<rxPc, rxConn, rxPacket>>
packetVars == <<toClient, packetType, shut>>
countVars == <<deinits, faults>>
vars == <<sharedVars, registered, callVars, rxVars, fdConn, conns, told,
          packetVars, countVars, settled, alone, due, handled, overlap>>

Init ==
  /\ initLock = None
  /\ gFd = None /\ isRunning = FALSE /\ curAppId = AllApps
  /\ registered = {}
  /\ callPc = [p \in Callers |-> "idle"]
  /\ callType = [p \in Callers |-> None]
  /\ callApp = [p \in Callers |-> AllApps]
  /\ rxPc = [r \in Readers |-> "none"]
  /\ rxConn = [r \in Readers |-> None]
  /\ rxPacket = [r \in Readers |-> None]
  /\ fdConn = [f \in Fds |-> None]
  /\ conns = 0
  /\ toClient = [c \in Conns |-> <<>>] /\ packetType = <<>>
  /\ shut = {} /\ told = {}
  /\ deinits = 0 /\ faults = 0
  /\ settled = {} /\ alone = {}
  /\ due = {} /\ handled = <<>>
  /\ overlap = FALSE

\* Nothing is promised once an Init has overlapped an earlier one.
Explored == overlap => Beyond

CallAt(p, pc) == callPc[p] = pc

CallGoto(p, pc) == Explored /\ callPc' = [callPc EXCEPT ![p] = pc]

RxAt(r, pc) == rxPc[r] = pc

RxGoto(r, pc) == Explored /\ rxPc' = [rxPc EXCEPT ![r] = pc]

\* The connection g_fd leads to, or None.
Current == IF gFd = None THEN None ELSE fdConn[gFd]

\* An Init or a Deinit: no subscription is sure any more.
Uncertain == settled' = {} /\ alone' = {}

\* close(g_fd)
CloseFd == fdConn' = [f \in Fds |-> IF f = gFd THEN None ELSE fdConn[f]]
-------------------------------------------------------------------------------
(***************************************************************************)
(* MsgRouteClientInit.                                                     *)
(***************************************************************************)
\* MsgRouteClientCreate.  The history remembers an Init that found a descriptor
\* or a thread of an earlier one.
InitConnect(p) ==
  /\ CallAt(p, "idle") /\ CallGoto(p, "start")
  /\ initLock = None /\ initLock' = p
  /\ conns < MaxConns
  /\ conns' = conns + 1
  /\ gFd' = Min({f \in Fds : fdConn[f] = None})
  /\ fdConn' = [fdConn EXCEPT ![gFd'] = conns']
  /\ overlap' = (overlap \/ gFd # None \/ \E r \in Readers : ~RxAt(r, "none"))
  /\ told' = {} /\ Uncertain
  /\ due' = IF overlap' THEN {} ELSE due
  /\ UNCHANGED <<isRunning, curAppId, registered, argVars, rxVars, packetVars,
                 countVars, handled>>

\* g_isRunning = true and pthread_create.
InitStart(p) ==
  /\ CallAt(p, "start") /\ CallGoto(p, "identify")
  /\ isRunning' = TRUE
  /\ RxGoto(conns, "start")
  /\ UNCHANGED <<gFd, curAppId, registered, initLock, argVars, rxConn,
                 rxPacket, fdConn, conns, told, packetVars, countVars, settled,
                 alone, due, handled, overlap>>

\* If the thread does not start, the connection stays.
InitStartFails(p) ==
  /\ CallAt(p, "start") /\ CallGoto(p, "idle")
  /\ faults < MaxFaults /\ faults' = faults + 1
  /\ isRunning' = TRUE
  /\ initLock' = None
  /\ UNCHANGED <<gFd, curAppId, registered, argVars, rxVars, fdConn, conns,
                 told, packetVars, deinits, settled, alone, due, handled,
                 overlap>>

InitIdentify(p) ==
  /\ CallAt(p, "identify") /\ CallGoto(p, "idle")
  /\ curAppId' = AppId
  /\ initLock' = None
  /\ UNCHANGED <<gFd, isRunning, registered, argVars, rxVars, fdConn, conns,
                 told, packetVars, countVars, settled, alone, due, handled,
                 overlap>>
-------------------------------------------------------------------------------
(***************************************************************************)
(* MsgRouteClientDeinit.                                                   *)
(***************************************************************************)
DeinitBegin(p, running) ==
  /\ CallAt(p, "idle") /\ CallGoto(p, "close")
  /\ initLock = None /\ initLock' = p
  /\ deinits < MaxDeinits /\ deinits' = deinits + 1
  /\ isRunning' = running
  /\ Uncertain /\ due' = {}
  /\ UNCHANGED <<gFd, curAppId, registered, argVars, rxVars, fdConn, conns,
                 told, packetVars, faults, handled, overlap>>

\* Mutant: the threads are not told.
DeinitQuietly(p) == DeinitBegin(p, isRunning)

DeinitStop(p) == DeinitBegin(p, FALSE)

DeinitTo(p, from, to) ==
  /\ CallAt(p, from) /\ CallGoto(p, to)
  /\ UNCHANGED <<isRunning, registered, argVars, rxVars, conns, told,
                 packetVars, countVars, settled, alone, due, handled, overlap>>

\* Mutant: g_fd = -1 comes before close(g_fd).
DeinitForgets(p) ==
  /\ DeinitTo(p, "close", "clear")
  /\ gFd' = None
  /\ UNCHANGED <<initLock, curAppId, fdConn>>

DeinitClose(p) ==
  /\ DeinitTo(p, "close", "clear")
  /\ CloseFd
  /\ UNCHANGED <<initLock, gFd, curAppId>>

DeinitClear(p) ==
  /\ DeinitTo(p, "clear", "sleep")
  /\ gFd' = None
  /\ UNCHANGED <<initLock, curAppId, fdConn>>

DeinitLeaves(p, appId) ==
  /\ DeinitTo(p, "sleep", "idle")
  /\ curAppId' = appId
  /\ initLock' = None
  /\ UNCHANGED <<gFd, fdConn>>

\* Mutant: g_curAppId becomes -1, as g_fd does.
DeinitInvalid(p) == DeinitLeaves(p, -1)

\* After sleep(2).  The callbacks stay registered.
DeinitEnd(p) == DeinitLeaves(p, AllApps)
-------------------------------------------------------------------------------
(***************************************************************************)
(* MsgRouteClientSubscribeMsg and MsgRouteClientUnsubscribeMsg.            *)
(***************************************************************************)
CallsFor(t) == {q \in Callers : callType[q] = t}

\* The request is made out with g_curAppId as it is.
Ask(p, call, t) ==
  /\ CallAt(p, "idle") /\ CallGoto(p, call)
  /\ callType' = [callType EXCEPT ![p] = t]
  /\ callApp' = [callApp EXCEPT ![p] = curAppId]
  /\ UNCHANGED <<sharedVars, registered, initLock, rxVars, fdConn, conns, told,
                 packetVars, countVars, handled, overlap>>

\* The history remembers the Subscribes that found the appId, and that no Init,
\* no Deinit and no other call for the type has crossed.
SubscribeAsk(p, t) ==
  /\ Ask(p, "subscribing", t)
  /\ alone' = (alone \ CallsFor(t)) \cup
              {q \in {p} : CallsFor(t) = {} /\ isRunning /\ curAppId # AllApps /\ ~overlap}
  /\ UNCHANGED <<settled, due>>

\* From here on the callback can be gone.
UnsubscribeAsk(p, t) ==
  /\ Ask(p, "unsubscribing", t)
  /\ alone' = alone \ CallsFor(t)
  /\ settled' = settled \ {t}
  /\ due' = {k \in due : packetType[k] # t}

\* MsgRouteClientSendCommonMsg, when it is successful.  The router reads the
\* requests in order, and one with ALL_APP_ID changes the entry of that id, which
\* only broadcasts go to.
Tell(p, from, to, types) ==
  /\ CallAt(p, from) /\ CallGoto(p, to)
  /\ Current # None /\ Current \notin shut
  /\ told' = IF callApp[p] = AllApps THEN told ELSE types
  /\ callApp' = [callApp EXCEPT ![p] = AllApps]
  /\ UNCHANGED <<sharedVars, registered, initLock, callType, rxVars, fdConn, conns,
                 packetVars, countVars, settled, alone, due, handled, overlap>>

\* Mutant: the router is asked to end the subscription.
SubscribeAsksEnd(p) == Tell(p, "subscribing", "subscribe", told \ {callType[p]})

SubscribeTell(p) == Tell(p, "subscribing", "subscribe", told \cup {callType[p]})

UnsubscribeTell(p) == Tell(p, "unsubscribing", "unsubscribe", told \ {callType[p]})

Return(p) ==
  /\ CallGoto(p, "idle")
  /\ callType' = [callType EXCEPT ![p] = None]
  /\ callApp' = [callApp EXCEPT ![p] = AllApps]
  /\ alone' = alone \ {p}
  /\ UNCHANGED <<sharedVars, initLock, rxVars, fdConn, conns, told, packetVars,
                 countVars, due, handled, overlap>>

\* send() fails, and the call with it.
TellFails(p) ==
  /\ callPc[p] \in {"subscribing", "unsubscribing"}
  /\ Current = None \/ Current \in shut
  /\ UNCHANGED <<registered, settled>>
  /\ Return(p)

\* A type is settled when a Subscribe has returned that found the appId in
\* g_curAppId when it was called, and no Init, no Deinit and no other call for
\* the type was made meanwhile, nor one of the first two or an Unsubscribe since.
Settle(p) == settled' = IF p \in alone THEN settled \cup {callType[p]} ELSE settled

SubscribeRegister(p) ==
  /\ CallAt(p, "subscribe")
  /\ registered' = registered \cup {callType[p]}
  /\ Settle(p)
  /\ Return(p)

UnsubscribeClear(p) ==
  /\ CallAt(p, "unsubscribe")
  /\ registered' = registered \ {callType[p]}
  /\ UNCHANGED settled
  /\ Return(p)
-------------------------------------------------------------------------------
(***************************************************************************)
(* MsgRouteClientRxThread.                                                 *)
(***************************************************************************)
RxStep ==
  UNCHANGED <<isRunning, curAppId, registered, callVars, conns, told, packetType, shut,
              deinits, settled, alone, due, overlap>>

RxStart(r) ==
  /\ RxAt(r, "start")
  /\ \/ RxGoto(r, "check") /\ UNCHANGED faults
     \/ RxGoto(r, "none") /\ faults < MaxFaults /\ faults' = faults + 1
  /\ UNCHANGED <<gFd, rxConn, rxPacket, fdConn, toClient, handled>>
  /\ RxStep

RxCheck(r) ==
  /\ RxAt(r, "check")
  /\ RxGoto(r, IF isRunning THEN "recv" ELSE "none")
  /\ UNCHANGED <<gFd, rxConn, rxPacket, fdConn, toClient, faults, handled>>
  /\ RxStep

\* recv() waits for a connection, or is -1 at once.
RxRecv(r) ==
  /\ RxAt(r, "recv")
  /\ RxGoto(r, IF Current = None THEN "check" ELSE "wait")
  /\ rxConn' = [rxConn EXCEPT ![r] = Current]
  /\ UNCHANGED <<gFd, rxPacket, fdConn, toClient, faults, handled>>
  /\ RxStep

\* Mutant: packets are taken from the wrong end.
TakeNewest(r) ==
  /\ RxAt(r, "wait") /\ RxGoto(r, "copy")
  /\ toClient[rxConn[r]] # <<>>
  /\ rxPacket' = [rxPacket EXCEPT ![r] = Last(toClient[rxConn[r]])]
  /\ toClient' = [toClient EXCEPT ![rxConn[r]] = Front(@)]
  /\ rxConn' = [rxConn EXCEPT ![r] = None]
  /\ UNCHANGED <<gFd, fdConn, faults, handled>>
  /\ RxStep

RxTake(r) ==
  /\ RxAt(r, "wait") /\ RxGoto(r, "copy")
  /\ toClient[rxConn[r]] # <<>>
  /\ rxPacket' = [rxPacket EXCEPT ![r] = Head(toClient[rxConn[r]])]
  /\ toClient' = [toClient EXCEPT ![rxConn[r]] = Tail(@)]
  /\ rxConn' = [rxConn EXCEPT ![r] = None]
  /\ UNCHANGED <<gFd, fdConn, faults, handled>>
  /\ RxStep

\* recv() is 0.
RxEnd(r) ==
  /\ RxAt(r, "wait") /\ RxGoto(r, "close")
  /\ toClient[rxConn[r]] = <<>> /\ rxConn[r] \in shut
  /\ rxConn' = [rxConn EXCEPT ![r] = None]
  /\ UNCHANGED <<gFd, rxPacket, fdConn, toClient, faults, handled>>
  /\ RxStep

\* close(g_fd), whatever g_fd is by now, g_fd = -1 and the end of the thread.
RxClose(r) ==
  /\ RxAt(r, "close") /\ RxGoto(r, "clear")
  /\ CloseFd
  /\ UNCHANGED <<gFd, rxConn, rxPacket, toClient, faults, handled>>
  /\ RxStep

RxClear(r) ==
  /\ RxAt(r, "clear") /\ RxGoto(r, "none")
  /\ gFd' = None
  /\ UNCHANGED <<rxConn, rxPacket, fdConn, toClient, faults, handled>>
  /\ RxStep

\* The entry of g_subscribeInfo is copied under g_subscribeInfoLock.
RxCopy(r) ==
  /\ RxAt(r, "copy")
  /\ \/ /\ packetType[rxPacket[r]] \in registered
        /\ RxGoto(r, "call")
        /\ UNCHANGED rxPacket
     \/ /\ packetType[rxPacket[r]] \notin registered
        /\ RxGoto(r, "check")
        /\ rxPacket' = [rxPacket EXCEPT ![r] = None]
  /\ UNCHANGED <<gFd, rxConn, fdConn, toClient, faults, handled>>
  /\ RxStep

\* Mutant: the buffer is used again before the callback has run.
CallLost(r) ==
  /\ RxAt(r, "call") /\ RxGoto(r, "check")
  /\ rxPacket' = [rxPacket EXCEPT ![r] = None]
  /\ UNCHANGED <<gFd, rxConn, fdConn, toClient, faults, handled>>
  /\ RxStep

\* rxFunc() runs; it may have been unregistered since.
RxCall(r) ==
  /\ RxAt(r, "call") /\ RxGoto(r, "check")
  /\ handled' = Append(handled, rxPacket[r])
  /\ rxPacket' = [rxPacket EXCEPT ![r] = None]
  /\ UNCHANGED <<gFd, rxConn, fdConn, toClient, faults>>
  /\ RxStep
-------------------------------------------------------------------------------
(***************************************************************************)
(* The router, and the specification.                                      *)
(***************************************************************************)
RouterStep ==
  /\ Explored
  /\ UNCHANGED <<sharedVars, registered, callVars, rxVars, fdConn, conns, told,
                 countVars, settled, alone, handled, overlap>>

\* The client has a descriptor of the connection, or waits for it.
InUse(c) == (\E f \in Fds : fdConn[f] = c) \/ (\E r \in Readers : rxConn[r] = c)

RouterSend(c, t) ==
  /\ InUse(c) /\ c \notin shut
  /\ Len(packetType) < MaxPackets
  /\ Len(toClient[c]) < QueueMax
  /\ packetType' = Append(packetType, t)
  /\ toClient' = [toClient EXCEPT ![c] = Append(@, Len(packetType'))]
  /\ due' = IF t \in settled /\ c = Current THEN due \cup {Len(packetType')}
            ELSE due
  /\ UNCHANGED shut
  /\ RouterStep

\* The router ends, or closes the connection.
RouterClose(c) ==
  /\ InUse(c) /\ c \notin shut
  /\ shut' = shut \cup {c}
  /\ UNCHANGED <<toClient, packetType, due>>
  /\ RouterStep

\* What a call goes on with once it has begun.
CallStep(p) ==
  \/ InitStart(p) \/ InitStartFails(p) \/ InitIdentify(p)
  \/ DeinitClose(p) \/ DeinitClear(p) \/ DeinitEnd(p)
  \/ SubscribeTell(p) \/ UnsubscribeTell(p) \/ TellFails(p)
  \/ SubscribeRegister(p) \/ UnsubscribeClear(p)

Call(p) ==
  \/ InitConnect(p) \/ DeinitStop(p)
  \/ \E t \in Types : SubscribeAsk(p, t) \/ UnsubscribeAsk(p, t)

Rx(r) ==
  \/ RxStart(r) \/ RxCheck(r) \/ RxRecv(r) \/ RxTake(r) \/ RxEnd(r)
  \/ RxClose(r) \/ RxClear(r) \/ RxCopy(r) \/ RxCall(r)

Next ==
  \/ \E p \in Callers : Call(p) \/ CallStep(p)
  \/ \E r \in Readers : Rx(r)
  \/ \E c \in Conns : RouterClose(c) \/ \E t \in Types : RouterSend(c, t)

Spec == Init /\ [][Next]_vars

\* The threads are scheduled, and sleeps and callbacks end.
FairSpec ==
  /\ Spec
  /\ \A p \in Callers : WF_vars(CallStep(p))
  /\ \A r \in Readers : WF_vars(Rx(r))
-------------------------------------------------------------------------------
(***************************************************************************)
(* Properties.                                                             *)
(***************************************************************************)
TypeOK ==
  /\ initLock \in Callers \cup {None}
  /\ gFd \in Fds \cup {None} /\ isRunning \in BOOLEAN /\ curAppId \in {AllApps, AppId}
  /\ registered \in SUBSET Types
  /\ callPc \in [Callers -> {"idle", "start", "identify", "close", "clear", "sleep",
                             "subscribing", "subscribe", "unsubscribing", "unsubscribe"}]
  /\ callType \in [Callers -> Types \cup {None}]
  /\ callApp \in [Callers -> {AllApps, AppId}]
  /\ rxPc \in [Readers -> {"none", "start", "check", "recv", "wait", "copy", "call",
                           "close", "clear"}]
  /\ rxConn \in [Readers -> Conns \cup {None}]
  /\ rxPacket \in [Readers -> Packets \cup {None}]
  /\ fdConn \in [Fds -> Conns \cup {None}]
  /\ conns \in 0 .. MaxConns
  /\ toClient \in [Conns -> Seq(Packets)] /\ packetType \in Seq(Types)
  /\ shut \in SUBSET Conns /\ told \in SUBSET Types
  /\ deinits \in 0 .. MaxDeinits /\ faults \in 0 .. MaxFaults
  /\ settled \in SUBSET Types /\ alone \in SUBSET Callers
  /\ due \in SUBSET Packets /\ handled \in Seq(Packets)
  /\ overlap \in BOOLEAN

\* Until an Init finds the descriptor or the thread of an earlier one, g_fd is
\* the only descriptor the client has: neither Deinit nor a thread that closes
\* it when the router ends, nor both at a time, lose one (close and g_fd = -1).
DescriptorOwned == ~overlap => \A f \in Fds : fdConn[f] # None => f = gFd

\* Until then, too, callbacks get the packets in the order they were sent, none
\* twice, and no packet is passed over that was sent after Subscribe had
\* returned, and before Unsubscribe of its type or a Deinit was called (due).
HandledInOrder ==
  ~overlap =>
    /\ \A i, j \in DOMAIN handled : i < j => handled[i] < handled[j]
    /\ \A i \in DOMAIN handled : \A k \in due : k < handled[i] => k \in ToSet(handled)

\* A type that is settled is in the table of callbacks, and in that of the
\* router once it has read its requests, whatever calls for other types and
\* whatever calls before it came in between send() and the table.
TablesAgree == settled \subseteq registered \cap told

\* A packet that is due finds its callback (RxThread's copy of the table) and is
\* given to it, also if the router ends meanwhile.
DueHandled ==
  \A k \in Packets :
    (k \in due /\ faults = 0) ~> (k \in ToSet(handled) \/ k \notin due \/ faults > 0)

\* A thread whose descriptor was closed does not go round for ever: it ends, or
\* waits for the connection it still has.
ReaderEnds ==
  \A r \in Readers :
    (gFd = None /\ ~overlap) ~> (rxPc[r] \in {"none", "wait"} \/ gFd # None \/ overlap)
===============================================================================
