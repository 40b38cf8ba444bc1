------------------------- MODULE MsgRouteClientProofs --------------------------
(***************************************************************************)
(* Proofs about MsgRouteClient, for all values of its constants: every     *)
(* variable keeps its type, a settled type is in both tables, the client   *)
(* loses no descriptor, and callbacks get their packets in order.          *)
(***************************************************************************)
EXTENDS MsgRouteClient, DataLemmas

\* Every action opened at once.
LEMMA NextCases ==
  ASSUME Next
  PROVE  \/ \E p \in Callers :
              \/ InitConnect(p) \/ InitStart(p) \/ InitStartFails(p) \/ InitIdentify(p)
              \/ DeinitStop(p) \/ DeinitClose(p) \/ DeinitClear(p) \/ DeinitEnd(p)
              \/ SubscribeTell(p) \/ UnsubscribeTell(p) \/ TellFails(p)
              \/ SubscribeRegister(p) \/ UnsubscribeClear(p)
              \/ \E t \in Types : SubscribeAsk(p, t) \/ UnsubscribeAsk(p, t)
         \/ \E r \in Readers :
              \/ RxStart(r) \/ RxCheck(r) \/ RxRecv(r) \/ RxTake(r) \/ RxEnd(r)
              \/ RxClose(r) \/ RxClear(r) \/ RxCopy(r) \/ RxCall(r)
         \/ \E c \in Conns : RouterClose(c) \/ \E t \in Types : RouterSend(c, t)
BY DEF Next, Call, CallStep, Rx
-------------------------------------------------------------------------------
(***************************************************************************)
(* The invariants the theorems rest on.                                    *)
(***************************************************************************)
\* What a caller or a thread has, at which place.
CallPlaces ==
  \A p \in Callers :
    callPc[p] \in {"subscribing", "subscribe", "unsubscribing", "unsubscribe"} <=> callType[p] # None

RxPlaces ==
  \A r \in Readers : /\ rxPc[r] = "wait" <=> rxConn[r] # None
                     /\ rxPc[r] \in {"copy", "call"} <=> rxPacket[r] # None

\* No two descriptors lead to one connection, so that one is free for the next.
FdsDistinct ==
  /\ \A f \in Fds : fdConn[f] # None => fdConn[f] <= conns
  /\ \A f, g \in Fds : fdConn[f] = fdConn[g] /\ fdConn[f] # None => f = g

\* g_initLock, which Init and Deinit hold to the end.
LockHeld ==
  \A p \in Callers : callPc[p] \in {"start", "identify", "close", "clear", "sleep"}
                       => initLock = p

\* The thread of a connection starts once, for the connection just made.
ThreadsFresh ==
  /\ \A r \in Readers : rxPc[r] # "none" => r <= conns
  /\ \A r \in Readers : rxConn[r] # None => rxConn[r] <= conns
  /\ \A p \in Callers : callPc[p] = "start" => conns \in Conns /\ rxPc[conns] = "none"

\* Which calls can settle a type, and which must not find it settled.
CallsAgree ==
  /\ \A p \in alone : /\ callPc[p] \in {"subscribing", "subscribe"}
                      /\ callPc[p] = "subscribing" => callApp[p] # AllApps
                      /\ callPc[p] = "subscribe" => callType[p] \in told
                      /\ \A q \in Callers : callType[q] = callType[p] => q = p
  /\ \A p \in Callers : callPc[p] \in {"unsubscribing", "unsubscribe"} => callType[p] \notin settled

\* g_fd is cleared after its descriptor was closed.
ClosedFirst ==
  ~overlap =>
    \A f \in Fds : /\ \A p \in Callers : callPc[p] = "clear" => fdConn[f] = None
                   /\ \A r \in Readers : rxPc[r] = "clear" => fdConn[f] = None

\* Packets are numbered in the order they are sent, per connection too.
Numbered ==
  /\ \A k \in due : k <= Len(packetType)
  /\ \A i \in DOMAIN handled : handled[i] <= Len(packetType)
  /\ \A r \in Readers : rxPacket[r] # None => rxPacket[r] <= Len(packetType)
  /\ \A c \in Conns :
       /\ c > conns => toClient[c] = <<>>
       /\ \A i \in DOMAIN toClient[c] : toClient[c][i] <= Len(packetType)
       /\ \A i, j \in DOMAIN toClient[c] : i < j => toClient[c][i] < toClient[c][j]

\* Until an overlap there is one thread, and it reads the newest connection.
OneReader ==
  ~overlap =>
    /\ \A f \in Fds : fdConn[f] # None => fdConn[f] = conns
    /\ \A r \in Readers : rxPc[r] # "none" => r = conns
    /\ \A r \in Readers : rxConn[r] # None => rxConn[r] = conns

\* A packet goes from the socket to the thread's buffer to its callback.
PacketsOrdered ==
  ~overlap =>
    /\ \A i, j \in DOMAIN handled : i < j => handled[i] < handled[j]
    /\ \A i \in DOMAIN handled : \A r \in Readers :
         rxPacket[r] # None => handled[i] < rxPacket[r]
    /\ \A c \in Conns : c = conns =>
         \A j \in DOMAIN toClient[c] :
           /\ \A i \in DOMAIN handled : handled[i] < toClient[c][j]
           /\ \A r \in Readers : rxPacket[r] # None => rxPacket[r] < toClient[c][j]

\* Where a packet is that is due but not yet with its callback.
OnItsWay(k) ==
  /\ packetType[k] \in settled
  /\ \/ \E r \in Readers : rxPacket[r] = k
     \/ \E c \in Conns : c = conns /\ \E i \in DOMAIN toClient[c] : toClient[c][i] = k

NoneDropped ==
  ~overlap => /\ \A k \in due : k \in ToSet(handled) \/ OnItsWay(k)
              /\ Current = None => due \subseteq ToSet(handled)

\* A thread closes the descriptor only after it has read all the router sent.
ReadToTheEnd ==
  ~overlap => \A r \in Readers : rxPc[r] = "close" =>
                \A c \in Conns : c = conns => toClient[c] = <<>> /\ c \in shut

\* Nothing is due to a client that is in MsgRouteClientDeinit.
QuietDeinit ==
  \A p \in Callers :
    callPc[p] \in {"close", "clear", "sleep"} =>
      settled = {} /\ due = {} /\ alone = {} /\ ~isRunning
-------------------------------------------------------------------------------
(***************************************************************************)
(* Types.                                                                  *)
(***************************************************************************)
SharedTypes ==
  /\ initLock \in Callers \cup {None}
  /\ gFd \in Fds \cup {None} /\ isRunning \in BOOLEAN /\ curAppId \in {AllApps, AppId}
  /\ registered \in SUBSET Types
  /\ deinits \in 0 .. MaxDeinits /\ faults \in 0 .. MaxFaults
  /\ overlap \in BOOLEAN

CallTypes ==
  /\ callPc \in [Callers -> {"idle", "start", "identify", "close", "clear", "sleep",
                             "subscribing", "subscribe", "unsubscribing", "unsubscribe"}]
  /\ callType \in [Callers -> Types \cup {None}] /\ callApp \in [Callers -> {AllApps, AppId}]
  /\ CallPlaces

RxTypes ==
  /\ rxPc \in [Readers -> {"none", "start", "check", "recv", "wait", "copy", "call",
                           "close", "clear"}]
  /\ rxConn \in [Readers -> Conns \cup {None}]
  /\ rxPacket \in [Readers -> Packets \cup {None}]
  /\ RxPlaces

FdTypes ==
  /\ fdConn \in [Fds -> Conns \cup {None}] /\ conns \in 0 .. MaxConns
  /\ FdsDistinct

PacketTypes ==
  /\ toClient \in [Conns -> Seq(Packets)] /\ packetType \in Seq(Types)
  /\ shut \in SUBSET Conns

HistoryTypes ==
  /\ told \in SUBSET Types
  /\ settled \in SUBSET Types /\ alone \in SUBSET Callers
  /\ due \in SUBSET Packets /\ handled \in Seq(Packets)

ThreadTypes == LockHeld /\ ThreadsFresh

Typed ==
  /\ ThreadTypes
  /\ SharedTypes /\ CallTypes /\ RxTypes /\ FdTypes /\ PacketTypes /\ HistoryTypes

LEMMA TypedImpliesTypeOK == Typed => TypeOK
BY DEF Typed, TypeOK, SharedTypes, CallTypes, RxTypes, FdTypes, PacketTypes, HistoryTypes

LEMMA NoneYet ==
  {} \in SUBSET Types /\ {} \in SUBSET Packets /\ {} \in SUBSET Conns /\ {} \in SUBSET Callers
OBVIOUS

LEMMA TypedInit == Init => Typed
<1> SUFFICES ASSUME Init PROVE Typed
  OBVIOUS
<1> USE ConstantsAssumption, NoneYet DEF Init
<1>1. SharedTypes
  <2>1. isRunning \in BOOLEAN /\ overlap \in BOOLEAN
    OBVIOUS
  <2>2. deinits \in 0 .. MaxDeinits /\ faults \in 0 .. MaxFaults
    OBVIOUS
  <2>3. QED BY <2>1, <2>2 DEF SharedTypes
<1>2. CallTypes
  BY DEF CallTypes, CallPlaces
<1>3. RxTypes
  BY DEF RxTypes, RxPlaces
<1>4. FdTypes
  BY DEF FdTypes, FdsDistinct
<1>5. PacketTypes
  BY DEF PacketTypes
<1>6. HistoryTypes
  BY DEF HistoryTypes
<1>7. ThreadTypes
  BY DEF ThreadTypes, LockHeld, ThreadsFresh
<1>8. QED BY <1>1, <1>2, <1>3, <1>4, <1>5, <1>6, <1>7 DEF Typed

\* Fewer connections than descriptors: a descriptor is free.
LEMMA FreeFd ==
  ASSUME FdTypes, conns < MaxConns
  PROVE  LET f == Min({f \in Fds : fdConn[f] = None})
         IN  f \in Fds /\ fdConn[f] = None
<1> DEFINE Free == {f \in Fds : fdConn[f] = None}
<1> USE ConstantsAssumption
<1>1. \E f \in Fds : fdConn[f] = None
  <2> SUFFICES ASSUME \A f \in Fds : fdConn[f] # None PROVE FALSE
    OBVIOUS
  <2>1. fdConn \in [Fds -> 1 .. conns]
    BY DEF FdTypes, FdsDistinct, Conns
  <2>2. MaxConns \in Nat /\ conns \in Nat
    BY DEF FdTypes
  <2>3. /\ IsFiniteSet(Fds) /\ Cardinality(Fds) = MaxConns
        /\ IsFiniteSet(1 .. conns) /\ Cardinality(1 .. conns) = conns
    <3>1. Fds = 1 .. MaxConns
      BY DEF Fds, Conns
    <3>2. \A n \in Nat : IsFiniteSet(1 .. n) /\ Cardinality(1 .. n) = n
      <4>1. \A n \in Nat : n \in Int /\ (IF 1 > n THEN 0 ELSE n - 1 + 1) = n
        OBVIOUS
      <4>2. QED BY <4>1, FS_Interval
    <3>3. QED BY <2>2, <3>1, <3>2
  <2>4. \E f, g \in Fds : f # g /\ fdConn[f] = fdConn[g]
    <3> HIDE ConstantsAssumption
    <3>1. Cardinality(1 .. conns) < Cardinality(Fds)
      BY <2>3
    <3> DEFINE S == Fds  T == 1 .. conns
    <3>2. IsFiniteSet(S) /\ IsFiniteSet(T) /\ Cardinality(T) < Cardinality(S) /\ fdConn \in [S -> T]
      BY <2>1, <2>3, <3>1
    <3> HIDE DEF S, T
    <3>3. \E x, y \in S : x # y /\ fdConn[x] = fdConn[y]
      BY <3>2, FS_PigeonHole
    <3>4. QED BY <3>3 DEF S
  <2>5. QED BY <2>4 DEF FdTypes, FdsDistinct
<1>2. Free \in SUBSET Nat /\ Free # {}
  BY <1>1 DEF Fds, Conns
<1>3. Min(Free) \in Free
  <2> HIDE DEF Free
  <2>1. QED BY <1>2, MinOf
<1>4. QED BY <1>3

LEMMA TypedStep == Typed /\ [Next]_vars => Typed'
<1> SUFFICES ASSUME Typed, [Next]_vars PROVE Typed'
  OBVIOUS
<1> USE ConstantsAssumption, NoneYet DEF Typed, SharedTypes, CallTypes, RxTypes, FdTypes, PacketTypes,
        HistoryTypes, ThreadTypes, LockHeld,
        ThreadsFresh, CallPlaces, RxPlaces, FdsDistinct, Conns, Readers, Fds, Packets, CallAt,
        CallGoto, RxAt, RxGoto, argVars, callVars, rxVars, packetVars, countVars, sharedVars
<1>1. ASSUME NEW p \in Callers, InitConnect(p) PROVE Typed'
  <2>1. SharedTypes'
    BY <1>1, FreeFd DEF InitConnect, Uncertain
  <2>2. CallTypes'
    BY <1>1 DEF InitConnect, Uncertain
  <2>3. RxTypes'
    BY <1>1 DEF InitConnect, Uncertain
  <2>4. FdTypes'
    <3>1. PICK f \in Fds : fdConn[f] = None /\ fdConn' = [fdConn EXCEPT ![f] = conns + 1]
      BY <1>1, FreeFd DEF InitConnect
    <3>2. conns' = conns + 1 /\ conns < MaxConns
      BY <1>1 DEF InitConnect
    <3>3. QED BY <3>1, <3>2, SMTT(30)
  <2>5. PacketTypes'
    BY <1>1 DEF InitConnect, Uncertain
  <2>6. HistoryTypes'
    BY <1>1 DEF InitConnect, Uncertain
  <2>7. ThreadTypes'
    BY <1>1, SMTT(30) DEF InitConnect
  <2>8. QED BY <2>1, <2>2, <2>3, <2>4, <2>5, <2>6, <2>7
<1>2. ASSUME NEW p \in Callers, InitStart(p) PROVE Typed'
  <2>1. SharedTypes'
    BY <1>2 DEF InitStart
  <2>2. CallTypes'
    BY <1>2 DEF InitStart
  <2>3. RxTypes'
    BY <1>2 DEF InitStart
  <2>4. FdTypes'
    BY <1>2 DEF InitStart
  <2>5. PacketTypes'
    BY <1>2 DEF InitStart
  <2>6. HistoryTypes'
    BY <1>2 DEF InitStart
  <2>7. ThreadTypes'
    BY <1>2 DEF InitStart
  <2>8. QED BY <2>1, <2>2, <2>3, <2>4, <2>5, <2>6, <2>7
<1>3. ASSUME NEW p \in Callers, InitStartFails(p) PROVE Typed'
  BY <1>3, SMTT(30) DEF InitStartFails
<1>4. ASSUME NEW p \in Callers, InitIdentify(p) PROVE Typed'
  BY <1>4 DEF InitIdentify
<1>5. ASSUME NEW p \in Callers, DeinitStop(p) PROVE Typed'
  <2>1. SharedTypes'
    <3>1. isRunning' \in BOOLEAN
      BY <1>5 DEF DeinitStop, DeinitBegin
    <3>2. deinits' \in 0 .. MaxDeinits
      BY <1>5 DEF DeinitStop, DeinitBegin
    <3>3. QED BY <1>5, <3>1, <3>2 DEF DeinitStop, DeinitBegin
  <2>2. CallTypes'
    BY <1>5 DEF DeinitStop, DeinitBegin, Uncertain
  <2>3. RxTypes'
    BY <1>5 DEF DeinitStop, DeinitBegin, Uncertain
  <2>4. FdTypes'
    BY <1>5 DEF DeinitStop, DeinitBegin, Uncertain
  <2>5. PacketTypes'
    BY <1>5 DEF DeinitStop, DeinitBegin, Uncertain
  <2>6. HistoryTypes'
    BY <1>5 DEF DeinitStop, DeinitBegin, Uncertain
  <2>7. ThreadTypes'
    BY <1>5 DEF DeinitStop, DeinitBegin
  <2>8. QED BY <2>1, <2>2, <2>3, <2>4, <2>5, <2>6, <2>7
<1>6. ASSUME NEW p \in Callers, DeinitClose(p) PROVE Typed'
  BY <1>6 DEF DeinitClose, DeinitTo, CloseFd
<1>7. ASSUME NEW p \in Callers, DeinitClear(p) PROVE Typed'
  BY <1>7 DEF DeinitClear, DeinitTo
<1>8. ASSUME NEW p \in Callers, DeinitEnd(p) PROVE Typed'
  BY <1>8 DEF DeinitEnd, DeinitLeaves, DeinitTo
<1>9. ASSUME NEW p \in Callers, NEW t \in Types, SubscribeAsk(p, t) \/ UnsubscribeAsk(p, t) PROVE Typed'
  <2>1. PICK pc \in {"subscribing", "unsubscribing"} : Ask(p, pc, t)
    BY <1>9 DEF SubscribeAsk, UnsubscribeAsk
  <2>2. CallTypes'
    <3>1. callPc' = [callPc EXCEPT ![p] = pc] /\ callType' = [callType EXCEPT ![p] = t]
      BY <2>1 DEF Ask
    <3>2. callApp' \in [Callers -> {AllApps, AppId}]
      BY <2>1 DEF Ask
    <3>3. CallPlaces'
      BY <3>1
    <3>4. QED BY <3>1, <3>2, <3>3
  <2>3. HistoryTypes'
    BY <1>9 DEF SubscribeAsk, UnsubscribeAsk, Ask
  <2>4. SharedTypes' /\ RxTypes' /\ FdTypes' /\ PacketTypes'
    BY <2>1 DEF Ask
  <2>5. ThreadTypes'
    BY <2>1 DEF Ask
  <2>6. QED BY <2>2, <2>3, <2>4, <2>5
<1>10. ASSUME NEW p \in Callers, SubscribeTell(p) \/ UnsubscribeTell(p) \/ TellFails(p) PROVE Typed'
  <2>1. CASE SubscribeTell(p)
    BY <2>1 DEF SubscribeTell, Tell
  <2>2. CASE UnsubscribeTell(p)
    BY <2>2 DEF UnsubscribeTell, Tell
  <2>3. CASE TellFails(p)
    BY <2>3 DEF TellFails, Return
  <2>4. QED BY <1>10, <2>1, <2>2, <2>3
<1>11. ASSUME NEW p \in Callers, SubscribeRegister(p) PROVE Typed'
  BY <1>11, SMTT(30) DEF SubscribeRegister, Return, Settle
<1>12. ASSUME NEW p \in Callers, UnsubscribeClear(p) PROVE Typed'
  BY <1>12 DEF UnsubscribeClear, Return
<1>13. ASSUME NEW r \in Readers, RxStart(r) PROVE Typed'
  <2>1. SharedTypes'
    BY <1>13 DEF RxStart, RxStep
  <2>2. CallTypes'
    BY <1>13 DEF RxStart, RxStep
  <2>3. RxTypes'
    BY <1>13, ZenonT(40) DEF RxStart, RxStep
  <2>4. FdTypes'
    BY <1>13 DEF RxStart, RxStep
  <2>5. PacketTypes'
    BY <1>13 DEF RxStart, RxStep
  <2>6. HistoryTypes'
    BY <1>13 DEF RxStart, RxStep
  <2>7. ThreadTypes'
    BY <1>13 DEF RxStart, RxStep
  <2>8. QED BY <2>1, <2>2, <2>3, <2>4, <2>5, <2>6, <2>7
<1>14. ASSUME NEW r \in Readers, RxCheck(r) PROVE Typed'
  BY <1>14 DEF RxCheck, RxStep
<1>15. ASSUME NEW r \in Readers, RxRecv(r) PROVE Typed'
  BY <1>15, ZenonT(40) DEF RxRecv, RxStep, Current
<1>16. ASSUME NEW r \in Readers, RxTake(r) PROVE Typed'
  <2>1. PICK c \in Conns : /\ rxConn[r] = c /\ toClient[c] # <<>>
                           /\ rxPacket' = [rxPacket EXCEPT ![r] = Head(toClient[c])]
                           /\ toClient' = [toClient EXCEPT ![c] = Tail(toClient[c])]
    BY <1>16 DEF RxTake
  <2>2. Head(toClient[c]) \in Packets /\ Tail(toClient[c]) \in Seq(Packets)
    BY <2>1, HeadTailProperties
  <2>3. PICK k \in Packets, q \in Seq(Packets) : /\ rxPacket' = [rxPacket EXCEPT ![r] = k]
                                                 /\ toClient' = [toClient EXCEPT ![c] = q]
    BY <2>1, <2>2
  <2>4. RxGoto(r, "copy") /\ rxPc[r] = "wait" /\ rxConn' = [rxConn EXCEPT ![r] = None]
    BY <1>16 DEF RxTake
  <2>5. RxTypes'
    BY <2>3, <2>4, SMTT(30)
  <2>6. toClient' \in [Conns -> Seq(Packets)]
    BY <2>3
  <2>7. UNCHANGED <<gFd, fdConn, faults, handled>> /\ RxStep
    BY <1>16 DEF RxTake
  <2>8. ThreadTypes'
    BY <2>4, <2>7 DEF RxStep
  <2>9. SharedTypes' /\ CallTypes' /\ FdTypes' /\ PacketTypes' /\ HistoryTypes'
    BY <2>6, <2>7 DEF RxStep
  <2>10. QED BY <2>5, <2>8, <2>9
<1>17. ASSUME NEW r \in Readers, RxEnd(r) PROVE Typed'
  BY <1>17 DEF RxEnd, RxStep
<1>18. ASSUME NEW r \in Readers, RxClose(r) PROVE Typed'
  BY <1>18 DEF RxClose, RxStep, CloseFd
<1>19. ASSUME NEW r \in Readers, RxClear(r) PROVE Typed'
  BY <1>19 DEF RxClear, RxStep
<1>20. ASSUME NEW r \in Readers, RxCopy(r) PROVE Typed'
  <2>1. SharedTypes'
    BY <1>20 DEF RxCopy, RxStep
  <2>2. CallTypes'
    BY <1>20 DEF RxCopy, RxStep
  <2>3. RxTypes'
    <3>1. CASE RxGoto(r, "call") /\ UNCHANGED rxPacket
      BY <1>20, <3>1 DEF RxCopy
    <3>2. CASE RxGoto(r, "check") /\ rxPacket' = [rxPacket EXCEPT ![r] = None]
      BY <1>20, <3>2 DEF RxCopy
    <3>3. QED BY <1>20, <3>1, <3>2 DEF RxCopy
  <2>4. FdTypes'
    BY <1>20 DEF RxCopy, RxStep
  <2>5. PacketTypes'
    BY <1>20 DEF RxCopy, RxStep
  <2>6. HistoryTypes'
    BY <1>20 DEF RxCopy, RxStep
  <2>7. ThreadTypes'
    BY <1>20 DEF RxCopy, RxStep
  <2>8. QED BY <2>1, <2>2, <2>3, <2>4, <2>5, <2>6, <2>7
<1>21. ASSUME NEW r \in Readers, RxCall(r) PROVE Typed'
  <2>1. rxPacket[r] \in Packets
    BY <1>21 DEF RxCall
  <2>2. handled' \in Seq(Packets)
    BY <1>21, <2>1, AppendProperties DEF RxCall
  <2>3. HistoryTypes'
    BY <1>21, <2>2 DEF RxCall, RxStep
  <2>4. RxTypes' /\ ThreadTypes'
    BY <1>21 DEF RxCall, RxStep
  <2>5. SharedTypes' /\ CallTypes' /\ FdTypes' /\ PacketTypes'
    BY <1>21 DEF RxCall, RxStep
  <2>6. QED BY <2>3, <2>4, <2>5
<1>22. ASSUME NEW c \in Conns, RouterClose(c) PROVE Typed'
  BY <1>22 DEF RouterClose, RouterStep
<1>23. ASSUME NEW c \in Conns, NEW t \in Types, RouterSend(c, t) PROVE Typed'
  <2>1. SharedTypes'
    BY <1>23 DEF RouterSend, RouterStep
  <2>2. CallTypes'
    BY <1>23 DEF RouterSend, RouterStep
  <2>3. RxTypes'
    BY <1>23 DEF RouterSend, RouterStep
  <2>4. FdTypes'
    BY <1>23 DEF RouterSend, RouterStep
  <2>5. PacketTypes'
    BY <1>23 DEF RouterSend, RouterStep
  <2>6. HistoryTypes'
    <3>1. Len(packetType') \in Packets
      BY <1>23, AppendProperties DEF RouterSend
    <3>2. due' \in SUBSET Packets
      BY <1>23, <3>1 DEF RouterSend
    <3>3. QED BY <1>23, <3>2 DEF RouterSend, RouterStep
  <2>7. ThreadTypes'
    BY <1>23 DEF RouterSend, RouterStep
  <2>8. QED BY <2>1, <2>2, <2>3, <2>4, <2>5, <2>6, <2>7
<1>24. CASE UNCHANGED vars
  BY <1>24 DEF vars
<1>25. QED
  BY NextCases, <1>1, <1>2, <1>3, <1>4, <1>5, <1>6, <1>7, <1>8, <1>9, <1>10, <1>11, <1>12,
     <1>13, <1>14, <1>15, <1>16, <1>17, <1>18, <1>19, <1>20, <1>21, <1>22, <1>23, <1>24

\* Every variable of the client keeps its type, however calls, threads and the
\* router interleave; among others recv() never returns packets of a connection
\* that is not there and each Init finds a free descriptor.
THEOREM TypeCorrect == Spec => []TypeOK
BY TypedInit, TypedStep, TypedImpliesTypeOK, PTL DEF Spec
-------------------------------------------------------------------------------
(***************************************************************************)
(* The two tables.  A Subscribe settles its type if no call crossed it, so *)
(* the invariant says what is known of the calls that are under way.       *)
(***************************************************************************)
Agreed == CallsAgree /\ TablesAgree

LEMMA AgreedInit == Init => Agreed
BY DEF Init, Agreed, CallsAgree, TablesAgree

\* Neither the threads nor the router change the tables.
LEMMA OnlyCallsSettle ==
  ASSUME Next
  PROVE  \/ UNCHANGED <<callVars, registered, told, settled, alone>>
         \/ \E p \in Callers :
              \/ InitConnect(p) \/ InitStart(p) \/ InitStartFails(p) \/ InitIdentify(p)
              \/ DeinitStop(p) \/ DeinitClose(p) \/ DeinitClear(p) \/ DeinitEnd(p)
              \/ SubscribeTell(p) \/ UnsubscribeTell(p) \/ TellFails(p)
              \/ SubscribeRegister(p) \/ UnsubscribeClear(p)
              \/ \E t \in Types : SubscribeAsk(p, t) \/ UnsubscribeAsk(p, t)
<1>1. ASSUME NEW r \in Readers,
             \/ RxStart(r) \/ RxCheck(r) \/ RxRecv(r) \/ RxTake(r) \/ RxEnd(r)
             \/ RxClose(r) \/ RxClear(r) \/ RxCopy(r) \/ RxCall(r)
      PROVE  UNCHANGED <<callVars, registered, told, settled, alone>>
  <2>1. RxStep
    BY <1>1 DEF RxStart, RxCheck, RxRecv, RxTake, RxEnd, RxClose, RxClear, RxCopy, RxCall
  <2>2. QED BY <2>1 DEF RxStep
<1>2. ASSUME NEW c \in Conns, RouterClose(c) \/ \E t \in Types : RouterSend(c, t)
      PROVE  UNCHANGED <<callVars, registered, told, settled, alone>>
  BY <1>2 DEF RouterClose, RouterSend, RouterStep
<1>3. QED BY NextCases, <1>1, <1>2

LEMMA AgreedStep == Typed /\ Agreed /\ [Next]_vars => Agreed'
<1> SUFFICES ASSUME Typed, Agreed, [Next]_vars PROVE Agreed'
  OBVIOUS
<1> USE ConstantsAssumption DEF Typed, CallTypes, CallPlaces, HistoryTypes, Agreed, CallsAgree,
        TablesAgree, CallAt, CallGoto
<1>1. CASE UNCHANGED <<callVars, registered, told, settled, alone>>
  BY <1>1 DEF callVars, argVars
<1>2. ASSUME NEW p \in Callers, InitConnect(p) \/ DeinitStop(p) PROVE Agreed'
  BY <1>2 DEF InitConnect, DeinitStop, DeinitBegin, Uncertain
<1>3. ASSUME NEW p \in Callers,
             \/ InitStart(p) \/ InitStartFails(p) \/ InitIdentify(p)
             \/ DeinitClose(p) \/ DeinitClear(p) \/ DeinitEnd(p)
      PROVE  Agreed'
  <2>1. UNCHANGED <<registered, argVars, told, settled, alone>>
    BY <1>3 DEF InitStart, InitStartFails, InitIdentify, DeinitClose, DeinitClear, DeinitEnd,
                DeinitLeaves, DeinitTo
  <2>2. /\ callPc[p] \in {"start", "identify", "close", "clear", "sleep"}
        /\ \E pc \in {"identify", "idle", "clear", "sleep"} : callPc' = [callPc EXCEPT ![p] = pc]
    BY <1>3 DEF InitStart, InitStartFails, InitIdentify, DeinitClose, DeinitClear, DeinitEnd,
                DeinitLeaves, DeinitTo
  <2>3. QED BY <2>1, <2>2 DEF argVars
<1>4. ASSUME NEW p \in Callers, NEW t \in Types, SubscribeAsk(p, t) \/ UnsubscribeAsk(p, t) PROVE Agreed'
  <2>1. CASE SubscribeAsk(p, t)
    BY <2>1 DEF SubscribeAsk, Ask, CallsFor
  <2>2. CASE UnsubscribeAsk(p, t)
    BY <2>2 DEF UnsubscribeAsk, Ask, CallsFor
  <2>3. QED BY <1>4, <2>1, <2>2
<1>5. ASSUME NEW p \in Callers, SubscribeTell(p) \/ UnsubscribeTell(p) \/ TellFails(p) PROVE Agreed'
  <2>1. CASE SubscribeTell(p)
    BY <2>1 DEF SubscribeTell, Tell
  <2>2. CASE UnsubscribeTell(p)
    BY <2>2 DEF UnsubscribeTell, Tell
  <2>3. CASE TellFails(p)
    BY <2>3 DEF TellFails, Return
  <2>4. QED BY <1>5, <2>1, <2>2, <2>3
<1>6. ASSUME NEW p \in Callers, SubscribeRegister(p) PROVE Agreed'
  BY <1>6 DEF SubscribeRegister, Return, Settle
<1>7. ASSUME NEW p \in Callers, UnsubscribeClear(p) PROVE Agreed'
  BY <1>7 DEF UnsubscribeClear, Return
<1>8. CASE UNCHANGED vars
  BY <1>1, <1>8 DEF vars, callVars
<1>9. QED BY OnlyCallsSettle, <1>1, <1>2, <1>3, <1>4, <1>5, <1>6, <1>7, <1>8

\* What a Subscribe promises that was called with g_curAppId set, once it has
\* returned without an Init, a Deinit or a call for its type in between: the type
\* has its callback and the router has the request, whatever calls for other
\* types interleave with the look at g_curAppId, send() and the table, and
\* whatever calls for it, with whichever id, came to their end before
\* (MsgRouteClientSubscribeMsg).
THEOREM SettledInBothTables == Spec => []TablesAgree
<1>1. Agreed => TablesAgree
  BY DEF Agreed
<1>2. QED BY TypedInit, TypedStep, AgreedInit, AgreedStep, <1>1, PTL DEF Spec
-------------------------------------------------------------------------------
(***************************************************************************)
(* The descriptor.  Deinit holds the lock while it closes and clears g_fd, *)
(* and an Init that finds a thread between its close and its clear is an   *)
(* overlap: nobody else's descriptor is forgotten.                         *)
(***************************************************************************)
Owned == DescriptorOwned /\ ClosedFirst

LEMMA OwnedInit == Init => Owned
BY DEF Init, Owned, DescriptorOwned, ClosedFirst

LEMMA OwnedStep == Typed /\ Owned /\ [Next]_vars => Owned'
<1> SUFFICES ASSUME Typed, Owned, [Next]_vars PROVE Owned'
  OBVIOUS
<1> USE ConstantsAssumption DEF Typed, ThreadTypes, LockHeld, ThreadsFresh, CallTypes, RxTypes,
        FdTypes, SharedTypes, Owned, DescriptorOwned, ClosedFirst, CallAt, CallGoto, RxAt, RxGoto,
        Fds, Conns, Readers
<1>1. CASE UNCHANGED <<gFd, fdConn, overlap, callPc, rxPc>>
  BY <1>1
<1>2. ASSUME NEW p \in Callers, InitConnect(p) PROVE Owned'
  <2>1. PICK f \in Fds : /\ fdConn[f] = None /\ fdConn' = [fdConn EXCEPT ![f] = conns + 1]
                         /\ gFd' = f
    BY <1>2, FreeFd DEF InitConnect
  <2>2. \A q \in Callers : callPc'[q] # "clear"
    BY <1>2 DEF InitConnect
  <2>3. ~overlap' => ~overlap /\ gFd = None /\ \A r \in Readers : rxPc[r] = "none"
    BY <1>2 DEF InitConnect
  <2>4. rxPc' = rxPc
    BY <1>2 DEF InitConnect, rxVars
  <2>5. QED BY <2>1, <2>2, <2>3, <2>4
<1>3. ASSUME NEW p \in Callers, InitStart(p) PROVE Owned'
  BY <1>3 DEF InitStart
<1>4. ASSUME NEW p \in Callers, InitStartFails(p) \/ InitIdentify(p) \/ DeinitStop(p) PROVE Owned'
  BY <1>4 DEF InitStartFails, InitIdentify, DeinitStop, DeinitBegin, rxVars
<1>5. ASSUME NEW p \in Callers, DeinitClose(p) PROVE Owned'
  BY <1>5 DEF DeinitClose, DeinitTo, CloseFd, rxVars
<1>6. ASSUME NEW p \in Callers, DeinitClear(p) PROVE Owned'
  BY <1>6 DEF DeinitClear, DeinitTo, rxVars
<1>7. ASSUME NEW p \in Callers, DeinitEnd(p) PROVE Owned'
  BY <1>7 DEF DeinitEnd, DeinitLeaves, DeinitTo, rxVars
<1>8. ASSUME NEW p \in Callers,
             \/ SubscribeTell(p) \/ UnsubscribeTell(p)
             \/ \E t \in Types : SubscribeAsk(p, t) \/ UnsubscribeAsk(p, t)
      PROVE  Owned'
  BY <1>8 DEF SubscribeTell, UnsubscribeTell, Tell, SubscribeAsk, UnsubscribeAsk, Ask, rxVars, sharedVars
<1>9. ASSUME NEW p \in Callers, TellFails(p) \/ SubscribeRegister(p) \/ UnsubscribeClear(p) PROVE Owned'
  BY <1>9 DEF TellFails, SubscribeRegister, UnsubscribeClear, Return, rxVars, sharedVars
<1>10. ASSUME NEW r \in Readers,
              RxStart(r) \/ RxCheck(r) \/ RxRecv(r) \/ RxTake(r) \/ RxEnd(r) \/ RxCopy(r) \/ RxCall(r)
       PROVE  Owned'
  <2>1. UNCHANGED <<gFd, fdConn>> /\ RxStep
    BY <1>10 DEF RxStart, RxCheck, RxRecv, RxTake, RxEnd, RxCopy, RxCall
  <2>2. \E pc \in {"check", "none", "recv", "wait", "copy", "close", "call"} : RxGoto(r, pc)
    BY <1>10 DEF RxStart, RxCheck, RxRecv, RxTake, RxEnd, RxCopy, RxCall
  <2>3. QED BY <2>1, <2>2 DEF RxStep, callVars
<1>11. ASSUME NEW r \in Readers, RxClose(r) PROVE Owned'
  BY <1>11 DEF RxClose, RxStep, CloseFd, callVars
<1>12. ASSUME NEW r \in Readers, RxClear(r) PROVE Owned'
  BY <1>12 DEF RxClear, RxStep, callVars
<1>13. ASSUME NEW c \in Conns, RouterClose(c) \/ \E t \in Types : RouterSend(c, t) PROVE Owned'
  BY <1>13 DEF RouterClose, RouterSend, RouterStep, sharedVars, callVars, rxVars
<1>14. CASE UNCHANGED vars
  BY <1>1, <1>14 DEF vars, sharedVars, callVars, rxVars
<1>15. QED BY NextCases, <1>2, <1>3, <1>4, <1>5, <1>6, <1>7, <1>8, <1>9, <1>10, <1>11, <1>12,
              <1>13, <1>14

\* No descriptor is lost: until an Init finds one of an earlier Init, every open
\* descriptor is the one in g_fd, also while a Deinit and a thread that found the
\* end of its connection close and clear it at the same time.
THEOREM NoDescriptorLost == Spec => []DescriptorOwned
<1>1. Owned => DescriptorOwned
  BY DEF Owned
<1>2. QED BY TypedInit, TypedStep, OwnedInit, OwnedStep, <1>1, PTL DEF Spec
-------------------------------------------------------------------------------
(***************************************************************************)
(* Packets.  What the three steps that move one do to the sequences.       *)
(***************************************************************************)
Taken(r, c, k, q) ==
  /\ rxConn[r] = c /\ 1 \in DOMAIN toClient[c] /\ k = toClient[c][1]
  /\ rxPacket' = [rxPacket EXCEPT ![r] = k]
  /\ toClient' = [toClient EXCEPT ![c] = q]
  /\ \A i \in DOMAIN q : i + 1 \in DOMAIN toClient[c] /\ q[i] = toClient[c][i + 1] /\ 1 < i + 1
  /\ \A j \in DOMAIN toClient[c] : j = 1 \/ \E i \in DOMAIN q : i + 1 = j
  /\ rxPc[r] = "wait" /\ UNCHANGED <<gFd, fdConn, handled>> /\ RxStep

LEMMA TakeMoves ==
  ASSUME Typed, NEW r \in Readers, RxTake(r)
  PROVE  \E c \in Conns, k \in Packets, q \in Seq(Packets) : Taken(r, c, k, q)
<1>1. PICK c \in Conns : /\ rxConn[r] = c /\ toClient[c] # <<>>
                         /\ rxPacket' = [rxPacket EXCEPT ![r] = Head(toClient[c])]
                         /\ toClient' = [toClient EXCEPT ![c] = Tail(toClient[c])]
  BY ConstantsAssumption
     DEF RxTake, RxAt, Typed, RxTypes, RxPlaces, PacketTypes, Readers, Conns
<1>2. toClient[c] \in Seq(Packets)
  BY DEF Typed, PacketTypes
<1> DEFINE s == toClient[c]  q == Tail(s)
<1>3. /\ Head(s) \in Packets /\ q \in Seq(Packets)
      /\ Len(s) \in Nat \ {0} /\ DOMAIN s = 1 .. Len(s) /\ Head(s) = s[1]
      /\ Len(q) = Len(s) - 1 /\ DOMAIN q = 1 .. Len(q)
      /\ \A i \in 1 .. Len(q) : q[i] = s[i + 1]
  BY <1>1, <1>2, HeadTailProperties, EmptySeq
<1> HIDE DEF q, s
<1>4. /\ \A i \in DOMAIN q : i + 1 \in DOMAIN s /\ q[i] = s[i + 1] /\ 1 < i + 1
      /\ \A j \in DOMAIN s : j = 1 \/ \E i \in DOMAIN q : i + 1 = j
      /\ 1 \in DOMAIN s
  <2>1. \A j \in DOMAIN s : j = 1 \/ j - 1 \in DOMAIN q
    BY <1>3
  <2>2. \A j \in DOMAIN s : (j - 1) + 1 = j
    BY <1>3
  <2>3. QED BY <1>3, <2>1, <2>2
<1>5. rxPc[r] = "wait" /\ UNCHANGED <<gFd, fdConn, handled>> /\ RxStep
  BY DEF RxTake, RxAt
<1>6. Taken(r, c, Head(s), q)
  BY <1>1, <1>3, <1>4, <1>5 DEF Taken, q, s
<1>7. QED BY <1>3, <1>6

LEMMA CallMoves ==
  ASSUME Typed, NEW r \in Readers, RxCall(r)
  PROVE  LET n == Len(handled) + 1
         IN  /\ rxPacket[r] \in Packets
             /\ n \in Nat \ {0} /\ DOMAIN handled = 1 .. n - 1
             /\ handled' \in Seq(Packets) /\ DOMAIN handled' = 1 .. n
             /\ handled'[n] = rxPacket[r] /\ \A i \in 1 .. n - 1 : handled'[i] = handled[i]
             /\ rxPacket' = [rxPacket EXCEPT ![r] = None]
             /\ rxPc[r] = "call" /\ rxPc' = [rxPc EXCEPT ![r] = "check"]
             /\ UNCHANGED <<gFd, rxConn, fdConn, toClient, faults>> /\ RxStep
<1>1. rxPc[r] = "call" /\ rxPacket[r] \in Packets
  BY DEF RxCall, RxAt, Typed, RxTypes, RxPlaces
<1>2. handled \in Seq(Packets) /\ handled' = Append(handled, rxPacket[r])
  BY DEF RxCall, Typed, HistoryTypes
<1>3. /\ handled' \in Seq(Packets) /\ Len(handled') = Len(handled) + 1
      /\ handled'[Len(handled) + 1] = rxPacket[r]
      /\ \A i \in 1 .. Len(handled) : handled'[i] = handled[i]
  BY <1>1, <1>2, AppendProperties
<1>4. /\ Len(handled) \in Nat /\ DOMAIN handled = 1 .. Len(handled)
      /\ DOMAIN handled' = 1 .. Len(handled')
  BY <1>2, <1>3, LenProperties
<1>5. QED BY <1>1, <1>3, <1>4 DEF RxCall, RxGoto

LEMMA SendMoves ==
  ASSUME Typed, NEW c \in Conns, NEW t \in Types, RouterSend(c, t)
  PROVE  LET n == Len(packetType) + 1
         IN  /\ n \in Packets /\ Len(packetType') = n /\ packetType'[n] = t
             /\ \A k \in 1 .. n - 1 : packetType'[k] = packetType[k]
             /\ c <= conns
             /\ \E q \in Seq(Packets), m \in Nat :
                  /\ toClient' = [toClient EXCEPT ![c] = q]
                  /\ DOMAIN toClient[c] = 1 .. m /\ DOMAIN q = 1 .. m + 1
                  /\ q[m + 1] = n /\ \A i \in 1 .. m : q[i] = toClient[c][i]
             /\ due' = IF t \in settled /\ c = Current THEN due \cup {n} ELSE due
             /\ c \notin shut /\ UNCHANGED shut /\ RouterStep
<1>1. packetType \in Seq(Types) /\ packetType' = Append(packetType, t) /\ Len(packetType) < MaxPackets
  BY DEF RouterSend, Typed, PacketTypes
<1>2. /\ Len(packetType) \in Nat /\ Len(packetType') = Len(packetType) + 1
      /\ packetType'[Len(packetType) + 1] = t
      /\ \A k \in 1 .. Len(packetType) : packetType'[k] = packetType[k]
  BY <1>1, AppendProperties, LenProperties
<1> DEFINE n == Len(packetType) + 1
<1>3. n \in Packets
  BY <1>1, <1>2, ConstantsAssumption DEF Packets
<1>4. toClient[c] \in Seq(Packets) /\ toClient' = [toClient EXCEPT ![c] = Append(toClient[c], n)]
  BY <1>2 DEF RouterSend, Typed, PacketTypes
<1> HIDE DEF n
<1>5. PICK q \in Seq(Packets), m \in Nat :
         /\ toClient' = [toClient EXCEPT ![c] = q]
         /\ DOMAIN toClient[c] = 1 .. m /\ DOMAIN q = 1 .. m + 1
         /\ q[m + 1] = n /\ \A i \in 1 .. m : q[i] = toClient[c][i]
  <2> DEFINE s == toClient[c]  q == Append(s, n)
  <2>1. /\ q \in Seq(Packets) /\ Len(q) = Len(s) + 1 /\ q[Len(s) + 1] = n
        /\ \A i \in 1 .. Len(s) : q[i] = s[i]
    BY <1>3, <1>4, AppendProperties
  <2>2. Len(s) \in Nat /\ DOMAIN s = 1 .. Len(s) /\ DOMAIN q = 1 .. Len(q)
    BY <1>4, <2>1, LenProperties
  <2>3. toClient' = [toClient EXCEPT ![c] = q]
    BY <1>4
  <2> HIDE DEF q
  <2>4. QED BY <2>1, <2>2, <2>3
<1>6. c <= conns
  BY ConstantsAssumption, SMTT(30) DEF RouterSend, InUse, Typed, FdTypes, FdsDistinct, ThreadTypes,
     ThreadsFresh, Readers, Conns
<1>7. /\ Len(packetType') = n /\ packetType'[n] = t
      /\ \A k \in 1 .. n - 1 : packetType'[k] = packetType[k]
  BY <1>2 DEF n
<1>8. /\ due' = IF t \in settled /\ c = Current THEN due \cup {n} ELSE due
      /\ c \notin shut /\ UNCHANGED shut /\ RouterStep
  BY <1>7 DEF RouterSend
<1>9. QED BY <1>3, <1>5, <1>6, <1>7, <1>8 DEF n

\* Callers move no packet, and make none due.
LEMMA CallersLeavePackets ==
  ASSUME NEW p \in Callers,
         \/ InitConnect(p) \/ InitStart(p) \/ InitStartFails(p) \/ InitIdentify(p)
         \/ DeinitStop(p) \/ DeinitClose(p) \/ DeinitClear(p) \/ DeinitEnd(p)
         \/ SubscribeTell(p) \/ UnsubscribeTell(p) \/ TellFails(p)
         \/ SubscribeRegister(p) \/ UnsubscribeClear(p)
         \/ \E t \in Types : SubscribeAsk(p, t) \/ UnsubscribeAsk(p, t)
  PROVE  /\ UNCHANGED <<packetVars, handled, rxConn, rxPacket>>
         /\ due' \subseteq due
         /\ conns' = conns \/ (InitConnect(p) /\ conns' = conns + 1)
<1> USE DEF rxVars, packetVars
<1>1. CASE InitConnect(p)
  BY <1>1 DEF InitConnect
<1>2. CASE InitStart(p) \/ InitStartFails(p) \/ InitIdentify(p)
  BY <1>2 DEF InitStart, InitStartFails, InitIdentify
<1>3. CASE DeinitStop(p)
  BY <1>3 DEF DeinitStop, DeinitBegin
<1>4. CASE DeinitClose(p) \/ DeinitClear(p) \/ DeinitEnd(p)
  BY <1>4 DEF DeinitClose, DeinitClear, DeinitEnd, DeinitLeaves, DeinitTo
<1>5. CASE TellFails(p) \/ SubscribeRegister(p) \/ UnsubscribeClear(p)
  BY <1>5 DEF TellFails, SubscribeRegister, UnsubscribeClear, Return
<1>6. CASE \/ SubscribeTell(p) \/ UnsubscribeTell(p)
           \/ \E t \in Types : SubscribeAsk(p, t) \/ UnsubscribeAsk(p, t)
  BY <1>6 DEF SubscribeTell, UnsubscribeTell, Tell, SubscribeAsk, UnsubscribeAsk, Ask
<1>7. QED BY <1>1, <1>2, <1>3, <1>4, <1>5, <1>6

\* Nor do the steps of a thread other than recv() and the callback.
LEMMA ThreadsLeavePackets ==
  ASSUME NEW r \in Readers,
         RxStart(r) \/ RxCheck(r) \/ RxRecv(r) \/ RxEnd(r) \/ RxClose(r) \/ RxClear(r) \/ RxCopy(r)
  PROVE  /\ UNCHANGED <<toClient, handled>> /\ RxStep
         /\ \/ UNCHANGED rxPacket
            \/ /\ rxPacket' = [rxPacket EXCEPT ![r] = None]
               /\ RxCopy(r) /\ packetType[rxPacket[r]] \notin registered
BY DEF RxStart, RxCheck, RxRecv, RxEnd, RxClose, RxClear, RxCopy

LEMMA NumberedStep == Typed /\ Numbered /\ [Next]_vars => Numbered'
<1> SUFFICES ASSUME Typed, Numbered, [Next]_vars PROVE Numbered'
  OBVIOUS
<1> USE ConstantsAssumption DEF Numbered
<1>0. /\ conns \in Nat /\ Len(packetType) \in Nat /\ due \in SUBSET Nat
      /\ \A k \in Packets : k \in Nat
      /\ rxPacket \in [Readers -> Packets \cup {None}] /\ None \notin Packets
      /\ \A i \in DOMAIN handled : handled[i] \in Nat
      /\ toClient \in [Conns -> Seq(Packets)]
      /\ \A c \in Conns : c \in Nat /\ \A i \in DOMAIN toClient[c] : toClient[c][i] \in Nat
  <2>1. \A s \in Seq(Packets) : \A i \in DOMAIN s : s[i] \in Nat
    BY ElementOfSeq, LenProperties DEF Packets
  <2>2. Len(packetType) \in Nat
    BY LenProperties DEF Typed, PacketTypes
  <2>3. QED BY <2>1, <2>2 DEF Typed, FdTypes, PacketTypes, HistoryTypes, RxTypes, Conns, Packets
<1>1. CASE \E p \in Callers :
             \/ InitConnect(p) \/ InitStart(p) \/ InitStartFails(p) \/ InitIdentify(p)
             \/ DeinitStop(p) \/ DeinitClose(p) \/ DeinitClear(p) \/ DeinitEnd(p)
             \/ SubscribeTell(p) \/ UnsubscribeTell(p) \/ TellFails(p)
             \/ SubscribeRegister(p) \/ UnsubscribeClear(p)
             \/ \E t \in Types : SubscribeAsk(p, t) \/ UnsubscribeAsk(p, t)
  <2>1. /\ UNCHANGED <<toClient, packetType, handled, rxPacket>> /\ due' \subseteq due
        /\ conns' \in {conns, conns + 1}
    BY <1>1, CallersLeavePackets DEF packetVars
  <2>2. QED BY <1>0, <2>1
<1>2. ASSUME NEW r \in Readers,
             RxStart(r) \/ RxCheck(r) \/ RxRecv(r) \/ RxEnd(r) \/ RxClose(r) \/ RxClear(r) \/ RxCopy(r)
      PROVE  Numbered'
  BY <1>0, <1>2, ThreadsLeavePackets DEF RxStep
<1>3. ASSUME NEW r \in Readers, RxTake(r) PROVE Numbered'
  <2>1. PICK c \in Conns, k \in Packets, q \in Seq(Packets) : Taken(r, c, k, q)
    BY <1>3, TakeMoves
  <2> USE DEF Taken
  <2>2. UNCHANGED <<conns, packetType, due, handled>>
    BY <2>1 DEF RxStep
  <2>3. ASSUME NEW d \in Conns PROVE Numbered!4!(d)'
    <3>1. CASE d # c
      BY <1>0, <2>1, <2>2, <3>1
    <3>2. CASE d = c
      <4>1. toClient'[d] = q
        BY <1>0, <2>1, <3>2
      <4>2. ~(c > conns)
        BY <2>1
      <4>3. \A i \in DOMAIN q : i \in Int
        BY <2>1, LenProperties
      <4>4. \A i \in DOMAIN q : q[i] <= Len(packetType)
        BY <2>1
      <4>5. \A i, j \in DOMAIN q : i < j => q[i] < q[j]
        BY <2>1, <4>3
      <4>6. QED BY <2>2, <3>2, <4>1, <4>2, <4>4, <4>5
    <3>3. QED BY <3>1, <3>2
  <2>4. \A x \in Readers : rxPacket'[x] # None => rxPacket'[x] <= Len(packetType')
    BY <1>0, <2>1, <2>2
  <2>5. QED BY <2>2, <2>3, <2>4
<1>4. ASSUME NEW r \in Readers, RxCall(r) PROVE Numbered'
  <2> DEFINE n == Len(handled) + 1
  <2>1. /\ rxPacket[r] \in Packets /\ n \in Nat /\ DOMAIN handled = 1 .. n - 1
        /\ DOMAIN handled' = 1 .. n
        /\ handled'[n] = rxPacket[r] /\ \A i \in 1 .. n - 1 : handled'[i] = handled[i]
        /\ rxPacket' = [rxPacket EXCEPT ![r] = None]
        /\ UNCHANGED <<conns, due, packetType, toClient>>
    BY <1>4, CallMoves DEF RxStep
  <2> HIDE DEF n
  <2>2. \A i \in DOMAIN handled' : i = n \/ i \in DOMAIN handled
    BY <2>1
  <2>3. \A i \in DOMAIN handled' : handled'[i] <= Len(packetType)
    BY <1>0, <2>1, <2>2
  <2>4. QED BY <1>0, <2>1, <2>3
<1>5. ASSUME NEW c \in Conns, RouterClose(c) PROVE Numbered'
  BY <1>5 DEF RouterClose, RouterStep, rxVars
<1>6. ASSUME NEW c \in Conns, NEW t \in Types, RouterSend(c, t) PROVE Numbered'
  <2> DEFINE n == Len(packetType) + 1
  <2>1. /\ Len(packetType') = n /\ c <= conns /\ due' \subseteq due \cup {n}
        /\ UNCHANGED <<conns, handled, rxPacket>>
    BY <1>6, SendMoves DEF RouterStep, rxVars
  <2>2. PICK q \in Seq(Packets), m \in Nat :
           /\ toClient' = [toClient EXCEPT ![c] = q]
           /\ DOMAIN toClient[c] = 1 .. m /\ DOMAIN q = 1 .. m + 1
           /\ q[m + 1] = n /\ \A i \in 1 .. m : q[i] = toClient[c][i]
    BY <1>6, SendMoves
  <2>3. ASSUME NEW d \in Conns PROVE Numbered!4!(d)'
    BY <1>0, <2>1, <2>2, SMTT(30)
  <2>4. \A k \in due' : k <= n
    BY <1>0, <2>1
  <2>5. \A i \in DOMAIN handled' : handled'[i] <= n
    BY <1>0, <2>1
  <2>6. \A r \in Readers : rxPacket'[r] # None => rxPacket'[r] <= n
    BY <1>0, <2>1
  <2> HIDE DEF n
  <2>7. QED BY <2>1, <2>3, <2>4, <2>5, <2>6
<1>7. CASE UNCHANGED vars
  BY <1>7 DEF vars, rxVars, packetVars
<1>8. QED BY NextCases, <1>1, <1>2, <1>3, <1>4, <1>5, <1>6, <1>7

LEMMA OneReaderStep == Typed /\ Owned /\ OneReader /\ [Next]_vars => OneReader'
<1> SUFFICES ASSUME Typed, Owned, OneReader, [Next]_vars PROVE OneReader'
  OBVIOUS
<1> USE ConstantsAssumption DEF Typed, ThreadTypes, LockHeld, ThreadsFresh, CallTypes, RxTypes,
        FdTypes, SharedTypes, OneReader, CallAt, RxAt, RxGoto, Fds, Conns, Readers
<1>1. ASSUME NEW p \in Callers, InitConnect(p) PROVE OneReader'
  <2>1. PICK f \in Fds : fdConn[f] = None /\ fdConn' = [fdConn EXCEPT ![f] = conns + 1]
    BY <1>1, FreeFd DEF InitConnect
  <2>2. ~overlap' => ~overlap /\ gFd = None /\ \A r \in Readers : rxPc[r] = "none"
    BY <1>1 DEF InitConnect
  <2>3. conns' = conns + 1 /\ UNCHANGED <<rxPc, rxConn>>
    BY <1>1 DEF InitConnect, rxVars
  <2>4. QED BY <2>1, <2>2, <2>3 DEF Owned, DescriptorOwned, RxPlaces
<1>2. ASSUME NEW p \in Callers, InitStart(p) PROVE OneReader'
  BY <1>2 DEF InitStart
<1>3. ASSUME NEW p \in Callers,
             \/ InitStartFails(p) \/ InitIdentify(p)
             \/ DeinitStop(p) \/ DeinitClose(p) \/ DeinitClear(p) \/ DeinitEnd(p)
             \/ SubscribeTell(p) \/ UnsubscribeTell(p) \/ TellFails(p)
             \/ SubscribeRegister(p) \/ UnsubscribeClear(p)
             \/ \E t \in Types : SubscribeAsk(p, t) \/ UnsubscribeAsk(p, t)
      PROVE  OneReader'
  <2>1. UNCHANGED <<conns, overlap, rxPc, rxConn>>
    BY <1>3 DEF InitStartFails, InitIdentify, DeinitStop, DeinitBegin, DeinitClose, DeinitClear,
                DeinitEnd, DeinitLeaves, DeinitTo, SubscribeRegister, UnsubscribeClear, Return,
                SubscribeTell, UnsubscribeTell, Tell, TellFails, SubscribeAsk, UnsubscribeAsk, Ask, rxVars
  <2>2. \A f \in Fds : fdConn'[f] \in {fdConn[f], None}
    BY <1>3 DEF InitStartFails, InitIdentify, DeinitStop, DeinitBegin, DeinitClose, DeinitClear,
                DeinitEnd, DeinitLeaves, DeinitTo, SubscribeRegister, UnsubscribeClear, Return,
                SubscribeTell, UnsubscribeTell, Tell, TellFails, SubscribeAsk, UnsubscribeAsk, Ask, CloseFd
  <2>3. QED BY <2>1, <2>2
<1>4. ASSUME NEW r \in Readers,
             \/ RxStart(r) \/ RxCheck(r) \/ RxRecv(r) \/ RxTake(r) \/ RxEnd(r)
             \/ RxClose(r) \/ RxClear(r) \/ RxCopy(r) \/ RxCall(r)
      PROVE  OneReader'
  <2>1. rxPc[r] # "none" /\ \E pc : rxPc' = [rxPc EXCEPT ![r] = pc]
    BY <1>4 DEF RxStart, RxCheck, RxRecv, RxTake, RxEnd, RxClose, RxClear, RxCopy, RxCall
  <2>2. \/ rxConn' = rxConn
        \/ \E c \in {Current, None} : rxConn' = [rxConn EXCEPT ![r] = c]
    BY <1>4 DEF RxStart, RxCheck, RxRecv, RxTake, RxEnd, RxClose, RxClear, RxCopy, RxCall
  <2>3. \A f \in Fds : fdConn'[f] \in {fdConn[f], None}
    BY <1>4 DEF RxStart, RxCheck, RxRecv, RxTake, RxEnd, RxClose, RxClear, RxCopy, RxCall, CloseFd
  <2>4. RxStep
    BY <1>4 DEF RxStart, RxCheck, RxRecv, RxTake, RxEnd, RxClose, RxClear, RxCopy, RxCall
  <2>5. ~overlap => Current \in {conns, None}
    BY DEF Current
  <2>6. QED BY <2>1, <2>2, <2>3, <2>4, <2>5 DEF RxStep
<1>5. ASSUME NEW c \in Conns, RouterClose(c) \/ \E t \in Types : RouterSend(c, t) PROVE OneReader'
  BY <1>5 DEF RouterClose, RouterSend, RouterStep, rxVars
<1>6. CASE UNCHANGED vars
  BY <1>6 DEF vars, rxVars
<1>7. QED BY NextCases, <1>1, <1>2, <1>3, <1>4, <1>5, <1>6

LEMMA PacketsOrderedStep ==
  Typed /\ Numbered /\ OneReader /\ PacketsOrdered /\ [Next]_vars => PacketsOrdered'
<1> SUFFICES ASSUME Typed, Numbered, OneReader, PacketsOrdered, [Next]_vars,
                    ~overlap'
             PROVE  PacketsOrdered'
  BY DEF PacketsOrdered
<1> USE ConstantsAssumption
<1> DEFINE Ahead(k) == \A c \in Conns : c = conns =>
                         \A j \in DOMAIN toClient[c] : k < toClient[c][j]
<1>0. /\ conns \in Nat /\ Len(packetType) \in Nat
      /\ \A k \in Packets : k \in Nat
      /\ rxPacket \in [Readers -> Packets \cup {None}] /\ None \notin Packets
      /\ \A i \in DOMAIN handled : handled[i] \in Nat
      /\ toClient \in [Conns -> Seq(Packets)]
      /\ \A c \in Conns : \A i \in DOMAIN toClient[c] : toClient[c][i] \in Nat
  <2>1. \A s \in Seq(Packets) : \A i \in DOMAIN s : s[i] \in Nat
    BY ElementOfSeq, LenProperties DEF Packets
  <2>2. Len(packetType) \in Nat
    BY LenProperties DEF Typed, PacketTypes
  <2>3. QED BY <2>1, <2>2 DEF Typed, FdTypes, PacketTypes, HistoryTypes, RxTypes, Conns, Packets
<1>1. ASSUME ~overlap
      PROVE  /\ \A i, j \in DOMAIN handled : i < j => handled[i] < handled[j]
             /\ \A i \in DOMAIN handled : \A r \in Readers :
                  rxPacket[r] # None => handled[i] < rxPacket[r]
             /\ \A i \in DOMAIN handled : Ahead(handled[i])
             /\ \A r \in Readers : rxPacket[r] # None => Ahead(rxPacket[r])
             /\ \A r \in Readers : rxPc[r] # "none" => r = conns
             /\ \A r \in Readers : rxConn[r] # None => rxConn[r] = conns
             /\ \A r \in Readers : rxPacket[r] # None => rxPc[r] # "none"
  BY <1>1 DEF PacketsOrdered, OneReader, Typed, RxTypes, RxPlaces
<1>2. CASE UNCHANGED <<toClient, handled, conns>> /\ ~overlap
           /\ \A r \in Readers : rxPacket'[r] \in {rxPacket[r], None}
  BY <1>1, <1>2 DEF PacketsOrdered
<1>3. ASSUME NEW p \in Callers, InitConnect(p) PROVE PacketsOrdered'
  <2>1. /\ ~overlap /\ gFd = None /\ \A r \in Readers : rxPc[r] = "none"
        /\ conns' = conns + 1
    BY <1>3 DEF InitConnect, RxAt
  <2>2. UNCHANGED <<toClient, handled, rxPacket>>
    BY <1>3, CallersLeavePackets DEF packetVars
  <2>3. \A c \in Conns : c = conns' => toClient[c] = <<>>
    BY <1>0, <2>1 DEF Numbered
  <2>4. \A r \in Readers : rxPacket[r] = None
    BY <1>1, <2>1
  <2>5. QED BY <1>1, <2>1, <2>2, <2>3, <2>4 DEF PacketsOrdered
<1>4. ASSUME NEW p \in Callers,
             \/ InitStart(p) \/ InitStartFails(p) \/ InitIdentify(p)
             \/ DeinitStop(p) \/ DeinitClose(p) \/ DeinitClear(p) \/ DeinitEnd(p)
             \/ SubscribeTell(p) \/ UnsubscribeTell(p) \/ TellFails(p)
             \/ SubscribeRegister(p) \/ UnsubscribeClear(p)
             \/ \E t \in Types : SubscribeAsk(p, t) \/ UnsubscribeAsk(p, t)
      PROVE  PacketsOrdered'
  <2>1. UNCHANGED <<conns, overlap>>
    BY <1>4 DEF InitStart, InitStartFails, InitIdentify, DeinitStop, DeinitBegin, DeinitClose,
                DeinitClear, DeinitEnd, DeinitLeaves, DeinitTo, SubscribeRegister,
                UnsubscribeClear, Return, SubscribeTell, UnsubscribeTell, Tell, TellFails,
                SubscribeAsk, UnsubscribeAsk, Ask
  <2>2. UNCHANGED <<toClient, handled, rxPacket>>
    BY <1>4, CallersLeavePackets DEF packetVars
  <2>3. QED BY <1>2, <2>1, <2>2
<1>5. ASSUME NEW r \in Readers,
             RxStart(r) \/ RxCheck(r) \/ RxRecv(r) \/ RxEnd(r) \/ RxClose(r) \/ RxClear(r) \/ RxCopy(r)
      PROVE  PacketsOrdered'
  BY <1>0, <1>2, <1>5, ThreadsLeavePackets DEF RxStep
<1>6. ASSUME NEW r \in Readers, RxTake(r) PROVE PacketsOrdered'
  <2>1. PICK c \in Conns, k \in Packets, q \in Seq(Packets) : Taken(r, c, k, q)
    BY <1>6, TakeMoves
  <2> USE DEF Taken
  <2>2. UNCHANGED <<conns, overlap>>
    BY <2>1 DEF RxStep
  <2>3. c = conns /\ c # None
    BY <1>1, <2>1, <2>2 DEF Conns
  <2>4. \A x \in Readers : rxPacket'[x] # None => rxPacket'[x] = k
    BY <1>0, <1>1, <2>1, <2>2
  <2>5. \A i \in DOMAIN q : k < q[i]
    BY <2>1 DEF Numbered
  <2>6. \A i \in DOMAIN handled : handled[i] < k /\ \A j \in DOMAIN q : handled[i] < q[j]
    BY <1>1, <2>1, <2>2, <2>3
  <2>7. toClient'[c] = q
    BY <1>0, <2>1
  <2>8. QED BY <1>1, <2>1, <2>2, <2>3, <2>4, <2>5, <2>6, <2>7, ZenonT(40) DEF PacketsOrdered
<1>7. ASSUME NEW r \in Readers, RxCall(r) PROVE PacketsOrdered'
  <2> DEFINE n == Len(handled) + 1
  <2>1. /\ rxPacket[r] \in Packets /\ n \in Nat /\ DOMAIN handled = 1 .. n - 1
        /\ DOMAIN handled' = 1 .. n
        /\ handled'[n] = rxPacket[r] /\ \A i \in 1 .. n - 1 : handled'[i] = handled[i]
        /\ rxPacket' = [rxPacket EXCEPT ![r] = None] /\ rxPc[r] = "call"
        /\ UNCHANGED <<conns, overlap, toClient>>
    BY <1>7, CallMoves DEF RxStep
  <2> HIDE DEF n
  <2>2. \A i \in DOMAIN handled' : \/ i = n /\ handled'[i] = rxPacket[r]
                                   \/ i \in DOMAIN handled /\ i < n /\ handled'[i] = handled[i]
    BY <2>1
  <2>3. \A x \in Readers : rxPacket'[x] = None
    BY <1>0, <1>1, <2>1
  <2>4. \A i \in DOMAIN handled : handled[i] < rxPacket[r]
    BY <1>0, <1>1, <2>1
  <2>5. \A i, j \in DOMAIN handled' : i < j => handled'[i] < handled'[j]
    BY <1>1, <2>1, <2>2, <2>4
  <2>6. \A i \in DOMAIN handled' : Ahead(handled'[i])
    BY <1>0, <1>1, <2>1, <2>2
  <2>7. QED BY <2>1, <2>3, <2>5, <2>6 DEF PacketsOrdered
<1>8. ASSUME NEW c \in Conns, RouterClose(c) PROVE PacketsOrdered'
  BY <1>2, <1>8 DEF RouterClose, RouterStep, rxVars
<1>9. ASSUME NEW c \in Conns, NEW t \in Types, RouterSend(c, t) PROVE PacketsOrdered'
  <2> DEFINE n == Len(packetType) + 1
  <2>1. UNCHANGED <<conns, handled, rxPacket, overlap>>
    BY <1>9, SendMoves DEF RouterStep, rxVars
  <2>2. PICK q \in Seq(Packets), m \in Nat :
           /\ toClient' = [toClient EXCEPT ![c] = q]
           /\ DOMAIN toClient[c] = 1 .. m /\ DOMAIN q = 1 .. m + 1
           /\ q[m + 1] = n /\ \A i \in 1 .. m : q[i] = toClient[c][i]
    BY <1>9, SendMoves
  <2>3. /\ \A i \in DOMAIN handled : handled[i] < n
        /\ \A r \in Readers : rxPacket[r] # None => rxPacket[r] < n
    BY <1>0 DEF Numbered
  <2> HIDE DEF n
  <2>4. \A d \in Conns : \A j \in DOMAIN toClient'[d] :
          toClient'[d][j] = n \/ (j \in DOMAIN toClient[d] /\ toClient'[d][j] = toClient[d][j])
    BY <1>0, <2>2
  <2>5. QED BY <1>1, <2>1, <2>3, <2>4 DEF PacketsOrdered
<1>10. CASE UNCHANGED vars
  BY <1>2, <1>10 DEF vars, rxVars, packetVars
<1>11. QED BY NextCases, <1>3, <1>4, <1>5, <1>6, <1>7, <1>8, <1>9, <1>10

LEMMA QuietDeinitStep == Typed /\ QuietDeinit /\ [Next]_vars => QuietDeinit'
<1> SUFFICES ASSUME Typed, QuietDeinit, [Next]_vars PROVE QuietDeinit'
  OBVIOUS
<1> USE ConstantsAssumption DEF Typed, ThreadTypes, LockHeld, CallTypes, CallPlaces, SharedTypes,
        HistoryTypes, QuietDeinit, CallAt, CallGoto
<1>1. CASE UNCHANGED <<callVars, isRunning, settled, alone, due>>
  BY <1>1 DEF callVars
<1>2. ASSUME NEW p \in Callers, InitConnect(p) PROVE QuietDeinit'
  BY <1>2 DEF InitConnect
<1>3. ASSUME NEW p \in Callers, InitStart(p) \/ InitStartFails(p) PROVE QuietDeinit'
  BY <1>3 DEF InitStart, InitStartFails
<1>4. ASSUME NEW p \in Callers, InitIdentify(p) PROVE QuietDeinit'
  BY <1>4 DEF InitIdentify
<1>5. ASSUME NEW p \in Callers, DeinitStop(p) PROVE QuietDeinit'
  BY <1>5 DEF DeinitStop, DeinitBegin, Uncertain
<1>6. ASSUME NEW p \in Callers, DeinitClose(p) \/ DeinitClear(p) \/ DeinitEnd(p) PROVE QuietDeinit'
  BY <1>6 DEF DeinitClose, DeinitClear, DeinitEnd, DeinitLeaves, DeinitTo
<1>7. ASSUME NEW p \in Callers, NEW t \in Types, SubscribeAsk(p, t) \/ UnsubscribeAsk(p, t)
      PROVE  QuietDeinit'
  <2>1. CASE SubscribeAsk(p, t)
    BY <2>1 DEF SubscribeAsk, Ask, sharedVars
  <2>2. CASE UnsubscribeAsk(p, t)
    BY <2>2 DEF UnsubscribeAsk, Ask, sharedVars
  <2>3. QED BY <1>7, <2>1, <2>2
<1>8. ASSUME NEW p \in Callers, SubscribeTell(p) \/ UnsubscribeTell(p) \/ TellFails(p) PROVE QuietDeinit'
  BY <1>8 DEF SubscribeTell, UnsubscribeTell, Tell, TellFails, Return, sharedVars
<1>9. ASSUME NEW p \in Callers, SubscribeRegister(p) PROVE QuietDeinit'
  BY <1>9 DEF SubscribeRegister, Return, Settle, sharedVars
<1>10. ASSUME NEW p \in Callers, UnsubscribeClear(p) PROVE QuietDeinit'
  BY <1>10 DEF UnsubscribeClear, Return, sharedVars
<1>11. ASSUME NEW r \in Readers,
              \/ RxStart(r) \/ RxCheck(r) \/ RxRecv(r) \/ RxTake(r) \/ RxEnd(r)
              \/ RxClose(r) \/ RxClear(r) \/ RxCopy(r) \/ RxCall(r)
       PROVE  QuietDeinit'
  <2>1. RxStep
    BY <1>11 DEF RxStart, RxCheck, RxRecv, RxTake, RxEnd, RxClose, RxClear, RxCopy, RxCall
  <2>2. QED BY <1>1, <2>1 DEF RxStep
<1>12. ASSUME NEW c \in Conns, RouterClose(c) PROVE QuietDeinit'
  BY <1>1, <1>12 DEF RouterClose, RouterStep, sharedVars
<1>13. ASSUME NEW c \in Conns, NEW t \in Types, RouterSend(c, t) PROVE QuietDeinit'
  BY <1>13 DEF RouterSend, RouterStep, sharedVars, callVars
<1>14. CASE UNCHANGED vars
  BY <1>1, <1>14 DEF vars, sharedVars
<1>15. QED BY NextCases, <1>2, <1>3, <1>4, <1>5, <1>6, <1>7, <1>8, <1>9, <1>10, <1>11, <1>12,
              <1>13, <1>14

LEMMA ReadToTheEndStep == Typed /\ OneReader /\ ReadToTheEnd /\ [Next]_vars => ReadToTheEnd'
<1> SUFFICES ASSUME Typed, OneReader, ReadToTheEnd, [Next]_vars, ~overlap' PROVE ReadToTheEnd'
  BY DEF ReadToTheEnd
<1> USE ConstantsAssumption DEF Typed, RxTypes, PacketTypes, FdTypes, OneReader, ReadToTheEnd,
        RxAt, RxGoto, Readers, Conns
<1>1. CASE UNCHANGED <<rxPc, toClient, conns, overlap>> /\ shut \subseteq shut'
  BY <1>1
<1>2. ASSUME NEW p \in Callers, InitConnect(p) PROVE ReadToTheEnd'
  BY <1>2 DEF InitConnect, rxVars
<1>3. ASSUME NEW p \in Callers, InitStart(p) PROVE ReadToTheEnd'
  BY <1>3 DEF InitStart, packetVars
<1>4. ASSUME NEW p \in Callers,
             \/ InitStartFails(p) \/ InitIdentify(p)
             \/ DeinitStop(p) \/ DeinitClose(p) \/ DeinitClear(p) \/ DeinitEnd(p)
             \/ SubscribeTell(p) \/ UnsubscribeTell(p) \/ TellFails(p)
             \/ SubscribeRegister(p) \/ UnsubscribeClear(p)
             \/ \E t \in Types : SubscribeAsk(p, t) \/ UnsubscribeAsk(p, t)
      PROVE  ReadToTheEnd'
  BY <1>1, <1>4
     DEF InitStartFails, InitIdentify, DeinitStop, DeinitBegin, DeinitClose, DeinitClear,
         DeinitEnd, DeinitLeaves, DeinitTo, SubscribeRegister, UnsubscribeClear, Return,
         SubscribeTell, UnsubscribeTell, Tell, TellFails, SubscribeAsk, UnsubscribeAsk, Ask, rxVars, packetVars
<1>5. ASSUME NEW r \in Readers,
             RxStart(r) \/ RxCheck(r) \/ RxRecv(r) \/ RxClose(r) \/ RxClear(r) \/ RxCopy(r) \/ RxCall(r)
      PROVE  ReadToTheEnd'
  <2>1. UNCHANGED toClient /\ RxStep
    BY <1>5 DEF RxStart, RxCheck, RxRecv, RxClose, RxClear, RxCopy, RxCall
  <2>2. \E pc \in {"check", "none", "recv", "wait", "call", "clear"} : RxGoto(r, pc)
    BY <1>5 DEF RxStart, RxCheck, RxRecv, RxClose, RxClear, RxCopy, RxCall
  <2>3. QED BY <2>1, <2>2 DEF RxStep
<1>6. ASSUME NEW r \in Readers, RxTake(r) PROVE ReadToTheEnd'
  BY <1>6, ZenonT(40) DEF RxTake, RxStep
<1>7. ASSUME NEW r \in Readers, RxEnd(r) PROVE ReadToTheEnd'
  BY <1>7 DEF RxEnd, RxStep, RxPlaces
<1>8. ASSUME NEW c \in Conns, RouterClose(c) PROVE ReadToTheEnd'
  BY <1>1, <1>8 DEF RouterClose, RouterStep, rxVars
<1>9. ASSUME NEW c \in Conns, NEW t \in Types, RouterSend(c, t) PROVE ReadToTheEnd'
  BY <1>9 DEF RouterSend, RouterStep, rxVars
<1>10. CASE UNCHANGED vars
  BY <1>1, <1>10 DEF vars, rxVars, packetVars
<1>11. QED BY NextCases, <1>2, <1>3, <1>4, <1>5, <1>6, <1>7, <1>8, <1>9, <1>10

Delivered ==
  /\ Numbered /\ OneReader /\ PacketsOrdered /\ NoneDropped /\ ReadToTheEnd /\ QuietDeinit

LEMMA DeliveredInit == Init => Delivered
<1> SUFFICES ASSUME Init PROVE Delivered
  OBVIOUS
<1> USE ConstantsAssumption DEF Init
<1>1. handled = <<>> /\ DOMAIN handled = {} /\ \A c \in Conns : DOMAIN toClient[c] = {}
  OBVIOUS
<1>2. Numbered
  BY <1>1 DEF Numbered
<1>3. OneReader /\ ReadToTheEnd
  BY DEF OneReader, ReadToTheEnd
<1>4. PacketsOrdered
  BY <1>1 DEF PacketsOrdered
<1>5. NoneDropped /\ QuietDeinit
  BY DEF NoneDropped, QuietDeinit
<1>6. QED BY <1>2, <1>3, <1>4, <1>5 DEF Delivered

LEMMA NoneDroppedStep ==
  Typed /\ Agreed /\ Owned /\ Delivered /\ [Next]_vars => NoneDropped'
<1> SUFFICES ASSUME Typed, Agreed, Owned, Delivered, [Next]_vars, ~overlap' PROVE NoneDropped'
  BY DEF NoneDropped
<1> USE ConstantsAssumption
<1> DEFINE Given == ToSet(handled)
<1>0. /\ rxPacket \in [Readers -> Packets \cup {None}] /\ None \notin Packets
      /\ toClient \in [Conns -> Seq(Packets)] /\ due \in SUBSET Packets
  BY DEF Typed, RxTypes, PacketTypes, HistoryTypes, Packets
<1>1. ASSUME ~overlap
      PROVE  /\ \A k \in due : k \in Given \/ OnItsWay(k)
             /\ Current = None => due \subseteq Given
             /\ \A r \in Readers : rxPc[r] # "none" => r = conns
             /\ \A r \in Readers : rxPc[r] \in {"copy", "call"} <=> rxPacket[r] # None
             /\ Current \in {conns, None}
  BY <1>1 DEF Delivered, NoneDropped, OneReader, Typed, RxTypes, RxPlaces, Current, SharedTypes
<1>2. CASE due' = {}
  BY <1>2 DEF NoneDropped
\* Steps that move no packet and do not close the descriptor.
<1>3. CASE /\ ~overlap /\ due' \subseteq due
           /\ \A k \in due' : packetType[k] \in settled => packetType[k] \in settled'
           /\ UNCHANGED <<packetType, handled, rxPacket, toClient, conns, gFd, fdConn>>
  <2>1. \A k \in due' : k \in Given \/ OnItsWay(k)'
    BY <1>1, <1>3 DEF OnItsWay
  <2>2. Current' = Current
    BY <1>3 DEF Current
  <2>3. QED BY <1>1, <1>3, <2>1, <2>2 DEF NoneDropped
<1>4. ASSUME NEW p \in Callers, InitConnect(p) PROVE NoneDropped'
  <2>1. ~overlap /\ gFd = None
    BY <1>4 DEF InitConnect
  <2>2. due \subseteq Given
    BY <1>1, <2>1 DEF Current
  <2>3. UNCHANGED handled /\ due' \subseteq due
    BY <1>4, CallersLeavePackets
  <2>4. QED BY <2>2, <2>3 DEF NoneDropped
<1>5. ASSUME NEW p \in Callers, InitStart(p) \/ InitStartFails(p) \/ InitIdentify(p)
      PROVE  NoneDropped'
  BY <1>3, <1>5 DEF InitStart, InitStartFails, InitIdentify, packetVars, rxVars
<1>6. ASSUME NEW p \in Callers, DeinitStop(p) PROVE NoneDropped'
  BY <1>2, <1>6 DEF DeinitStop, DeinitBegin
<1>7. ASSUME NEW p \in Callers, DeinitClose(p) \/ DeinitClear(p) \/ DeinitEnd(p)
      PROVE  NoneDropped'
  <2>1. due = {}
    BY <1>7 DEF DeinitClose, DeinitClear, DeinitEnd, DeinitLeaves, DeinitTo, CallAt, Delivered,
                QuietDeinit
  <2>2. QED BY <1>2, <1>7, <2>1, CallersLeavePackets
<1>8. ASSUME NEW p \in Callers,
             \/ SubscribeTell(p) \/ UnsubscribeTell(p)
             \/ \E t \in Types : SubscribeAsk(p, t) \/ UnsubscribeAsk(p, t)
      PROVE  NoneDropped'
  <2>1. /\ overlap' = overlap
        /\ UNCHANGED <<packetType, handled, rxPacket, toClient, conns, gFd, fdConn>>
    BY <1>8 DEF SubscribeTell, UnsubscribeTell, Tell, SubscribeAsk, UnsubscribeAsk, Ask, sharedVars, packetVars,
      rxVars
  <2>2. due' \subseteq due /\ \A k \in due' : packetType[k] \in settled => packetType[k] \in settled'
    BY <1>8 DEF SubscribeTell, UnsubscribeTell, Tell, SubscribeAsk, UnsubscribeAsk
  <2>3. QED BY <1>3, <2>1, <2>2
<1>9. ASSUME NEW p \in Callers, TellFails(p) \/ SubscribeRegister(p) \/ UnsubscribeClear(p) PROVE NoneDropped'
  <2>1. /\ overlap' = overlap /\ due' = due
        /\ UNCHANGED <<packetType, handled, rxPacket, toClient, conns, gFd, fdConn>>
    BY <1>9 DEF TellFails, SubscribeRegister, UnsubscribeClear, Return, sharedVars, packetVars, rxVars
  <2>2. settled \subseteq settled'
    BY <1>9 DEF TellFails, SubscribeRegister, UnsubscribeClear, Settle
  <2>3. QED BY <1>3, <2>1, <2>2
<1>10. ASSUME NEW r \in Readers, RxStart(r) \/ RxCheck(r) \/ RxRecv(r) \/ RxEnd(r)
       PROVE  NoneDropped'
  BY <1>3, <1>10 DEF RxStart, RxCheck, RxRecv, RxEnd, RxStep
<1>11. ASSUME NEW r \in Readers, RxClose(r) PROVE NoneDropped'
  <2>1. /\ ~overlap /\ rxPc[r] = "close"
        /\ UNCHANGED <<due, handled>>
    BY <1>11 DEF RxClose, RxAt, RxStep
  <2>2. \A x \in Readers : rxPacket[x] = None
    BY <1>1, <2>1
  <2>3. \A c \in Conns : c = conns => toClient[c] = <<>>
    BY <2>1 DEF Delivered, ReadToTheEnd
  <2>4. due \subseteq Given
    BY <1>0, <1>1, <2>1, <2>2, <2>3 DEF OnItsWay
  <2>5. QED BY <2>1, <2>4 DEF NoneDropped
<1>12. ASSUME NEW r \in Readers, RxClear(r) PROVE NoneDropped'
  <2>1. ~overlap /\ rxPc[r] = "clear" /\ UNCHANGED <<due, handled>>
    BY <1>12 DEF RxClear, RxAt, RxStep
  <2>2. Current = None
    BY <2>1 DEF Owned, ClosedFirst, Current, Typed, SharedTypes
  <2>3. QED BY <1>1, <2>1, <2>2 DEF NoneDropped
<1>13. ASSUME NEW r \in Readers, RxCopy(r) PROVE NoneDropped'
  <2>1. /\ ~overlap
        /\ UNCHANGED <<due, handled, packetType, settled, toClient, conns, gFd, fdConn>>
    BY <1>13 DEF RxCopy, RxStep
  <2>2. CASE UNCHANGED rxPacket
    BY <1>3, <2>1, <2>2
  <2>3. CASE /\ rxPacket' = [rxPacket EXCEPT ![r] = None]
             /\ packetType[rxPacket[r]] \notin registered
    <3>1. packetType[rxPacket[r]] \notin settled
      BY <2>3 DEF Agreed, TablesAgree
    <3>2. \A k \in due : OnItsWay(k) => OnItsWay(k)'
      BY <1>0, <2>1, <2>3, <3>1 DEF OnItsWay
    <3>3. Current' = Current
      BY <2>1 DEF Current
    <3>4. QED BY <1>1, <2>1, <3>2, <3>3 DEF NoneDropped
  <2>4. QED BY <1>13, <2>2, <2>3 DEF RxCopy
<1>14. ASSUME NEW r \in Readers, RxTake(r) PROVE NoneDropped'
  <2>1. PICK c \in Conns, k \in Packets, q \in Seq(Packets) : Taken(r, c, k, q)
    BY <1>14, TakeMoves
  <2> USE DEF Taken
  <2>2. ~overlap /\ UNCHANGED <<due, packetType, settled, conns>> /\ Current' = Current
    BY <2>1 DEF RxStep, Current
  <2>3. rxPacket[r] = None
    BY <1>1, <2>1, <2>2
  <2>4. ASSUME NEW d \in due, OnItsWay(d) PROVE OnItsWay(d)'
    <3>1. packetType'[d] \in settled'
      BY <2>2, <2>4 DEF OnItsWay
    <3>2. CASE \E x \in Readers : rxPacket[x] = d
      <4>1. PICK x \in Readers : rxPacket[x] = d /\ x # r
        BY <1>0, <2>3, <3>2
      <4>2. rxPacket'[x] = d
        BY <1>0, <2>1, <4>1
      <4>3. QED BY <3>1, <4>2 DEF OnItsWay
    <3>3. CASE \E e \in Conns : e = conns /\ \E i \in DOMAIN toClient[e] : toClient[e][i] = d
      <4>1. PICK e \in Conns : e = conns /\ \E i \in DOMAIN toClient[e] : toClient[e][i] = d
        BY <3>3
      <4>2. PICK i \in DOMAIN toClient[e] : toClient[e][i] = d
        BY <4>1
      <4>3. CASE e # c
        BY <1>0, <2>1, <2>2, <3>1, <4>1, <4>2, <4>3 DEF OnItsWay
      <4>4. CASE e = c /\ i = 1
        <5>1. rxPacket'[r] = d
          BY <1>0, <2>1, <4>2, <4>4
        <5>2. QED BY <3>1, <5>1 DEF OnItsWay
      <4>5. CASE e = c /\ i # 1
        <5>1. PICK j \in DOMAIN q : j + 1 = i
          BY <2>1, <4>2, <4>5
        <5>2. toClient'[e] = q /\ q[j] = d
          BY <1>0, <2>1, <4>2, <4>5, <5>1
        <5>3. QED BY <2>2, <3>1, <4>1, <5>1, <5>2 DEF OnItsWay
      <4>6. QED BY <4>3, <4>4, <4>5
    <3>4. QED BY <2>4, <3>2, <3>3 DEF OnItsWay
  <2>5. QED BY <1>1, <2>1, <2>2, <2>4 DEF NoneDropped
<1>15. ASSUME NEW r \in Readers, RxCall(r) PROVE NoneDropped'
  <2> DEFINE n == Len(handled) + 1
  <2>1. /\ rxPacket[r] \in Packets /\ n \in Nat \ {0} /\ DOMAIN handled = 1 .. n - 1
        /\ DOMAIN handled' = 1 .. n
        /\ handled'[n] = rxPacket[r] /\ \A i \in 1 .. n - 1 : handled'[i] = handled[i]
        /\ rxPacket' = [rxPacket EXCEPT ![r] = None] /\ rxPc[r] = "call"
        /\ UNCHANGED <<gFd, fdConn, conns, overlap, due, settled, packetType, toClient>>
    BY <1>15, CallMoves DEF RxStep
  <2> HIDE DEF n
  <2>2. rxPacket[r] \in Given' /\ Given \subseteq Given'
    <3>1. n \in DOMAIN handled' /\ \A i \in DOMAIN handled : i \in DOMAIN handled' /\ handled'[i] = handled[i]
      BY <2>1
    <3>2. QED BY <2>1, <3>1 DEF ToSet
  <2>3. \A k \in due : OnItsWay(k) => k = rxPacket[r] \/ OnItsWay(k)'
    BY <1>0, <2>1 DEF OnItsWay
  <2>4. Current' = Current
    BY <2>1 DEF Current
  <2>5. QED BY <1>1, <2>1, <2>2, <2>3, <2>4 DEF NoneDropped
<1>16. ASSUME NEW c \in Conns, RouterClose(c) PROVE NoneDropped'
  BY <1>3, <1>16 DEF RouterClose, RouterStep, sharedVars, rxVars
<1>17. ASSUME NEW c \in Conns, NEW t \in Types, RouterSend(c, t) PROVE NoneDropped'
  <2>1. PICK n \in Packets :
        /\ n = Len(packetType) + 1 /\ packetType'[n] = t
        /\ \A k \in 1 .. n - 1 : packetType'[k] = packetType[k]
        /\ due' = IF t \in settled /\ c = Current THEN due \cup {n} ELSE due
        /\ UNCHANGED <<gFd, fdConn, conns, overlap, settled, handled, rxPacket>>
    BY <1>17, SendMoves DEF RouterStep, rxVars, sharedVars
  <2>2. PICK q \in Seq(Packets), m \in Nat :
           /\ toClient' = [toClient EXCEPT ![c] = q]
           /\ DOMAIN toClient[c] = 1 .. m /\ DOMAIN q = 1 .. m + 1
           /\ q[m + 1] = n /\ \A i \in 1 .. m : q[i] = toClient[c][i]
    <3>1. PICK q \in Seq(Packets), m \in Nat :
             /\ toClient' = [toClient EXCEPT ![c] = q]
             /\ DOMAIN toClient[c] = 1 .. m /\ DOMAIN q = 1 .. m + 1
             /\ q[m + 1] = Len(packetType) + 1 /\ \A i \in 1 .. m : q[i] = toClient[c][i]
      BY <1>17, SendMoves
    <3>2. q[m + 1] = n
      BY <2>1, <3>1
    <3>3. QED BY <3>1, <3>2, Zenon
  <2>3. \A k \in due : packetType'[k] = packetType[k]
    <3>1. \A k \in due : k \in 1 .. n - 1
      BY <1>0, <2>1 DEF Delivered, Numbered, Packets
    <3>2. QED BY <2>1, <3>1
  <2>4. /\ \A d \in Conns : \A i \in DOMAIN toClient[d] :
             i \in DOMAIN toClient'[d] /\ toClient'[d][i] = toClient[d][i]
        /\ m + 1 \in DOMAIN toClient'[c] /\ toClient'[c][m + 1] = n
    BY <1>0, <2>2
  <2>5. \A k \in due : OnItsWay(k) => OnItsWay(k)'
    BY <2>1, <2>3, <2>4 DEF OnItsWay
  <2>6. Current' = Current /\ c # None
    BY <2>1 DEF Current, Conns
  <2>7. ASSUME t \in settled, c = Current PROVE OnItsWay(n)'
    <3>1. c = conns' /\ packetType'[n] \in settled'
      BY <1>1, <2>1, <2>6, <2>7
    <3>2. QED BY <2>4, <3>1 DEF OnItsWay
  <2>8. \A k \in due' : k \in Given \/ OnItsWay(k)'
    BY <1>1, <2>1, <2>5, <2>7
  <2>9. Current = None => due' = due
    BY <2>1, <2>6
  <2>10. ToSet(handled)' = Given
    BY <2>1
  <2>11. QED BY <1>1, <2>1, <2>6, <2>8, <2>9, <2>10 DEF NoneDropped
<1>18. CASE UNCHANGED vars
  BY <1>3, <1>18 DEF vars, sharedVars, rxVars, packetVars
<1>19. QED BY NextCases, <1>4, <1>5, <1>6, <1>7, <1>8, <1>9, <1>10, <1>11, <1>12, <1>13, <1>14,
              <1>15, <1>16, <1>17, <1>18

LEMMA DeliveredStep == Typed /\ Agreed /\ Owned /\ Delivered /\ [Next]_vars => Delivered'
BY NumberedStep, OneReaderStep, PacketsOrderedStep, NoneDroppedStep, ReadToTheEndStep,
   QuietDeinitStep DEF Delivered

LEMMA DeliveredInOrder == Typed /\ Delivered => HandledInOrder
<1> SUFFICES ASSUME Typed, Delivered, ~overlap PROVE HandledInOrder
  BY DEF HandledInOrder
<1>1. ASSUME NEW i \in DOMAIN handled, NEW k \in due, k < handled[i], k \notin ToSet(handled)
      PROVE  FALSE
  <2>1. OnItsWay(k)
    BY <1>1 DEF Delivered, NoneDropped
  <2>2. k \in Nat /\ k # None /\ handled[i] \in Nat
    BY ConstantsAssumption, ElementOfSeq, LenProperties DEF Typed, HistoryTypes, Packets
  <2>3. handled[i] < k
    BY <2>1, <2>2 DEF Delivered, OnItsWay, PacketsOrdered
  <2>4. QED BY <1>1, <2>2, <2>3
<1>2. QED BY <1>1 DEF Delivered, PacketsOrdered, HandledInOrder

\* Callbacks get packets in the order they were sent, none twice, and none that
\* is due is passed over, whatever Init, Deinit, Subscribe and Unsubscribe do
\* meanwhile (MsgRouteClientRxThread's recv(), copy of the table and callback).
THEOREM CallbacksInOrder == Spec => []HandledInOrder
BY TypedInit, TypedStep, AgreedInit, AgreedStep, OwnedInit, OwnedStep, DeliveredInit,
   DeliveredStep, DeliveredInOrder, PTL DEF Spec
===============================================================================
