---------------------------- MODULE MsgRouteServer ----------------------------
(***************************************************************************)
(* framework/msg_route/msg_route_server: the router process.  Client       *)
(* processes connect to its SOCK_SEQPACKET socket, subscribe to message    *)
(* types and send messages; one thread (MsgRouteServerEpollThread) accepts *)
(* connections, receives, and keeps the table g_clientInfo; a pool of      *)
(* threads runs MsgRouteCoreJobFunc, which forwards one message.           *)
(*                                                                         *)
(* InitMsgRouteManager is a step for each of its calls that can fail.  The *)
(* table is as MsgRouteCoreInit leaves it: before, nobody looks at it but  *)
(* DeinitMsgRouteManager, in a process that ends.                          *)
(*                                                                         *)
(* The pool is the queue of JobQueue, which ThreadPool implements.  The    *)
(* kernel (descriptors, packets, connections) is modelled from how the     *)
(* code uses it, and a client process from msg_route_client.c: a process   *)
(* has one connection, and a process that starts again is another process. *)
(* Its requests carry its appId, or ALL_APP_ID while MsgRouteClientInit is *)
(* still running (see MsgRouteClient).                                     *)
(*                                                                         *)
(* MsgRouteCoreJobFunc takes g_clientInfoLock only to make a copy it never *)
(* looks at; what it does look at is g_clientInfo, unlocked.  So each read *)
(* of the table and each send is a step of its own.                        *)
(***************************************************************************)
EXTENDS Integers, SequencesExt

CONSTANTS
  Processes,        \* client processes
  AppOf,            \* the appId each process gives to MsgRouteClientInit
  MaxAppId,         \* MAX_APP_ID; the valid ids are 1 .. MAX_APP_ID - 1
  Types,            \* the message types clients subscribe to
  Messages,         \* the messages they send, each one once
  Workers,          \* the threads of the pool
  MaxFd,            \* bound: accept returns descriptors 1 .. MaxFd
  InboxMax,         \* bound: packets a client has sent and the server not read
  OutboxMax,        \* packets the kernel holds for a client before send blocks
  Early,            \* whether clients subscribe while MsgRouteClientInit runs
  MaxFaults,        \* bound: calls of the kernel and of malloc that fail
  None

Ids == 0 .. MaxAppId - 1      \* the entries of g_clientInfo
AllApps == 0                  \* ALL_APP_ID
Apps == Ids \ {AllApps}
Fds == 1 .. MaxFd

ASSUME ConstantsAssumption ==
  /\ MaxAppId \in Nat \ {0} /\ MaxFd \in Nat
  /\ InboxMax \in Nat \ {0} /\ OutboxMax \in Nat \ {0}
  /\ AppOf \in [Processes -> Apps]
  /\ Early \in BOOLEAN /\ MaxFaults \in Nat
  /\ None \notin Processes \cup Fds \cup Messages \cup Types

VARIABLES
  server,           \* how far InitMsgRouteManager is, see NextStage
  faults,           \* how many calls have failed
  procState,        \* "start", "open" or "closed": a client's socket
  inbox,            \* packets from each client the server has not read
  outbox,           \* messages to each client it has not read
  backlog,          \* clients that are connected and not accepted
  fdConn,           \* the client a descriptor of the server leads to, or None
  watched,          \* the descriptors of clients in the epoll set
  clientFd,         \* g_clientInfo[i].fd, None for -1
  msgFlag,          \* the types set in g_clientInfo[i].msgFlag
  closing,          \* descriptor the epoll thread has erased and not closed
  queue, submitted, running, finished,      \* the pool, see JobQueue
  msg,              \* what each message says, and its src, see Message
  workerPc,         \* where a worker is in MsgRouteCoreJobFunc
  workerMsg,        \* the message it forwards
  workerApp,        \* the appId it looks at
  workerFd,         \* the descriptor it has passed to send
  workerConn,       \* history: where it led when it was read from the table
  wanted,           \* history: types each client is subscribed to, as received
  asked,            \* history: types each client has ever subscribed to
  delivered,        \* history: the clients a message has been sent to
  owed              \* history: its subscribers since it was received

serverVars == <<server, faults, watched>>
clientVars == <<procState, inbox, outbox, backlog>>
tableVars == <<clientFd, msgFlag, wanted, asked>>
poolVars == <<queue, submitted, running, finished>>
workerVars == <<workerPc, workerMsg, workerApp, workerFd, workerConn>>
deliveryVars == <<delivered, owed>>
vars == <<serverVars, clientVars, fdConn, tableVars, closing, poolVars, msg, workerVars,
          deliveryVars>>

Pool == INSTANCE JobQueue WITH Jobs <- Messages

\* MsgRouteDataInfo of a message that is no subscription.
Message == [answer : BOOLEAN, appId : {AllApps} \cup Apps,
            msgType : Types, src : Fds \cup {None}]

ASSUME MessageAssumption == None \notin Message

\* A packet: a subscription, the end of one, a message, or one of the packets
\* MsgRouteServerHandleMsg and IsMsgRouteValidMsg refuse.
Packet == [kind : {"subscribe", "unsubscribe"}, of : Types, appId : Ids]
          \cup [kind : {"message"}, of : Messages]
          \cup [kind : {"invalid"}]

\* The calls of InitMsgRouteManager and MsgRouteServerEpollThread in turn:
\* CreateMsgRouteServer, MsgRouteCoreInit, epoll_create, MsgEpollCtlEvent,
\* pthread_create, malloc.  At the end of them the server is up.
NextStage == [socket |-> "core", core |-> "epoll", epoll |-> "watch",
              watch |-> "thread", thread |-> "buffer", buffer |-> "up"]

Starting == DOMAIN NextStage

Init ==
  /\ server = "socket" /\ faults = 0
  /\ procState = [p \in Processes |-> "start"]
  /\ inbox = [p \in Processes |-> <<>>]
  /\ outbox = [p \in Processes |-> <<>>]
  /\ backlog = <<>>
  /\ fdConn = [f \in Fds |-> None] /\ watched = {}
  /\ clientFd = [a \in Ids |-> None]
  /\ msgFlag = [a \in Ids |-> {}]
  /\ closing = None
  /\ Pool!Init
  /\ msg = [m \in Messages |-> None]
  /\ workerPc = [w \in Workers |-> "idle"]
  /\ workerMsg = [w \in Workers |-> None]
  /\ workerApp = [w \in Workers |-> None]
  /\ workerFd = [w \in Workers |-> None]
  /\ workerConn = [w \in Workers |-> None]
  /\ wanted = [p \in Processes |-> {}] /\ asked = wanted
  /\ delivered = [m \in Messages |-> {}] /\ owed = delivered
-------------------------------------------------------------------------------
(***************************************************************************)
(* InitMsgRouteManager.                                                    *)
(***************************************************************************)
Start ==
  /\ server \in Starting
  /\ server' = NextStage[server]
  /\ UNCHANGED <<faults, watched, clientVars, fdConn, tableVars, closing, poolVars,
                 msg, workerVars, deliveryVars>>

Fails == faults < MaxFaults /\ faults' = faults + 1

\* DeinitMsgRouteManager, and main returns; or the epoll thread ends, which
\* main does not see.
StartFails ==
  /\ server \in Starting
  /\ Fails
  /\ server' = IF server = "buffer" THEN "deaf" ELSE "gone"
  /\ UNCHANGED <<watched, clientVars, fdConn, tableVars, closing, poolVars, msg,
                 workerVars, deliveryVars>>

\* epoll_wait fails, and the epoll thread ends.
EpollFails ==
  /\ server = "up" /\ closing = None
  /\ Fails
  /\ server' = "deaf"
  /\ UNCHANGED <<watched, clientVars, fdConn, tableVars, closing, poolVars, msg,
                 workerVars, deliveryVars>>
-------------------------------------------------------------------------------
(***************************************************************************)
(* The client processes.                                                   *)
(***************************************************************************)
Connect(p) ==
  /\ server \notin {"socket", "gone"}
  /\ procState[p] = "start"
  /\ procState' = [procState EXCEPT ![p] = "open"]
  /\ backlog' = Append(backlog, p)
  /\ UNCHANGED <<serverVars, inbox, outbox, fdConn, tableVars, closing, poolVars,
                 msg, workerVars, deliveryVars>>

\* send() of a packet on the client's side.
Transmit(p, packet) ==
  /\ procState[p] = "open"
  /\ Len(inbox[p]) < InboxMax
  /\ inbox' = [inbox EXCEPT ![p] = Append(@, packet)]
  /\ UNCHANGED <<serverVars, procState, outbox, backlog, fdConn, tableVars, closing,
                 poolVars, workerVars, deliveryVars>>

\* MsgRouteClientSubscribeMsg and MsgRouteClientUnsubscribeMsg.
Request(p, kind, t) ==
  /\ \E a \in IF Early THEN {AppOf[p], AllApps} ELSE {AppOf[p]} :
       Transmit(p, [kind |-> kind, of |-> t, appId |-> a])
  /\ UNCHANGED msg

Subscribe(p, t) == Request(p, "subscribe", t)

Unsubscribe(p, t) == Request(p, "unsubscribe", t)

\* MsgRouteClientSendMsg.  The appId of an answer is not looked at.
SendMsg(p, m, answer, a, t) ==
  /\ msg[m] = None /\ m \notin submitted
  /\ answer => a = AllApps
  /\ msg' = [msg EXCEPT ![m] = [answer |-> answer, appId |-> a, msgType |-> t,
                                src |-> None]]
  /\ Transmit(p, [kind |-> "message", of |-> m])

SendInvalid(p) == Transmit(p, [kind |-> "invalid"]) /\ UNCHANGED msg

\* MsgRouteClientRxThread takes one packet.
Receive(p) ==
  /\ procState[p] = "open"
  /\ outbox[p] # <<>>
  /\ outbox' = [outbox EXCEPT ![p] = Tail(@)]
  /\ UNCHANGED <<serverVars, procState, inbox, backlog, fdConn, tableVars, closing,
                 poolVars, msg, workerVars, deliveryVars>>

\* The process ends, or MsgRouteClientDeinit closes its socket.
Disconnect(p) ==
  /\ procState[p] = "open"
  /\ procState' = [procState EXCEPT ![p] = "closed"]
  /\ outbox' = [outbox EXCEPT ![p] = <<>>]
  /\ owed' = [m \in Messages |-> owed[m] \ {p}]
  /\ UNCHANGED <<serverVars, inbox, backlog, fdConn, tableVars, closing, poolVars,
                 msg, workerVars, delivered>>
-------------------------------------------------------------------------------
(***************************************************************************)
(* The epoll thread.                                                       *)
(***************************************************************************)
FreeFds == {f \in Fds : fdConn[f] = None}

\* MsgRouteServerAccept: the kernel returns the lowest free descriptor.  One that
\* cannot be put into the epoll set stays open.
Accept ==
  /\ server = "up" /\ closing = None
  /\ backlog # <<>>
  /\ FreeFds # {}
  /\ fdConn' = [fdConn EXCEPT ![Min(FreeFds)] = Head(backlog)]
  /\ backlog' = Tail(backlog)
  /\ \/ watched' = watched \cup {Min(FreeFds)} /\ UNCHANGED faults
     \/ Fails /\ UNCHANGED watched
  /\ UNCHANGED <<server, procState, inbox, outbox, tableVars, closing, poolVars, msg,
                 workerVars, deliveryVars>>

\* recv() on descriptor f returns the packet pkt.
Recv(f, pkt) ==
  /\ server = "up" /\ closing = None
  /\ f \in watched
  /\ inbox[fdConn[f]] # <<>>
  /\ pkt = Head(inbox[fdConn[f]])
  /\ inbox' = [inbox EXCEPT ![fdConn[f]] = Tail(@)]
  /\ UNCHANGED <<server, watched, procState, outbox, backlog, fdConn, closing,
                 workerVars>>

\* MsgRouteCoreUpdateClientSubscribeInfo: the first descriptor that asks for an
\* appId gets it; the flags change whoever asks.
UpdateClientSubscribeInfo(f, a, types) ==
  /\ clientFd' = [clientFd EXCEPT ![a] = IF @ = None THEN f ELSE @]
  /\ msgFlag' = [msgFlag EXCEPT ![a] = types]

HandleSubscribe(f) ==
  LET p == fdConn[f] IN
  \E t \in Types, a \in Ids :
    /\ Recv(f, [kind |-> "subscribe", of |-> t, appId |-> a])
    /\ UpdateClientSubscribeInfo(f, a, msgFlag[a] \cup {t})
    /\ wanted' = [wanted EXCEPT ![p] = @ \cup {t}]
    /\ asked' = [asked EXCEPT ![p] = @ \cup {t}]
    /\ UNCHANGED <<faults, poolVars, msg, deliveryVars>>

HasType(m, t) == msg[m] # None /\ msg[m].msgType = t

\* Mutant: the flag is set although the client asks for its end.
HandleUnsubscribeKeeps(f) ==
  LET p == fdConn[f] IN
  \E t \in Types, a \in Ids :
    /\ Recv(f, [kind |-> "unsubscribe", of |-> t, appId |-> a])
    /\ UpdateClientSubscribeInfo(f, a, msgFlag[a] \cup {t})
    /\ wanted' = [wanted EXCEPT ![p] = @ \ {t}]
    /\ owed' = [m \in Messages |-> IF HasType(m, t) THEN owed[m] \ {p} ELSE owed[m]]
    /\ UNCHANGED <<faults, asked, poolVars, msg, delivered>>

HandleUnsubscribe(f) ==
  LET p == fdConn[f] IN
  \E t \in Types, a \in Ids :
    /\ Recv(f, [kind |-> "unsubscribe", of |-> t, appId |-> a])
    /\ UpdateClientSubscribeInfo(f, a, msgFlag[a] \ {t})
    /\ wanted' = [wanted EXCEPT ![p] = @ \ {t}]
    /\ owed' = [m \in Messages |-> IF HasType(m, t) THEN owed[m] \ {p} ELSE owed[m]]
    /\ UNCHANGED <<faults, asked, poolVars, msg, delivered>>

\* The open clients a message is for, as the table stands.
Subscribers(m) ==
  {p \in Processes :
     /\ procState[p] = "open" /\ ~msg[m].answer
     /\ msg[m].appId \in {AllApps, AppOf[p]}
     /\ clientFd[AppOf[p]] # None /\ fdConn[clientFd[AppOf[p]]] = p
     /\ msg[m].msgType \in msgFlag[AppOf[p]]}

\* src is overwritten with the descriptor the message came in on, and a copy of
\* the message is given to the pool.
HandleData(f) ==
  \E m \in Messages :
    /\ Recv(f, [kind |-> "message", of |-> m])
    /\ msg' = [msg EXCEPT ![m].src = f]
    /\ Pool!Submit(m)
    /\ owed' = [owed EXCEPT ![m] = Subscribers(m)]
    /\ UNCHANGED <<faults, tableVars, delivered>>

\* There is no memory for the copy, or for the job.
HandleDataFails(f) ==
  \E m \in Messages :
    /\ Recv(f, [kind |-> "message", of |-> m])
    /\ Fails
    /\ msg' = [msg EXCEPT ![m] = None]
    /\ UNCHANGED <<tableVars, poolVars, deliveryVars>>

HandleInvalid(f) ==
  /\ Recv(f, [kind |-> "invalid"])
  /\ UNCHANGED <<faults, tableVars, poolVars, msg, deliveryVars>>

\* recv() returns 0, and the descriptor leaves the epoll set.
RecvEnd(f) ==
  /\ server = "up" /\ closing = None
  /\ f \in watched
  /\ procState[fdConn[f]] = "closed" /\ inbox[fdConn[f]] = <<>>
  /\ watched' = watched \ {f}
  /\ closing' = f

\* Mutant: the table is not told of the disconnection.
HandleDisconnectKeeps(f) ==
  /\ RecvEnd(f)
  /\ UNCHANGED <<server, faults, clientVars, fdConn, tableVars, poolVars, msg,
                 workerVars, deliveryVars>>

\* MsgRouteCoreEraseClientInfo clears the first entry of the table that has the
\* descriptor.
HandleDisconnect(f) ==
  /\ RecvEnd(f)
  /\ LET entries == {a \in Ids : clientFd[a] = f} IN
       IF entries = {} THEN UNCHANGED <<clientFd, msgFlag>>
       ELSE /\ clientFd' = [clientFd EXCEPT ![Min(entries)] = None]
            /\ msgFlag' = [msgFlag EXCEPT ![Min(entries)] = {}]
  /\ UNCHANGED <<server, faults, clientVars, fdConn, wanted, asked, poolVars, msg,
                 workerVars, deliveryVars>>

CloseFd ==
  /\ closing # None
  /\ fdConn' = [fdConn EXCEPT ![closing] = None]
  /\ closing' = None
  /\ UNCHANGED <<serverVars, clientVars, tableVars, poolVars, msg, workerVars,
                 deliveryVars>>
-------------------------------------------------------------------------------
(***************************************************************************)
(* The workers: MsgRouteCoreJobFunc.                                       *)
(***************************************************************************)

\* A worker takes the oldest message.  An answer goes straight to send, with
\* the descriptor in src; a broadcast begins with the entry of
\* ALL_APP_ID.
JobStart(w) ==
  /\ workerPc[w] = "idle"
  /\ Pool!StartOldest
  /\ LET m == Last(queue) IN
       /\ workerMsg' = [workerMsg EXCEPT ![w] = m]
       /\ workerPc' = [workerPc EXCEPT ![w] = IF msg[m].answer THEN "send" ELSE "check"]
       /\ workerApp' = [workerApp EXCEPT ![w] = msg[m].appId]
       /\ workerFd' = [workerFd EXCEPT ![w] = IF msg[m].answer THEN msg[m].src ELSE None]
       /\ workerConn' = [workerConn EXCEPT ![w] = None]
  /\ UNCHANGED <<serverVars, clientVars, fdConn, tableVars, closing, msg,
                 deliveryVars>>

\* Mutant: the loop runs to MAX_APP_ID inclusive.
AdvancePastEnd(w) ==
  LET m == msg[workerMsg[w]] IN
  /\ IF ~m.answer /\ m.appId = AllApps /\ workerApp[w] + 1 <= MaxAppId
     THEN /\ workerApp' = [workerApp EXCEPT ![w] = @ + 1]
          /\ workerPc' = [workerPc EXCEPT ![w] = "check"]
     ELSE /\ workerPc' = [workerPc EXCEPT ![w] = "free"]
          /\ UNCHANGED workerApp
  /\ workerFd' = [workerFd EXCEPT ![w] = None]
  /\ workerConn' = [workerConn EXCEPT ![w] = None]

\* Mutant: the loop stops after the first client it finds.
AdvanceStops(w) ==
  /\ workerPc' = [workerPc EXCEPT ![w] = "free"]
  /\ workerFd' = [workerFd EXCEPT ![w] = None]
  /\ workerConn' = [workerConn EXCEPT ![w] = None]
  /\ UNCHANGED workerApp

\* The loop of a broadcast goes on, or the message is done with.
Advance(w) ==
  LET m == msg[workerMsg[w]] IN
  /\ IF ~m.answer /\ m.appId = AllApps /\ workerApp[w] + 1 \in Ids
     THEN /\ workerApp' = [workerApp EXCEPT ![w] = @ + 1]
          /\ workerPc' = [workerPc EXCEPT ![w] = "check"]
     ELSE /\ workerPc' = [workerPc EXCEPT ![w] = "free"]
          /\ UNCHANGED workerApp
  /\ workerFd' = [workerFd EXCEPT ![w] = None]
  /\ workerConn' = [workerConn EXCEPT ![w] = None]

\* Mutant: the loop does not go on after an appId that is not subscribed.
JobCheckStays(w) ==
  /\ workerPc[w] = "check"
  /\ clientFd[workerApp[w]] # None
  /\ msg[workerMsg[w]].msgType \in msgFlag[workerApp[w]]
  /\ workerPc' = [workerPc EXCEPT ![w] = "load"]
  /\ UNCHANGED <<serverVars, clientVars, fdConn, tableVars, closing, poolVars, msg,
                 workerMsg, workerApp, workerFd, workerConn, deliveryVars>>

\* if ((fd != -1) && msgFlag[msgType])
JobCheck(w) ==
  /\ workerPc[w] = "check"
  /\ IF /\ clientFd[workerApp[w]] # None
        /\ msg[workerMsg[w]].msgType \in msgFlag[workerApp[w]]
     THEN /\ workerPc' = [workerPc EXCEPT ![w] = "load"]
          /\ UNCHANGED <<workerApp, workerFd, workerConn>>
     ELSE Advance(w)
  /\ UNCHANGED <<serverVars, clientVars, fdConn, tableVars, closing, poolVars, msg,
                 workerMsg, deliveryVars>>

\* The argument of send: fd is read again.
JobLoad(w) ==
  /\ workerPc[w] = "load"
  /\ LET f == clientFd[workerApp[w]] IN
       /\ workerFd' = [workerFd EXCEPT ![w] = f]
       /\ workerConn' = [workerConn EXCEPT ![w] = IF f = None THEN None ELSE fdConn[f]]
  /\ workerPc' = [workerPc EXCEPT ![w] = "send"]
  /\ UNCHANGED <<serverVars, clientVars, fdConn, tableVars, closing, poolVars, msg,
                 workerMsg, workerApp, deliveryVars>>

\* The client the descriptor leads to at the moment of the send.
Target(w) == IF workerFd[w] = None THEN None ELSE fdConn[workerFd[w]]

Open == {p \in Processes : procState[p] = "open"}

\* send() delivers; it waits while the client's buffer is full.
JobSend(w) ==
  LET p == Target(w) IN
  /\ workerPc[w] = "send"
  /\ p \in Open
  /\ Len(outbox[p]) < OutboxMax
  /\ outbox' = [outbox EXCEPT ![p] = Append(@, workerMsg[w])]
  /\ delivered' = [delivered EXCEPT ![workerMsg[w]] = @ \cup {p}]
  /\ Advance(w)
  /\ UNCHANGED <<serverVars, procState, inbox, backlog, fdConn, tableVars, closing,
                 poolVars, msg, workerMsg, owed>>

\* send() fails: descriptor -1, closed, or its client gone.
JobSendFails(w) ==
  LET p == Target(w) IN
  /\ workerPc[w] = "send"
  /\ p \notin Open
  /\ Advance(w)
  /\ UNCHANGED <<serverVars, clientVars, fdConn, tableVars, closing, poolVars, msg,
                 workerMsg, deliveryVars>>

\* free(arg) and return to the pool.
JobFree(w) ==
  /\ workerPc[w] = "free"
  /\ Pool!Finish(workerMsg[w])
  /\ workerPc' = [workerPc EXCEPT ![w] = "idle"]
  /\ workerMsg' = [workerMsg EXCEPT ![w] = None]
  /\ workerApp' = [workerApp EXCEPT ![w] = None]
  /\ msg' = [msg EXCEPT ![workerMsg[w]] = None]
  /\ delivered' = [delivered EXCEPT ![workerMsg[w]] = {}]
  /\ owed' = [owed EXCEPT ![workerMsg[w]] = {}]
  /\ UNCHANGED <<serverVars, clientVars, fdConn, tableVars, closing, workerFd,
                 workerConn>>
-------------------------------------------------------------------------------
Client(p) ==
  \/ Connect(p) \/ Disconnect(p) \/ SendInvalid(p)
  \/ \E t \in Types : Subscribe(p, t) \/ Unsubscribe(p, t)
  \/ \E m \in Messages, answer \in BOOLEAN, a \in {AllApps} \cup Apps, t \in Types :
       SendMsg(p, m, answer, a, t)

Handle(f) ==
  \/ HandleSubscribe(f) \/ HandleUnsubscribe(f) \/ HandleData(f)
  \/ HandleDataFails(f) \/ HandleInvalid(f) \/ HandleDisconnect(f)

Job(w) ==
  \/ JobStart(w) \/ JobCheck(w) \/ JobLoad(w)
  \/ JobSend(w) \/ JobSendFails(w) \/ JobFree(w)

\* Every client has gone, or finds no server, and the epoll thread has ended or
\* has nothing left to do.
Rest ==
  /\ \A p \in Processes :
       procState[p] = "closed" \/ (procState[p] = "start" /\ server = "gone")
  /\ \/ server \in {"gone", "deaf"}
     \/ /\ server = "up" /\ closing = None /\ watched = {}
        /\ backlog = <<>> \/ FreeFds = {}
  /\ queue = <<>> /\ \A w \in Workers : workerPc[w] = "idle"
  /\ UNCHANGED vars

Next ==
  \/ Start \/ StartFails \/ EpollFails
  \/ \E p \in Processes : Client(p) \/ Receive(p)
  \/ Accept \/ CloseFd \/ \E f \in Fds : Handle(f)
  \/ \E w \in Workers : Job(w)
  \/ Rest

Spec == Init /\ [][Next]_vars

\* The epoll thread looks at every ready descriptor in turn, the kernel runs
\* main and every worker, and each client's receive thread reads what is sent
\* to it.
Fairness ==
  /\ WF_vars(Start \/ StartFails)
  /\ WF_vars(Accept) /\ WF_vars(CloseFd)
  /\ \A f \in Fds : WF_vars(Handle(f))
  /\ \A w \in Workers : WF_vars(Job(w))
  /\ \A p \in Processes : WF_vars(Receive(p))

FairSpec == Spec /\ Fairness
-------------------------------------------------------------------------------
(***************************************************************************)
(* Properties.                                                             *)
(***************************************************************************)

\* Every variable of the server and of its surroundings has its type.
TypeOK ==
  /\ server \in Starting \cup {"up", "deaf", "gone"}
  /\ faults \in 0 .. MaxFaults /\ watched \subseteq Fds
  /\ procState \in [Processes -> {"start", "open", "closed"}]
  /\ \A p \in Processes : /\ inbox[p] \in Seq(Packet) /\ Len(inbox[p]) <= InboxMax
                          /\ outbox[p] \in Seq(Messages) /\ Len(outbox[p]) <= OutboxMax
  /\ backlog \in Seq(Processes)
  /\ fdConn \in [Fds -> Processes \cup {None}]
  /\ clientFd \in [Ids -> Fds \cup {None}]
  /\ msgFlag \in [Ids -> SUBSET Types]
  /\ closing \in Fds \cup {None}
  /\ Pool!TypeOK
  /\ msg \in [Messages -> Message \cup {None}]
  /\ workerPc \in [Workers -> {"idle", "check", "load", "send", "free"}]
  /\ workerMsg \in [Workers -> Messages \cup {None}]
  /\ workerApp \in [Workers -> Ids \cup {None}]
  /\ workerFd \in [Workers -> Fds \cup {None}]
  /\ workerConn \in [Workers -> Processes \cup {None}]
  /\ wanted \in [Processes -> SUBSET Types] /\ asked \in [Processes -> SUBSET Types]
  /\ delivered \in [Messages -> SUBSET Processes]
  /\ owed \in [Messages -> SUBSET Processes]

\* A descriptor in the table is open, is not about to be closed, and leads to a
\* client with that appId: the entry goes before the descriptor does, so a new
\* client that is given the same number never finds itself in the table
\* (msg_route_server.c:82-84, msg_route_core.c:81-83 and 96-102).
TableNamesLiveClients ==
  \A a \in Ids : clientFd[a] # None =>
    /\ clientFd[a] # closing
    /\ fdConn[clientFd[a]] # None
    /\ a \in {AppOf[fdConn[clientFd[a]]], AllApps}

\* With one client for each appId, an entry's flags are the subscriptions of
\* its client that have been received, and a free entry has none
\* (msg_route_core.c:78-86 and 97-99).
FlagsMatchRequests ==
  \A a \in Ids :
    msgFlag[a] = IF clientFd[a] = None THEN {} ELSE wanted[fdConn[clientFd[a]]]

\* With one client for each appId: a message a worker is about to free has been
\* sent to every client that it is for and that was subscribed from the moment
\* the message was received, whatever else was subscribed, disconnected or sent
\* meanwhile (msg_route_core.c:126-149).
SubscribersServed ==
  \A w \in Workers : workerPc[w] = "free" =>
    owed[workerMsg[w]] \subseteq delivered[workerMsg[w]]

\* With one client for each appId: if the descriptor read from the table still
\* leads where it led then, the message goes to a client with the appId the
\* worker looks at, and this client has subscribed to the type, although the
\* check, the read and the send are three steps without the lock
\* (msg_route_core.c:126-148).  An answer is not sent through the table.
SendsToSubscriber ==
  [][\A w \in Workers :
       JobSend(w) /\ ~msg[workerMsg[w]].answer /\ Target(w) = workerConn[w] =>
         /\ AppOf[Target(w)] = workerApp[w]
         /\ msg[workerMsg[w]].msgType \in asked[Target(w)]]_vars

\* Every message a client has sent is received and dealt with, as long as the
\* clients read and no call fails: also one sent before the server was up or
\* whose client left before it was accepted, and a client that leaves does not
\* hold a worker (msg_route_server.c:76-114, msg_route_core.c:122-148).
EveryMessageHandled ==
  \A m \in Messages :
    (msg[m] # None /\ faults = 0) ~> (m \in finished \/ faults > 0)

\* msg_route_core.c:132-134 refuses to send to an app that did "not subscribe
\* msg this type".
OnlySubscribersReceive ==
  [][\A w \in Workers :
       JobSend(w) /\ ~msg[workerMsg[w]].answer =>
         msg[workerMsg[w]].msgType \in asked[Target(w)]]_vars
===============================================================================
