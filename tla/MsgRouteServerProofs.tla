------------------------- MODULE MsgRouteServerProofs --------------------------
(***************************************************************************)
(* Proofs about MsgRouteServer, for all values of its constants: types,    *)
(* and what the table g_clientInfo says of the clients.                    *)
(***************************************************************************)
EXTENDS MsgRouteServer, DataLemmas

\* Clients that are not in MsgRouteClientInit when they subscribe ...
Identified == ~Early

\* ... and do not share an appId.
Regular == Identified /\ \A p, q \in Processes : AppOf[p] = AppOf[q] => p = q

(***************************************************************************)
(* The invariants the theorems rest on.                                    *)
(***************************************************************************)
\* What the epoll thread waits for is open.
WatchedOpen == \A f \in watched : fdConn[f] # None /\ f # closing

\* A message a client has sent is in one packet, and the pool has not seen it.
Carries(p, i, m) == inbox[p][i] = [kind |-> "message", of |-> m]

MessagesOnce ==
  \A m \in Messages, p \in Processes : \A i \in DOMAIN inbox[p] :
    Carries(p, i, m) =>
      /\ msg[m] # None /\ m \notin submitted
      /\ \A q \in Processes : \A j \in DOMAIN inbox[q] : Carries(q, j, m) => q = p /\ j = i

\* A message of the pool waits once, or one worker has it.
Busy(w) == workerPc[w] # "idle"

JobsOnce ==
  /\ \A i \in DOMAIN queue : queue[i] \in submitted /\ msg[queue[i]] # None
  /\ \A i, j \in DOMAIN queue : queue[i] = queue[j] => i = j
  /\ \A w \in Workers : Busy(w) =>
       /\ workerMsg[w] \in submitted /\ msg[workerMsg[w]] # None
       /\ \A i \in DOMAIN queue : queue[i] # workerMsg[w]
       /\ \A v \in Workers : Busy(v) /\ workerMsg[v] = workerMsg[w] => v = w

WorkersPlaced ==
  \A w \in Workers :
    /\ Busy(w) <=> workerMsg[w] # None
    /\ workerPc[w] \in {"check", "load"} => workerApp[w] \in Ids
    /\ workerPc[w] = "send" /\ ~msg[workerMsg[w]].answer => workerApp[w] \in Ids

\* A request carries the appId of its client.
Signed(p, i) ==
  \A kind \in {"subscribe", "unsubscribe"}, t \in Types, a \in Ids :
    inbox[p][i] = [kind |-> kind, of |-> t, appId |-> a] => a = AppOf[p]

RequestsSigned == Identified => \A p \in Processes : \A i \in DOMAIN inbox[p] : Signed(p, i)

\* So the table has one entry for a descriptor, and that is its client's.
TableSigned ==
  Identified => \A a \in Ids : clientFd[a] # None =>
                  clientFd[a] \in watched /\ a = AppOf[fdConn[clientFd[a]]]

\* A client is accepted once, and asks for nothing before.
AcceptedOnce ==
  /\ \A p \in Processes : procState[p] = "start" =>
       /\ wanted[p] = {} /\ \A f \in Fds : fdConn[f] # p
       /\ \A i \in DOMAIN backlog : backlog[i] # p
  /\ \A i \in DOMAIN backlog : /\ wanted[backlog[i]] = {}
                               /\ \A f \in Fds : fdConn[f] # backlog[i]
  /\ \A i, j \in DOMAIN backlog : backlog[i] = backlog[j] => i = j
  /\ \A f, g \in Fds : fdConn[f] = fdConn[g] /\ fdConn[f] # None => f = g

NothingLeftOver ==
  Regular => /\ FlagsMatchRequests
             /\ \A f \in watched :
                  clientFd[AppOf[fdConn[f]]] = None => wanted[fdConn[f]] = {}

InPool(m) == m \in submitted /\ msg[m] # None

\* The subscribers of a message stay in the table until they are served, ...
Reachable(m, p) ==
  /\ procState[p] = "open" /\ ~msg[m].answer /\ msg[m].appId \in {AllApps, AppOf[p]}
  /\ clientFd[AppOf[p]] # None /\ fdConn[clientFd[AppOf[p]]] = p
  /\ msg[m].msgType \in msgFlag[AppOf[p]]

OwedReachable == Regular => \A m \in Messages : \A p \in owed[m] : InPool(m) /\ Reachable(m, p)

\* ... and a worker serves those it has passed.
Ahead(w, p) ==
  /\ workerPc[w] # "free"
  /\ AppOf[p] = workerApp[w] \/ (msg[workerMsg[w]].appId = AllApps /\ AppOf[p] > workerApp[w])
  /\ workerPc[w] = "send" /\ AppOf[p] = workerApp[w] => workerFd[w] = clientFd[AppOf[p]]

ServedSoFar ==
  Regular => \A w \in Workers : Busy(w) =>
    \A p \in owed[workerMsg[w]] : p \in delivered[workerMsg[w]] \/ Ahead(w, p)

\* What a worker has seen of the client whose descriptor it passes to send.
SendKnown(w) ==
  LET m == msg[workerMsg[w]] IN
  /\ workerPc[w] \in {"check", "load"} => ~m.answer
  /\ Regular =>
       /\ workerPc[w] = "load" =>
            \E p \in Processes : AppOf[p] = workerApp[w] /\ m.msgType \in asked[p]
       /\ workerPc[w] = "send" /\ ~m.answer /\ workerConn[w] # None =>
            AppOf[workerConn[w]] = workerApp[w] /\ m.msgType \in asked[workerConn[w]]

SendsKnown ==
  /\ \A p \in Processes : wanted[p] \subseteq asked[p]
  /\ \A w \in Workers : SendKnown(w)

-------------------------------------------------------------------------------
(***************************************************************************)
(* Every action opened at once, and what moves a packet or a message.      *)
(***************************************************************************)
LEMMA NextCases ==
  ASSUME Next
  PROVE  \/ Start \/ StartFails \/ EpollFails \/ Accept \/ CloseFd \/ Rest
         \/ \E p \in Processes :
              \/ Connect(p) \/ Disconnect(p) \/ SendInvalid(p) \/ Receive(p)
              \/ \E t \in Types, kind \in {"subscribe", "unsubscribe"} : Request(p, kind, t)
              \/ \E m \in Messages, answer \in BOOLEAN, a \in {AllApps} \cup Apps, t \in Types :
                   SendMsg(p, m, answer, a, t)
         \/ \E f \in Fds :
              \/ HandleSubscribe(f) \/ HandleUnsubscribe(f) \/ HandleData(f)
              \/ HandleDataFails(f) \/ HandleInvalid(f) \/ HandleDisconnect(f)
         \/ \E w \in Workers :
              \/ JobStart(w) \/ JobCheck(w) \/ JobLoad(w)
              \/ JobSend(w) \/ JobSendFails(w) \/ JobFree(w)
BY DEF Next, Client, Handle, Job, Subscribe, Unsubscribe

\* Packets of different kinds differ, and so do those with different messages.
LEMMA Kinds ==
  /\ \A m, n \in Messages : [kind |-> "message", of |-> m] = [kind |-> "message", of |-> n] => m = n
  /\ \A kind \in {"subscribe", "unsubscribe"}, t \in Types, a \in Ids, m \in Messages :
       /\ [kind |-> kind, of |-> t, appId |-> a] # [kind |-> "message", of |-> m]
       /\ [kind |-> kind, of |-> t, appId |-> a] # [kind |-> "invalid"]
  /\ \A m \in Messages : [kind |-> "message", of |-> m] # [kind |-> "invalid"]
<1>1. \A m, n \in Messages : [kind |-> "message", of |-> m] = [kind |-> "message", of |-> n] => m = n
  <2>1. \A m \in Messages : [kind |-> "message", of |-> m].of = m
    OBVIOUS
  <2>2. QED BY <2>1
<1>2. ASSUME NEW kind \in {"subscribe", "unsubscribe"}, NEW t \in Types, NEW a \in Ids,
             NEW m \in Messages
      PROVE  /\ [kind |-> kind, of |-> t, appId |-> a].kind = kind
             /\ [kind |-> "message", of |-> m].kind = "message"
             /\ [kind |-> "invalid"].kind = "invalid"
             /\ kind # "message" /\ kind # "invalid" /\ "message" # "invalid"
  OBVIOUS
<1>3. ASSUME NEW m \in Messages
      PROVE  [kind |-> "message", of |-> m] # [kind |-> "invalid"]
  OBVIOUS
<1>4. QED BY <1>1, <1>2, <1>3

InboxTypes ==
  /\ inbox \in [Processes -> Seq(Packet)]
  /\ \A p \in Processes : Len(inbox[p]) <= InboxMax

OutboxTypes ==
  /\ outbox \in [Processes -> Seq(Messages)]
  /\ \A p \in Processes : Len(outbox[p]) <= OutboxMax

\* What recv() leaves of the packets of client p.
Received(p, pkt, q) ==
  /\ inbox' = [inbox EXCEPT ![p] = q] /\ Len(q) <= InboxMax
  /\ 1 \in DOMAIN inbox[p] /\ inbox[p][1] = pkt
  /\ \A i \in DOMAIN q : i \in Nat /\ i + 1 \in DOMAIN inbox[p] /\ q[i] = inbox[p][i + 1] /\ i + 1 # 1

LEMMA RecvMoves ==
  ASSUME InboxTypes, NEW f \in Fds, fdConn[f] \in Processes, NEW pkt, Recv(f, pkt)
  PROVE  pkt \in Packet /\ \E q \in Seq(Packet) : Received(fdConn[f], pkt, q)
<1> DEFINE p == fdConn[f]  s == inbox[p]  q == Tail(s)
<1>1. s \in Seq(Packet) /\ s # <<>> /\ Len(s) <= InboxMax
  BY DEF InboxTypes, Recv
<1>2. pkt = Head(s) /\ inbox' = [inbox EXCEPT ![p] = q]
  BY DEF Recv
<1> HIDE DEF s, q
<1>3. /\ Head(s) \in Packet /\ Tail(s) \in Seq(Packet) /\ Head(s) = s[1]
      /\ Len(s) \in Nat \ {0} /\ DOMAIN s = 1 .. Len(s)
      /\ Len(Tail(s)) = Len(s) - 1 /\ DOMAIN Tail(s) = 1 .. Len(Tail(s))
      /\ \A i \in 1 .. Len(Tail(s)) : Tail(s)[i] = s[i + 1]
  BY <1>1, HeadTailProperties, EmptySeq, LenProperties
<1>4. /\ q \in Seq(Packet) /\ Len(q) <= InboxMax
      /\ \A i \in DOMAIN q : i \in Nat /\ i + 1 \in DOMAIN s /\ q[i] = s[i + 1] /\ i + 1 # 1
  BY <1>1, <1>3, ConstantsAssumption DEF q
<1>5. 1 \in DOMAIN s /\ s[1] = pkt
  BY <1>2, <1>3
<1>6. QED BY <1>2, <1>3, <1>4, <1>5 DEF Received, s

\* What send() adds to them.
Added(p, packet, q) ==
  /\ inbox' = [inbox EXCEPT ![p] = q] /\ Len(q) <= InboxMax
  /\ \E n \in Nat : /\ DOMAIN inbox[p] = 1 .. n /\ DOMAIN q = 1 .. n + 1
                    /\ q[n + 1] = packet /\ \A i \in 1 .. n : q[i] = inbox[p][i]

LEMMA TransmitMoves ==
  ASSUME InboxTypes, NEW p \in Processes, NEW packet \in Packet, Transmit(p, packet)
  PROVE  \E q \in Seq(Packet) : Added(p, packet, q)
<1> DEFINE s == inbox[p]  q == Append(s, packet)
<1>1. s \in Seq(Packet) /\ Len(s) < InboxMax /\ inbox' = [inbox EXCEPT ![p] = q]
  BY DEF InboxTypes, Transmit
<1> HIDE DEF s
<1>2. /\ q \in Seq(Packet) /\ Len(q) = Len(s) + 1 /\ q[Len(s) + 1] = packet
      /\ \A i \in 1 .. Len(s) : q[i] = s[i]
  BY <1>1, AppendProperties
<1>3. Len(s) \in Nat /\ DOMAIN s = 1 .. Len(s) /\ DOMAIN q = 1 .. Len(s) + 1
  BY <1>1, <1>2, LenProperties
<1>4. Len(q) <= InboxMax
  BY <1>1, <1>2, <1>3, ConstantsAssumption
<1> HIDE DEF q
<1>5. QED BY <1>1, <1>2, <1>3, <1>4 DEF Added, s

LEMMA MessageFields ==
  /\ \A p \in Processes, answer \in BOOLEAN, a \in {AllApps} \cup Apps, t \in Types :
       LET r == [answer |-> answer, appId |-> a, msgType |-> t, src |-> None]
       IN  r \in Message
  /\ \A r \in Message : /\ r.answer \in BOOLEAN /\ r.msgType \in Types
                        /\ r.appId \in Ids /\ r.src \in Fds \cup {None}
  /\ \A r \in Message, f \in Fds :
       LET s == [r EXCEPT !.src = f]
       IN  /\ s \in Message /\ s.answer = r.answer
           /\ s.appId = r.appId /\ s.msgType = r.msgType
<1>1. AllApps \in Ids
  BY ConstantsAssumption DEF Ids, AllApps
<1>2. QED BY <1>1 DEF Message, Apps

LEMMA PacketForms ==
  /\ \A kind \in {"subscribe", "unsubscribe"}, t \in Types, a \in Ids :
       [kind |-> kind, of |-> t, appId |-> a] \in Packet
  /\ \A m \in Messages : [kind |-> "message", of |-> m] \in Packet
  /\ [kind |-> "invalid"] \in Packet
BY DEF Packet
-------------------------------------------------------------------------------
(***************************************************************************)
(* Types.                                                                  *)
(***************************************************************************)
ServerTypes ==
  /\ server \in Starting \cup {"up", "deaf", "gone"}
  /\ faults \in 0 .. MaxFaults /\ watched \in SUBSET Fds
  /\ fdConn \in [Fds -> Processes \cup {None}]
  /\ closing \in Fds \cup {None}
  /\ WatchedOpen

ClientTypes ==
  /\ procState \in [Processes -> {"start", "open", "closed"}]
  /\ backlog \in Seq(Processes)
  /\ InboxTypes /\ OutboxTypes

TableTypes ==
  /\ clientFd \in [Ids -> Fds \cup {None}]
  /\ msgFlag \in [Ids -> SUBSET Types]
  /\ wanted \in [Processes -> SUBSET Types] /\ asked \in [Processes -> SUBSET Types]

MessageTypes ==
  /\ queue \in Seq(Messages) /\ submitted \in SUBSET Messages
  /\ running \in SUBSET Messages /\ finished \in SUBSET Messages
  /\ msg \in [Messages -> Message \cup {None}]
  /\ delivered \in [Messages -> SUBSET Processes]
  /\ owed \in [Messages -> SUBSET Processes]
  /\ MessagesOnce

WorkerTypes ==
  /\ workerPc \in [Workers -> {"idle", "check", "load", "send", "free"}]
  /\ workerMsg \in [Workers -> Messages \cup {None}]
  /\ workerApp \in [Workers -> Ids \cup {None}]
  /\ workerFd \in [Workers -> Fds \cup {None}]
  /\ workerConn \in [Workers -> Processes \cup {None}]
  /\ WorkersPlaced /\ JobsOnce

Typed == ServerTypes /\ ClientTypes /\ TableTypes /\ MessageTypes /\ WorkerTypes

LEMMA TypedImpliesTypeOK == Typed => TypeOK
<1>1. MessageTypes => Pool!TypeOK
  BY DEF MessageTypes, Pool!TypeOK
<1>2. QED
  BY <1>1 DEF Typed, ServerTypes, ClientTypes, TableTypes, MessageTypes, WorkerTypes, InboxTypes,
              OutboxTypes, TypeOK

LEMMA NoneYet == {} \in SUBSET Types /\ {} \in SUBSET Messages /\ {} \in SUBSET Processes
                 /\ {} \in SUBSET Fds
OBVIOUS

LEMMA TypedInit == Init => Typed
<1> SUFFICES ASSUME Init PROVE Typed
  OBVIOUS
<1> USE ConstantsAssumption, NoneYet DEF Init
<1>1. ServerTypes
  BY DEF ServerTypes, WatchedOpen, Starting, NextStage
<1>2. ClientTypes
  BY DEF ClientTypes, InboxTypes, OutboxTypes
<1>3. TableTypes
  BY DEF TableTypes
<1>4. MessageTypes
  BY DEF MessageTypes, MessagesOnce, Pool!Init
<1>5. WorkerTypes
  BY DEF WorkerTypes, WorkersPlaced, JobsOnce, Busy, Pool!Init
<1>6. QED BY <1>1, <1>2, <1>3, <1>4, <1>5 DEF Typed

\* The packets of a client after recv(), and after send().
LEMMA ReceivedOnce ==
  ASSUME InboxTypes, MessagesOnce, NEW p \in Processes, NEW pkt, NEW q \in Seq(Packet),
         Received(p, pkt, q),
         \A m \in Messages : pkt # [kind |-> "message", of |-> m] =>
           (msg[m] # None => msg'[m] # None) /\ (m \in submitted' => m \in submitted)
  PROVE  InboxTypes' /\ MessagesOnce'
<1>1. /\ inbox \in [Processes -> Seq(Packet)] /\ \A x \in Processes : Len(inbox[x]) <= InboxMax
      /\ inbox' = [inbox EXCEPT ![p] = q] /\ Len(q) <= InboxMax
      /\ 1 \in DOMAIN inbox[p] /\ inbox[p][1] = pkt
      /\ \A i \in DOMAIN q : /\ i \in Nat /\ i + 1 \in DOMAIN inbox[p] /\ q[i] = inbox[p][i + 1]
                             /\ i + 1 # 1
  BY DEF InboxTypes, Received
<1>2. InboxTypes'
  BY <1>1 DEF InboxTypes
<1>3. ASSUME NEW m \in Messages, NEW x \in Processes, NEW i \in DOMAIN inbox'[x], Carries(x, i, m)'
      PROVE  \E j \in DOMAIN inbox[x] : /\ Carries(x, j, m)
                                        /\ x = p => j = i + 1 /\ j # 1 /\ i \in Nat
                                        /\ x # p => j = i
  BY <1>1, <1>3 DEF Carries
<1>4. ASSUME NEW m \in Messages, NEW x \in Processes, NEW i \in DOMAIN inbox'[x], Carries(x, i, m)'
      PROVE  /\ msg'[m] # None /\ m \notin submitted'
             /\ \A y \in Processes : \A k \in DOMAIN inbox'[y] : Carries(y, k, m)' => y = x /\ k = i
  <2>1. PICK j \in DOMAIN inbox[x] : /\ Carries(x, j, m)
                                     /\ x = p => j = i + 1 /\ j # 1 /\ i \in Nat
                                     /\ x # p => j = i
    BY <1>3, <1>4
  <2>2. pkt # [kind |-> "message", of |-> m]
    <3> SUFFICES ASSUME pkt = [kind |-> "message", of |-> m] PROVE FALSE
      OBVIOUS
    <3>1. Carries(p, 1, m)
      BY <1>1 DEF Carries
    <3>2. x = p /\ j = 1
      BY <1>1, <2>1, <3>1 DEF MessagesOnce
    <3>3. QED BY <2>1, <3>2
  <2>3. msg'[m] # None /\ m \notin submitted'
    BY <2>1, <2>2 DEF MessagesOnce
  <2>4. ASSUME NEW y \in Processes, NEW k \in DOMAIN inbox'[y], Carries(y, k, m)'
        PROVE  y = x /\ k = i
    <3>1. PICK l \in DOMAIN inbox[y] : /\ Carries(y, l, m)
                                       /\ y = p => l = k + 1 /\ l # 1 /\ k \in Nat
                                       /\ y # p => l = k
      BY <1>3, <2>4
    <3>2. y = x /\ l = j
      BY <2>1, <3>1 DEF MessagesOnce
    <3>3. QED BY <2>1, <3>1, <3>2
  <2>5. QED BY <2>3, <2>4
<1>5. MessagesOnce'
  BY <1>4 DEF MessagesOnce
<1>6. QED BY <1>2, <1>5

LEMMA AddedOnce ==
  ASSUME InboxTypes, MessagesOnce, NEW p \in Processes, NEW packet \in Packet, NEW q \in Seq(Packet),
         Added(p, packet, q), submitted' = submitted,
         \A m \in Messages : msg[m] # None => msg'[m] # None,
         \A m \in Messages : packet = [kind |-> "message", of |-> m] =>
           msg[m] = None /\ msg'[m] # None /\ m \notin submitted
  PROVE  InboxTypes' /\ MessagesOnce'
<1>1. PICK n \in Nat : /\ DOMAIN inbox[p] = 1 .. n /\ DOMAIN q = 1 .. n + 1
                       /\ q[n + 1] = packet /\ \A i \in 1 .. n : q[i] = inbox[p][i]
  BY DEF Added
<1>2. /\ inbox \in [Processes -> Seq(Packet)] /\ \A x \in Processes : Len(inbox[x]) <= InboxMax
      /\ inbox' = [inbox EXCEPT ![p] = q] /\ Len(q) <= InboxMax
  BY DEF InboxTypes, Added
<1>3. InboxTypes'
  BY <1>2 DEF InboxTypes
<1>4. ASSUME NEW m \in Messages, NEW x \in Processes, NEW i \in DOMAIN inbox'[x], Carries(x, i, m)'
      PROVE  \/ i \in DOMAIN inbox[x] /\ Carries(x, i, m)
             \/ x = p /\ i = n + 1 /\ packet = [kind |-> "message", of |-> m]
  BY <1>1, <1>2, <1>4 DEF Carries
<1>5. ASSUME NEW m \in Messages, NEW x \in Processes, NEW i \in DOMAIN inbox'[x], Carries(x, i, m)'
      PROVE  /\ msg'[m] # None /\ m \notin submitted'
             /\ \A y \in Processes : \A k \in DOMAIN inbox'[y] : Carries(y, k, m)' => y = x /\ k = i
  <2>1. CASE packet = [kind |-> "message", of |-> m]
    <3>1. ~\E y \in Processes : \E k \in DOMAIN inbox[y] : Carries(y, k, m)
      BY <2>1 DEF MessagesOnce
    <3>2. \A y \in Processes : \A k \in DOMAIN inbox'[y] : Carries(y, k, m)' => y = p /\ k = n + 1
      BY <1>4, <3>1
    <3>3. QED BY <1>5, <2>1, <3>2
  <2>2. CASE packet # [kind |-> "message", of |-> m]
    <3>1. i \in DOMAIN inbox[x] /\ Carries(x, i, m)
      BY <1>4, <1>5, <2>2
    <3>2. \A y \in Processes : \A k \in DOMAIN inbox'[y] : Carries(y, k, m)' =>
            k \in DOMAIN inbox[y] /\ Carries(y, k, m)
      BY <1>4, <2>2
    <3>3. QED BY <3>1, <3>2 DEF MessagesOnce
  <2>3. QED BY <2>1, <2>2
<1>6. MessagesOnce'
  BY <1>5 DEF MessagesOnce
<1>7. QED BY <1>3, <1>6

\* Messages stay known to the pool and to the workers.
LEMMA JobsKept ==
  ASSUME WorkerTypes, MessageTypes, UNCHANGED <<queue, workerVars>>,
         msg' \in [Messages -> Message \cup {None}], submitted \subseteq submitted',
         \A m \in Messages : m \in submitted => msg'[m] = msg[m]
  PROVE  WorkerTypes'
<1> USE DEF WorkerTypes, workerVars
<1>1. \A i \in DOMAIN queue : queue[i] \in Messages
  BY ElementOfSeq, LenProperties DEF MessageTypes
<1>2. JobsOnce'
  <2>1. \A i \in DOMAIN queue : queue[i] \in submitted' /\ msg'[queue[i]] # None
    BY <1>1 DEF JobsOnce
  <2>2. ASSUME NEW w \in Workers, Busy(w)
        PROVE  /\ workerMsg[w] \in submitted' /\ msg'[workerMsg[w]] # None
               /\ \A i \in DOMAIN queue : queue[i] # workerMsg[w]
               /\ \A v \in Workers : Busy(v) /\ workerMsg[v] = workerMsg[w] => v = w
    BY <2>2 DEF JobsOnce, WorkersPlaced
  <2>3. QED BY <2>1, <2>2 DEF JobsOnce, Busy
<1>3. WorkersPlaced'
  BY DEF WorkersPlaced, JobsOnce, Busy
<1>4. QED BY <1>2, <1>3

\* The two ends of the queue.
LEMMA SubmitMoves ==
  ASSUME NEW m \in Messages, Pool!Submit(m), queue \in Seq(Messages)
  PROVE  /\ queue' \in Seq(Messages) /\ m \notin submitted
         /\ \E n \in Nat : /\ DOMAIN queue = 1 .. n /\ DOMAIN queue' = 1 .. n + 1
                           /\ queue'[1] = m /\ \A i \in 2 .. n + 1 : queue'[i] = queue[i - 1]
         /\ submitted' = submitted \cup {m} /\ UNCHANGED <<running, finished>>
<1>1. queue' = <<m>> \o queue /\ <<m>> \in Seq(Messages) /\ Len(<<m>>) = 1 /\ <<m>>[1] = m
  BY DEF Pool!Submit
<1>2. /\ queue' \in Seq(Messages) /\ Len(queue') = Len(<<m>>) + Len(queue)
      /\ \A i \in 1 .. Len(queue') :
           queue'[i] = IF i <= Len(<<m>>) THEN <<m>>[i] ELSE queue[i - Len(<<m>>)]
  BY <1>1, ConcatProperties
<1>3. Len(queue) \in Nat /\ DOMAIN queue = 1 .. Len(queue) /\ DOMAIN queue' = 1 .. Len(queue')
  BY <1>2, LenProperties
<1> DEFINE n == Len(queue)
<1> HIDE DEF n
<1>4. /\ n \in Nat /\ DOMAIN queue = 1 .. n /\ DOMAIN queue' = 1 .. n + 1
      /\ \A i \in 1 .. n + 1 : queue'[i] = IF i <= 1 THEN m ELSE queue[i - 1]
  BY <1>1, <1>2, <1>3 DEF n
<1>5. queue'[1] = m /\ \A i \in 2 .. n + 1 : queue'[i] = queue[i - 1]
  BY <1>4
<1>6. QED BY <1>2, <1>4, <1>5 DEF Pool!Submit

LEMMA StartMoves ==
  ASSUME Pool!StartOldest, queue \in Seq(Messages)
  PROVE  /\ queue' \in Seq(Messages) /\ Last(queue) \in Messages
         /\ \E n \in Nat : /\ DOMAIN queue = 1 .. n + 1 /\ DOMAIN queue' = 1 .. n
                           /\ Last(queue) = queue[n + 1] /\ \A i \in 1 .. n : queue'[i] = queue[i]
         /\ running' = running \cup {Last(queue)} /\ UNCHANGED <<submitted, finished>>
<1>1. queue # <<>> /\ queue' = Front(queue)
  BY DEF Pool!StartOldest, Pool!Front, Front
<1>2. /\ Front(queue) \in Seq(Messages) /\ Last(queue) \in Messages
      /\ Len(Front(queue)) = Len(queue) - 1 /\ Last(queue) = queue[Len(queue)]
      /\ \A i \in 1 .. Len(queue) - 1 : Front(queue)[i] = queue[i]
  BY <1>1, FrontLast
<1>3. /\ Len(queue) \in Nat \ {0} /\ DOMAIN queue = 1 .. Len(queue)
      /\ DOMAIN Front(queue) = 1 .. Len(Front(queue))
  BY <1>1, <1>2, LenProperties, EmptySeq
<1> DEFINE n == Len(queue) - 1
<1>4. n \in Nat /\ n + 1 = Len(queue)
  BY <1>3
<1>5. /\ DOMAIN queue = 1 .. n + 1 /\ DOMAIN queue' = 1 .. n
      /\ Last(queue) = queue[n + 1] /\ \A i \in 1 .. n : queue'[i] = queue[i]
  BY <1>1, <1>2, <1>3, <1>4
<1>6. QED BY <1>1, <1>2, <1>4, <1>5 DEF Pool!StartOldest, Pool!Last, Last

LEMMA TypesKept ==
  /\ ServerTypes /\ UNCHANGED <<serverVars, fdConn, closing>> => ServerTypes'
  /\ ClientTypes /\ UNCHANGED clientVars => ClientTypes'
  /\ TableTypes /\ UNCHANGED tableVars => TableTypes'
  /\ MessageTypes /\ UNCHANGED <<poolVars, msg, deliveryVars, inbox>> => MessageTypes'
  /\ WorkerTypes /\ UNCHANGED <<workerVars, queue, submitted, msg>> => WorkerTypes'
<1>1. ServerTypes /\ UNCHANGED <<serverVars, fdConn, closing>> => ServerTypes'
  BY DEF ServerTypes, WatchedOpen, serverVars
<1>2. ClientTypes /\ UNCHANGED clientVars => ClientTypes'
  BY DEF ClientTypes, InboxTypes, OutboxTypes, clientVars
<1>3. TableTypes /\ UNCHANGED tableVars => TableTypes'
  BY DEF TableTypes, tableVars
<1>4. MessageTypes /\ UNCHANGED <<poolVars, msg, deliveryVars, inbox>> => MessageTypes'
  BY DEF MessageTypes, MessagesOnce, Carries, poolVars, deliveryVars
<1>5. WorkerTypes /\ UNCHANGED <<workerVars, queue, submitted, msg>> => WorkerTypes'
  BY DEF WorkerTypes, WorkersPlaced, JobsOnce, Busy, workerVars
<1>6. QED BY <1>1, <1>2, <1>3, <1>4, <1>5

\* A packet that is not a message.
LEMMA OtherSent ==
  ASSUME Typed, NEW p \in Processes, NEW packet \in Packet, Transmit(p, packet), msg' = msg,
         \A m \in Messages : packet # [kind |-> "message", of |-> m]
  PROVE  Typed'
<1>1. PICK q \in Seq(Packet) : Added(p, packet, q)
  BY TransmitMoves DEF Typed, ClientTypes
<1>2. UNCHANGED <<serverVars, procState, outbox, backlog, fdConn, tableVars, closing,
                  poolVars, workerVars, deliveryVars>>
  BY DEF Transmit
<1>3. InboxTypes' /\ MessagesOnce'
  BY <1>1, <1>2, AddedOnce DEF Typed, ClientTypes, MessageTypes, poolVars
<1>4. ServerTypes' /\ TableTypes' /\ WorkerTypes'
  BY <1>2, TypesKept DEF Typed, poolVars
<1>5. ClientTypes'
  BY <1>2, <1>3 DEF Typed, ClientTypes, OutboxTypes
<1>6. MessageTypes'
  BY <1>2, <1>3 DEF Typed, MessageTypes, poolVars, deliveryVars
<1>7. QED BY <1>4, <1>5, <1>6 DEF Typed

\* What every packet the server receives leaves as it is.
LEMMA RecvKeeps ==
  ASSUME Typed, NEW f \in Fds, NEW pkt, Recv(f, pkt)
  PROVE  /\ fdConn[f] \in Processes /\ f \in watched /\ server = "up" /\ closing = None
         /\ pkt \in Packet
         /\ \E q \in Seq(Packet) : Received(fdConn[f], pkt, q)
         /\ UNCHANGED <<server, watched, procState, outbox, backlog, fdConn, closing, workerVars>>
<1>1. fdConn[f] \in Processes
  BY DEF Recv, Typed, ServerTypes, WatchedOpen
<1>2. QED BY <1>1, RecvMoves DEF Recv, Typed, ClientTypes

LEMMA OtherReceived ==
  ASSUME Typed, NEW f \in Fds, NEW pkt, Recv(f, pkt), UNCHANGED <<msg, poolVars, delivered>>,
         faults' \in 0 .. MaxFaults, TableTypes', owed' \in [Messages -> SUBSET Processes]
  PROVE  Typed'
<1>1. /\ fdConn[f] \in Processes
      /\ UNCHANGED <<server, watched, procState, outbox, backlog, fdConn, closing, workerVars>>
  BY RecvKeeps
<1>2. PICK q \in Seq(Packet) : Received(fdConn[f], pkt, q)
  BY RecvKeeps
<1>3. InboxTypes' /\ MessagesOnce'
  BY <1>1, <1>2, ReceivedOnce DEF Typed, ClientTypes, MessageTypes, poolVars
<1>4. ServerTypes'
  BY <1>1 DEF Typed, ServerTypes, WatchedOpen
<1>5. ClientTypes'
  BY <1>1, <1>3 DEF Typed, ClientTypes, OutboxTypes
<1>6. MessageTypes'
  BY <1>3 DEF Typed, MessageTypes, poolVars
<1>7. WorkerTypes'
  BY <1>1, TypesKept DEF Typed, poolVars
<1>8. QED BY <1>4, <1>5, <1>6, <1>7 DEF Typed

\* A worker that goes on, or is done with its message.
LEMMA Advances ==
  ASSUME Typed, NEW w \in Workers, workerPc[w] \in {"check", "send"}, Advance(w),
         UNCHANGED <<workerMsg, queue, submitted, msg>>
  PROVE  WorkerTypes'
<1>1. /\ workerMsg[w] \in Messages /\ msg[workerMsg[w]] \in Message
  BY DEF Typed, WorkerTypes, WorkersPlaced, JobsOnce, MessageTypes, Busy
<1>2. workerPc'[w] \in {"check", "free"}
      /\ workerPc' = [workerPc EXCEPT ![w] = workerPc'[w]]
  BY DEF Advance, Typed, WorkerTypes
<1>3. \/ workerApp' = workerApp /\ workerPc'[w] = "free"
      \/ \E a \in Ids : workerApp' = [workerApp EXCEPT ![w] = a]
  BY <1>2 DEF Advance, Typed, WorkerTypes
<1>4. /\ workerPc' \in [Workers -> {"idle", "check", "load", "send", "free"}]
      /\ workerApp' \in [Workers -> Ids \cup {None}]
      /\ workerFd' \in [Workers -> Fds \cup {None}]
      /\ workerConn' \in [Workers -> Processes \cup {None}]
  BY <1>2, <1>3 DEF Advance, Typed, WorkerTypes
<1>5. \A v \in Workers : Busy(v)' = Busy(v)
  BY <1>2 DEF Busy, Typed, WorkerTypes
<1>6. JobsOnce'
  BY <1>5 DEF Typed, WorkerTypes, JobsOnce
<1>7. WorkersPlaced'
  BY <1>2, <1>3, <1>5 DEF Typed, WorkerTypes, WorkersPlaced
<1>8. QED BY <1>4, <1>6, <1>7 DEF Typed, WorkerTypes

LEMMA StartTypes ==
  ASSUME Typed, NEW w \in Workers, JobStart(w)
  PROVE  Typed'
<1> DEFINE m == Last(queue)
<1>1. PICK n \in Nat : /\ DOMAIN queue = 1 .. n + 1 /\ DOMAIN queue' = 1 .. n
                       /\ m = queue[n + 1] /\ \A i \in 1 .. n : queue'[i] = queue[i]
  BY StartMoves DEF JobStart, Typed, MessageTypes
<1>2. /\ queue' \in Seq(Messages) /\ m \in Messages
      /\ running' = running \cup {m} /\ UNCHANGED <<submitted, finished>>
  BY StartMoves DEF JobStart, Typed, MessageTypes
<1> HIDE DEF m
<1>3. UNCHANGED <<serverVars, clientVars, fdConn, tableVars, closing, msg, deliveryVars>>
  BY DEF JobStart
<1>4. n + 1 \in DOMAIN queue /\ \A i \in 1 .. n : i \in DOMAIN queue /\ i # n + 1
  BY <1>1
<1>5. /\ m \in submitted /\ msg[m] \in Message
      /\ \A i \in DOMAIN queue' : i \in DOMAIN queue /\ queue'[i] = queue[i] /\ queue[i] # m
      /\ \A v \in Workers : Busy(v) => workerMsg[v] # m
  <2>1. m \in submitted /\ msg[m] # None
    BY <1>1, <1>4 DEF Typed, WorkerTypes, JobsOnce
  <2>2. \A i \in 1 .. n : queue[i] # m
    BY <1>1, <1>4 DEF Typed, WorkerTypes, JobsOnce
  <2>3. \A v \in Workers : Busy(v) => workerMsg[v] # m
    BY <1>1, <1>4 DEF Typed, WorkerTypes, JobsOnce
  <2>4. msg[m] \in Message
    BY <1>2, <2>1 DEF Typed, MessageTypes
  <2>5. QED BY <1>1, <1>4, <2>1, <2>2, <2>3, <2>4
<1>6. /\ msg[m].answer \in BOOLEAN /\ msg[m].appId \in Ids /\ msg[m].src \in Fds \cup {None}
  BY <1>5, MessageFields
<1>7. PICK pc \in {"send", "check"}, fd \in Fds \cup {None}, conn \in Processes \cup {None} :
         /\ pc = "check" => ~msg[m].answer
         /\ workerPc[w] = "idle" /\ workerPc' = [workerPc EXCEPT ![w] = pc]
         /\ workerMsg' = [workerMsg EXCEPT ![w] = m]
         /\ workerApp' = [workerApp EXCEPT ![w] = msg[m].appId]
         /\ workerFd' = [workerFd EXCEPT ![w] = fd]
         /\ workerConn' = [workerConn EXCEPT ![w] = conn]
  BY <1>6 DEF JobStart, m
<1>8. ServerTypes' /\ ClientTypes' /\ TableTypes'
  BY <1>3, TypesKept DEF Typed
<1>9. MessageTypes'
  BY <1>2, <1>3 DEF Typed, MessageTypes, MessagesOnce, Carries, deliveryVars, clientVars
<1>10. /\ m # None /\ \A v \in Workers : Busy(v)' <=> (v = w \/ Busy(v))
       /\ \A v \in Workers : workerMsg'[v] = IF v = w THEN m ELSE workerMsg[v]
  BY <1>2, <1>7, ConstantsAssumption DEF Busy, Typed, WorkerTypes
<1>11. JobsOnce'
  <2>1. /\ \A i \in DOMAIN queue' : queue'[i] \in submitted' /\ msg'[queue'[i]] # None
        /\ \A i, j \in DOMAIN queue' : queue'[i] = queue'[j] => i = j
    BY <1>2, <1>3, <1>5 DEF Typed, WorkerTypes, JobsOnce
  <2>2. ASSUME NEW v \in Workers, Busy(v)'
        PROVE  /\ workerMsg'[v] \in submitted' /\ msg'[workerMsg'[v]] # None
               /\ \A i \in DOMAIN queue' : queue'[i] # workerMsg'[v]
               /\ \A u \in Workers : Busy(u)' /\ workerMsg'[u] = workerMsg'[v] => u = v
    <3>1. CASE v = w
      <4>1. msg[m] # None
        BY <1>5, MessageAssumption
      <4>2. QED BY <1>2, <1>3, <1>5, <1>10, <3>1, <4>1
    <3>2. CASE v # w
      <4>1. Busy(v)
        BY <1>10, <2>2, <3>2
      <4>2. QED BY <1>2, <1>3, <1>5, <1>10, <3>2, <4>1 DEF Typed, WorkerTypes, JobsOnce
    <3>3. QED BY <3>1, <3>2
  <2>3. QED BY <2>1, <2>2 DEF JobsOnce
<1>12. WorkersPlaced'
  BY <1>2, <1>3, <1>6, <1>7, <1>10 DEF Typed, WorkerTypes, WorkersPlaced
<1>13. WorkerTypes'
  BY <1>2, <1>6, <1>7, <1>11, <1>12 DEF Typed, WorkerTypes
<1>14. QED BY <1>8, <1>9, <1>13 DEF Typed

LEMMA DataTypes ==
  ASSUME Typed, NEW f \in Fds, NEW m \in Messages,
         Recv(f, [kind |-> "message", of |-> m]),
         msg' = [msg EXCEPT ![m].src = f], Pool!Submit(m), owed' = [owed EXCEPT ![m] = Subscribers(m)],
         UNCHANGED <<faults, tableVars, delivered>>
  PROVE  Typed' /\ msg[m] \in Message
<1> DEFINE p == fdConn[f]  pkt == [kind |-> "message", of |-> m]
<1>1. /\ p \in Processes
      /\ UNCHANGED <<server, watched, procState, outbox, backlog, fdConn, closing, workerVars>>
  BY RecvKeeps
<1>2. PICK q \in Seq(Packet) : Received(p, pkt, q)
  BY RecvKeeps
<1>3. queue' \in Seq(Messages) /\ m \notin submitted
      /\ submitted' = submitted \cup {m} /\ UNCHANGED <<running, finished>>
  BY SubmitMoves DEF Typed, MessageTypes
<1>4. PICK n \in Nat : /\ DOMAIN queue = 1 .. n /\ DOMAIN queue' = 1 .. n + 1
                       /\ queue'[1] = m /\ \A i \in 2 .. n + 1 : queue'[i] = queue[i - 1]
  BY SubmitMoves DEF Typed, MessageTypes
<1>5. msg[m] \in Message
  <2>1. 1 \in DOMAIN inbox[p] /\ Carries(p, 1, m)
    BY <1>2 DEF Received, Carries
  <2>2. QED BY <1>1, <2>1 DEF Typed, MessageTypes, MessagesOnce
<1>6. /\ msg' = [msg EXCEPT ![m] = [msg[m] EXCEPT !.src = f]]
      /\ [msg[m] EXCEPT !.src = f] \in Message
      /\ [msg[m] EXCEPT !.src = f].answer = msg[m].answer
  BY <1>5, MessageFields
<1>7. PICK r \in Message : msg' = [msg EXCEPT ![m] = r]
  BY <1>6
<1>8. msg' \in [Messages -> Message \cup {None}] /\ \A x \in Messages : x # m => msg'[x] = msg[x]
  BY <1>7 DEF Typed, MessageTypes
<1>9. msg'[m] # None
  BY <1>7, MessageAssumption DEF Typed, MessageTypes
<1>10. \A x \in Messages : pkt # [kind |-> "message", of |-> x] => x # m
  OBVIOUS
<1> HIDE DEF p, pkt
<1>11. InboxTypes' /\ MessagesOnce'
  <2>1. \A x \in Messages : pkt # [kind |-> "message", of |-> x] =>
          (msg[x] # None => msg'[x] # None) /\ (x \in submitted' => x \in submitted)
    BY <1>3, <1>8, <1>10
  <2>2. QED BY <1>1, <1>2, <2>1, ReceivedOnce DEF Typed, ClientTypes, MessageTypes
<1>12. ServerTypes' /\ TableTypes'
  BY <1>1, TypesKept DEF Typed, ServerTypes, WatchedOpen
<1>13. ClientTypes'
  BY <1>1, <1>11 DEF Typed, ClientTypes, OutboxTypes
<1>14. MessageTypes'
  <2>1. owed' \in [Messages -> SUBSET Processes]
    BY DEF Typed, MessageTypes, Subscribers
  <2>2. QED BY <1>3, <1>8, <1>11, <2>1 DEF Typed, MessageTypes
<1>15. \A w \in Workers : Busy(w) => workerMsg[w] \in Messages /\ workerMsg[w] # m
  BY <1>3 DEF Typed, WorkerTypes, WorkersPlaced, JobsOnce
<1>16. JobsOnce'
  <2>1. \A i \in 1 .. n : queue[i] \in submitted /\ queue[i] # m /\ msg'[queue[i]] # None
    BY <1>3, <1>4, <1>8 DEF Typed, WorkerTypes, MessageTypes, JobsOnce
  <2>2. \A i \in DOMAIN queue' : \/ i = 1 /\ queue'[i] = m
                                 \/ i # 1 /\ i - 1 \in 1 .. n /\ queue'[i] = queue[i - 1]
    BY <1>4
  <2>3. \A i \in DOMAIN queue' : queue'[i] \in submitted' /\ msg'[queue'[i]] # None
    BY <1>3, <1>9, <2>1, <2>2
  <2>4. \A i, j \in DOMAIN queue' : queue'[i] = queue'[j] => i = j
    <3>1. \A i, j \in 1 .. n : queue[i] = queue[j] => i = j
      BY <1>4 DEF Typed, WorkerTypes, JobsOnce
    <3>2. \A i \in DOMAIN queue' : i \in Int
      BY <1>4
    <3>3. QED BY <2>1, <2>2, <3>1, <3>2
  <2>5. ASSUME NEW w \in Workers, Busy(w)
        PROVE  /\ workerMsg[w] \in submitted' /\ msg'[workerMsg[w]] # None
               /\ \A i \in DOMAIN queue' : queue'[i] # workerMsg[w]
               /\ \A v \in Workers : Busy(v) /\ workerMsg[v] = workerMsg[w] => v = w
    <3>1. workerMsg[w] \in submitted' /\ msg'[workerMsg[w]] # None
      BY <1>3, <1>8, <1>15, <2>5 DEF Typed, WorkerTypes, JobsOnce
    <3>2. \A i \in DOMAIN queue' : queue'[i] # workerMsg[w]
      BY <1>4, <1>15, <2>2, <2>5 DEF Typed, WorkerTypes, JobsOnce
    <3>3. QED BY <2>5, <3>1, <3>2 DEF Typed, WorkerTypes, JobsOnce
  <2>6. QED BY <1>1, <2>3, <2>4, <2>5 DEF JobsOnce, Busy, workerVars
<1>17. WorkerTypes'
  BY <1>1, <1>8, <1>15, <1>16 DEF Typed, WorkerTypes, WorkersPlaced, Busy, workerVars
<1>18. QED BY <1>5, <1>12, <1>13, <1>14, <1>17 DEF Typed
LEMMA SentTypes ==
  ASSUME Typed, NEW p \in Processes, NEW m \in Messages, NEW answer \in BOOLEAN,
         NEW a \in {AllApps} \cup Apps, NEW t \in Types, SendMsg(p, m, answer, a, t)
  PROVE  Typed'
<1> DEFINE packet == [kind |-> "message", of |-> m]
<1>1. PICK r \in Message : msg' = [msg EXCEPT ![m] = r]
  BY MessageFields DEF SendMsg
<1>2. msg[m] = None /\ m \notin submitted /\ packet \in Packet /\ Transmit(p, packet)
  BY PacketForms DEF SendMsg
<1>3. PICK q \in Seq(Packet) : Added(p, packet, q)
  BY <1>2, TransmitMoves DEF Typed, ClientTypes
<1>4. UNCHANGED <<serverVars, procState, outbox, backlog, fdConn, tableVars, closing,
                  poolVars, workerVars, deliveryVars>>
  BY <1>2 DEF Transmit
<1>5. \A x \in Messages : packet = [kind |-> "message", of |-> x] => x = m
  BY Kinds
<1> HIDE DEF packet
<1>6. /\ msg' \in [Messages -> Message \cup {None}] /\ msg'[m] # None
      /\ \A x \in Messages : x # m => msg'[x] = msg[x]
  BY <1>1, MessageAssumption DEF Typed, MessageTypes
<1>7. InboxTypes' /\ MessagesOnce'
  <2>1. \A x \in Messages : packet = [kind |-> "message", of |-> x] =>
          msg[x] = None /\ msg'[x] # None /\ x \notin submitted
    BY <1>2, <1>5, <1>6
  <2>2. \A x \in Messages : msg[x] # None => msg'[x] # None
    BY <1>2, <1>6
  <2>3. QED BY <1>2, <1>3, <1>4, <2>1, <2>2, AddedOnce DEF Typed, ClientTypes, MessageTypes, poolVars
<1>8. ServerTypes' /\ TableTypes'
  BY <1>4, TypesKept DEF Typed
<1>9. WorkerTypes'
  BY <1>2, <1>4, <1>6, JobsKept DEF Typed, poolVars
<1>10. ClientTypes'
  BY <1>4, <1>7 DEF Typed, ClientTypes, OutboxTypes
<1>11. MessageTypes'
  BY <1>4, <1>6, <1>7 DEF Typed, MessageTypes, poolVars, deliveryVars
<1>12. QED BY <1>8, <1>9, <1>10, <1>11 DEF Typed

LEMMA DroppedTypes ==
  ASSUME Typed, NEW f \in Fds, NEW m \in Messages, Recv(f, [kind |-> "message", of |-> m]),
         Fails, msg' = [msg EXCEPT ![m] = None], UNCHANGED <<tableVars, poolVars, deliveryVars>>
  PROVE  Typed'
<1> DEFINE p == fdConn[f]  pkt == [kind |-> "message", of |-> m]
<1>1. /\ p \in Processes
      /\ UNCHANGED <<server, watched, procState, outbox, backlog, fdConn, closing, workerVars>>
  BY RecvKeeps
<1>2. PICK q \in Seq(Packet) : Received(p, pkt, q)
  BY RecvKeeps
<1>3. m \notin submitted
  <2>1. 1 \in DOMAIN inbox[p] /\ Carries(p, 1, m)
    BY <1>2 DEF Received, Carries
  <2>2. QED BY <1>1, <2>1 DEF Typed, MessageTypes, MessagesOnce
<1>4. msg' \in [Messages -> Message \cup {None}] /\ \A x \in Messages : x # m => msg'[x] = msg[x]
  BY DEF Typed, MessageTypes
<1>5. \A x \in Messages : pkt # [kind |-> "message", of |-> x] => x # m
  OBVIOUS
<1> HIDE DEF p, pkt
<1>6. InboxTypes' /\ MessagesOnce'
  <2>1. \A x \in Messages : pkt # [kind |-> "message", of |-> x] =>
          (msg[x] # None => msg'[x] # None) /\ (x \in submitted' => x \in submitted)
    BY <1>4, <1>5 DEF poolVars
  <2>2. QED BY <1>1, <1>2, <2>1, ReceivedOnce DEF Typed, ClientTypes, MessageTypes
<1>7. faults' \in 0 .. MaxFaults
  BY ConstantsAssumption DEF Fails, Typed, ServerTypes
<1>8. ServerTypes' /\ TableTypes'
  BY <1>1, <1>7, TypesKept DEF Typed, ServerTypes, WatchedOpen
<1>9. ClientTypes'
  BY <1>1, <1>6 DEF Typed, ClientTypes, OutboxTypes
<1>10. MessageTypes'
  BY <1>4, <1>6 DEF Typed, MessageTypes, poolVars, deliveryVars
<1>11. WorkerTypes'
  BY <1>1, <1>3, <1>4, JobsKept DEF Typed, poolVars
<1>12. QED BY <1>8, <1>9, <1>10, <1>11 DEF Typed

LEMMA FreeTypes ==
  ASSUME Typed, NEW w \in Workers, JobFree(w)
  PROVE  Typed'
<1> DEFINE m == workerMsg[w]
<1>1. /\ workerPc[w] = "free" /\ Busy(w) /\ m \in Messages /\ m \in submitted
      /\ workerPc' = [workerPc EXCEPT ![w] = "idle"]
      /\ workerMsg' = [workerMsg EXCEPT ![w] = None]
      /\ workerApp' = [workerApp EXCEPT ![w] = None]
      /\ msg' = [msg EXCEPT ![m] = None]
      /\ delivered' = [delivered EXCEPT ![m] = {}]
      /\ owed' = [owed EXCEPT ![m] = {}]
      /\ UNCHANGED <<serverVars, clientVars, fdConn, tableVars, closing, workerFd, workerConn>>
  BY DEF JobFree, Busy, Typed, WorkerTypes, WorkersPlaced, JobsOnce
<1>2. /\ running' = running \ {m} /\ finished' = finished \cup {m}
      /\ UNCHANGED <<queue, submitted>>
  BY DEF JobFree, Pool!Finish
<1>3. \A i \in DOMAIN queue : queue[i] # m /\ queue[i] \in Messages
  BY <1>1, ElementOfSeq, LenProperties DEF Typed, WorkerTypes, MessageTypes, JobsOnce
<1>4. \A v \in Workers : v # w /\ Busy(v) => workerMsg[v] # m /\ workerMsg[v] \in Messages
  BY <1>1 DEF Typed, WorkerTypes, JobsOnce, WorkersPlaced
<1> HIDE DEF m
<1>5. /\ \A v \in Workers \ {w} :
           /\ Busy(v)' <=> Busy(v)
           /\ workerMsg'[v] = workerMsg[v]
           /\ workerPc'[v] = workerPc[v] /\ workerApp'[v] = workerApp[v]
      /\ ~Busy(w)' /\ workerMsg'[w] = None /\ workerPc'[w] = "idle"
  BY <1>1 DEF Busy, Typed, WorkerTypes
<1>6. msg' \in [Messages -> Message \cup {None}] /\ \A x \in Messages : x # m => msg'[x] = msg[x]
  BY <1>1 DEF Typed, MessageTypes
<1>7. ServerTypes' /\ ClientTypes' /\ TableTypes'
  BY <1>1, TypesKept DEF Typed
<1>8. MessageTypes'
  <2>1. MessagesOnce'
    <3>1. ASSUME NEW x \in Messages, NEW p \in Processes, NEW i \in DOMAIN inbox[p], Carries(p, i, x)
          PROVE  /\ msg'[x] # None /\ x \notin submitted'
                 /\ \A q \in Processes : \A j \in DOMAIN inbox[q] : Carries(q, j, x) => q = p /\ j = i
      BY <1>1, <1>2, <1>6, <3>1 DEF Typed, MessageTypes, MessagesOnce
    <3>2. QED BY <1>1, <3>1 DEF MessagesOnce, Carries, clientVars
  <2>2. /\ delivered' \in [Messages -> SUBSET Processes] /\ owed' \in [Messages -> SUBSET Processes]
    BY <1>1, NoneYet DEF Typed, MessageTypes
  <2>3. QED BY <1>1, <1>2, <1>6, <2>1, <2>2 DEF Typed, MessageTypes
<1>9. JobsOnce'
  <2>1. /\ \A i \in DOMAIN queue' : queue'[i] \in submitted' /\ msg'[queue'[i]] # None
        /\ \A i, j \in DOMAIN queue' : queue'[i] = queue'[j] => i = j
    BY <1>2, <1>3, <1>6 DEF Typed, WorkerTypes, JobsOnce
  <2>2. ASSUME NEW v \in Workers, Busy(v)'
        PROVE  /\ workerMsg'[v] \in submitted' /\ msg'[workerMsg'[v]] # None
               /\ \A i \in DOMAIN queue' : queue'[i] # workerMsg'[v]
               /\ \A u \in Workers : Busy(u)' /\ workerMsg'[u] = workerMsg'[v] => u = v
    <3>1. ASSUME NEW u \in Workers, Busy(u)'
          PROVE  u # w /\ Busy(u) /\ workerMsg'[u] = workerMsg[u]
      BY <1>5, <3>1
    <3>2. workerMsg[v] # m /\ workerMsg[v] \in Messages /\ v # w /\ Busy(v)
      BY <1>4, <2>2, <3>1
    <3>3. /\ workerMsg[v] \in submitted /\ msg[workerMsg[v]] # None
          /\ \A i \in DOMAIN queue : queue[i] # workerMsg[v]
          /\ \A u \in Workers : Busy(u) /\ workerMsg[u] = workerMsg[v] => u = v
      BY <3>2 DEF Typed, WorkerTypes, JobsOnce
    <3>4. QED BY <1>2, <1>6, <2>2, <3>1, <3>2, <3>3
  <2>3. QED BY <2>1, <2>2 DEF JobsOnce
<1>10. WorkersPlaced'
  <2>1. ASSUME NEW v \in Workers \ {w}
        PROVE  /\ Busy(v)' <=> workerMsg'[v] # None
               /\ workerPc'[v] \in {"check", "load"} => workerApp'[v] \in Ids
               /\ workerPc'[v] = "send" /\ ~msg'[workerMsg'[v]].answer => workerApp'[v] \in Ids
    <3>1. workerPc[v] = "send" => Busy(v)
      BY DEF Busy
    <3>2. workerPc[v] = "send" => msg'[workerMsg[v]] = msg[workerMsg[v]]
      BY <1>4, <1>6, <3>1
    <3>3. /\ workerPc'[v] = workerPc[v] /\ workerMsg'[v] = workerMsg[v]
          /\ workerApp'[v] = workerApp[v]
          /\ Busy(v)' <=> Busy(v)
      BY <1>5
    <3>4. /\ Busy(v) <=> workerMsg[v] # None
          /\ workerPc[v] \in {"check", "load"} => workerApp[v] \in Ids
          /\ workerPc[v] = "send" /\ ~msg[workerMsg[v]].answer => workerApp[v] \in Ids
      BY DEF Typed, WorkerTypes, WorkersPlaced
    <3>5. QED BY <3>2, <3>3, <3>4
  <2>2. QED BY <1>5, <2>1 DEF WorkersPlaced
<1>11. WorkerTypes'
  BY <1>1, <1>9, <1>10 DEF Typed, WorkerTypes
<1>12. QED BY <1>7, <1>8, <1>11 DEF Typed
\* The table and the descriptors.
LEMMA SubscribedTypes ==
  ASSUME Typed, NEW f \in Fds, HandleSubscribe(f) \/ HandleUnsubscribe(f)
  PROVE  Typed'
<1>1. PICK kind \in {"subscribe", "unsubscribe"}, t \in Types, a \in Ids :
        /\ Recv(f, [kind |-> kind, of |-> t, appId |-> a])
        /\ \E types \in SUBSET Types : UpdateClientSubscribeInfo(f, a, types)
        /\ \E types \in SUBSET Types : wanted' = [wanted EXCEPT ![fdConn[f]] = types]
        /\ asked' = asked \/ \E types \in SUBSET Types : asked' = [asked EXCEPT ![fdConn[f]] = types]
        /\ owed' \in [Messages -> SUBSET Processes]
        /\ UNCHANGED <<faults, poolVars, msg, delivered>>
  <2>1. /\ \A a \in Ids, t \in Types :
              /\ msgFlag[a] \cup {t} \in SUBSET Types /\ msgFlag[a] \ {t} \in SUBSET Types
        /\ \A p \in Processes, t \in Types :
              /\ wanted[p] \cup {t} \in SUBSET Types /\ wanted[p] \ {t} \in SUBSET Types
              /\ asked[p] \cup {t} \in SUBSET Types
    BY DEF Typed, TableTypes
  <2>2. ASSUME NEW pkt, Recv(f, pkt) PROVE fdConn[f] \in Processes
    BY <2>2, RecvKeeps
  <2>3. CASE HandleSubscribe(f)
    <3>1. PICK t \in Types, a \in Ids :
            /\ Recv(f, [kind |-> "subscribe", of |-> t, appId |-> a])
            /\ UpdateClientSubscribeInfo(f, a, msgFlag[a] \cup {t})
            /\ wanted' = [wanted EXCEPT ![fdConn[f]] = @ \cup {t}]
            /\ asked' = [asked EXCEPT ![fdConn[f]] = @ \cup {t}]
            /\ UNCHANGED <<faults, poolVars, msg, deliveryVars>>
      BY <2>3 DEF HandleSubscribe
    <3>2. fdConn[f] \in Processes
      BY <2>2, <3>1
    <3>3. owed' \in [Messages -> SUBSET Processes]
      BY <3>1 DEF deliveryVars, Typed, MessageTypes
    <3>4. QED BY <2>1, <3>1, <3>2, <3>3 DEF deliveryVars
  <2>4. CASE HandleUnsubscribe(f)
    <3>1. PICK t \in Types, a \in Ids :
            /\ Recv(f, [kind |-> "unsubscribe", of |-> t, appId |-> a])
            /\ UpdateClientSubscribeInfo(f, a, msgFlag[a] \ {t})
            /\ wanted' = [wanted EXCEPT ![fdConn[f]] = @ \ {t}]
            /\ owed' = [m \in Messages |-> IF HasType(m, t) THEN owed[m] \ {fdConn[f]} ELSE owed[m]]
            /\ UNCHANGED <<faults, asked, poolVars, msg, delivered>>
      BY <2>4 DEF HandleUnsubscribe
    <3>2. fdConn[f] \in Processes
      BY <2>2, <3>1
    <3>3. owed' \in [Messages -> SUBSET Processes]
      BY <3>1 DEF Typed, MessageTypes
    <3>4. QED BY <2>1, <3>1, <3>2, <3>3
  <2>5. QED BY <2>3, <2>4
<1>2. fdConn[f] \in Processes
  BY <1>1, RecvKeeps
<1>3. TableTypes'
  BY <1>1, <1>2 DEF UpdateClientSubscribeInfo, Typed, TableTypes
<1>4. faults' \in 0 .. MaxFaults
  BY <1>1 DEF Typed, ServerTypes
<1>5. QED BY <1>1, <1>3, <1>4, OtherReceived

LEMMA DescriptorTypes ==
  ASSUME Typed, NEW f \in Fds, Accept \/ CloseFd \/ HandleDisconnect(f)
  PROVE  Typed'
<1>1. CASE Accept
  <2> DEFINE free == Min(FreeFds)  p == Head(backlog)
  <2>1. free \in Fds /\ fdConn[free] = None
    <3>1. FreeFds \in SUBSET Nat /\ FreeFds # {}
      BY <1>1 DEF Accept, FreeFds, Fds
    <3>2. QED BY <3>1, MinOf DEF FreeFds
  <2>2. p \in Processes /\ Tail(backlog) \in Seq(Processes) /\ p # None
    BY <1>1, HeadTailProperties, ConstantsAssumption DEF Accept, Typed, ClientTypes
  <2>3. /\ closing = None /\ fdConn' = [fdConn EXCEPT ![free] = p] /\ backlog' = Tail(backlog)
        /\ \/ watched' = watched \cup {free} /\ UNCHANGED faults
           \/ Fails /\ UNCHANGED watched
        /\ UNCHANGED <<server, procState, inbox, outbox, tableVars, closing, poolVars, msg,
                       workerVars, deliveryVars>>
    BY <1>1 DEF Accept
  <2> HIDE DEF free, p
  <2>4. ServerTypes'
    <3>1. faults' \in 0 .. MaxFaults
      BY <2>3, ConstantsAssumption DEF Fails, Typed, ServerTypes
    <3>2. WatchedOpen'
      BY <2>1, <2>2, <2>3, ConstantsAssumption DEF Typed, ServerTypes, WatchedOpen
    <3>3. QED BY <2>1, <2>2, <2>3, <3>1, <3>2 DEF Typed, ServerTypes
  <2>5. ClientTypes'
    BY <2>2, <2>3 DEF Typed, ClientTypes, InboxTypes, OutboxTypes
  <2>6. TableTypes' /\ MessageTypes' /\ WorkerTypes'
    BY <2>3, TypesKept DEF Typed, poolVars
  <2>7. QED BY <2>4, <2>5, <2>6 DEF Typed
<1>2. CASE CloseFd
  <2>1. ServerTypes'
    BY <1>2, ConstantsAssumption DEF CloseFd, serverVars, Typed, ServerTypes, WatchedOpen
  <2>2. ClientTypes' /\ TableTypes' /\ MessageTypes' /\ WorkerTypes'
    BY <1>2, TypesKept DEF CloseFd, Typed, poolVars, clientVars
  <2>3. QED BY <2>1, <2>2 DEF Typed
<1>3. CASE HandleDisconnect(f)
  <2>1. /\ watched' = watched \ {f} /\ closing' = f
        /\ UNCHANGED <<server, faults, clientVars, fdConn, wanted, asked, poolVars, msg,
                       workerVars, deliveryVars>>
    BY <1>3 DEF HandleDisconnect, RecvEnd
  <2>2. \/ UNCHANGED <<clientFd, msgFlag>>
        \/ \E a \in Ids : /\ clientFd' = [clientFd EXCEPT ![a] = None]
                          /\ msgFlag' = [msgFlag EXCEPT ![a] = {}]
    <3> DEFINE entries == {a \in Ids : clientFd[a] = f}
    <3>1. entries # {} => Min(entries) \in Ids
      <4>1. entries \in SUBSET Nat
        BY ConstantsAssumption DEF Ids
      <4> HIDE DEF entries
      <4>2. entries # {} => Min(entries) \in entries
        BY <4>1, MinOf
      <4>3. QED BY <4>2 DEF entries
    <3>2. QED BY <1>3, <3>1 DEF HandleDisconnect
  <2>3. ServerTypes'
    BY <2>1 DEF Typed, ServerTypes, WatchedOpen
  <2>4. TableTypes'
    BY <2>1, <2>2, NoneYet DEF Typed, TableTypes
  <2>5. ClientTypes' /\ MessageTypes' /\ WorkerTypes'
    BY <2>1, TypesKept DEF Typed, poolVars, clientVars
  <2>6. QED BY <2>3, <2>4, <2>5 DEF Typed
<1>4. QED BY <1>1, <1>2, <1>3

\* The workers, between taking a message and freeing it.
LEMMA ForwardTypes ==
  ASSUME Typed, NEW w \in Workers, JobCheck(w) \/ JobLoad(w) \/ JobSend(w) \/ JobSendFails(w)
  PROVE  Typed'
<1>1. /\ UNCHANGED <<serverVars, procState, inbox, backlog, fdConn, tableVars, closing, poolVars,
                     msg, workerMsg, owed>>
      /\ workerPc[w] \in {"check", "load", "send"}
  BY DEF JobCheck, JobLoad, JobSend, JobSendFails, clientVars, deliveryVars
<1>2. workerMsg[w] \in Messages
  BY <1>1 DEF Typed, WorkerTypes, WorkersPlaced, Busy
<1>3. ServerTypes' /\ TableTypes'
  BY <1>1, TypesKept DEF Typed
<1>4. OutboxTypes' /\ delivered' \in [Messages -> SUBSET Processes]
  <2>1. CASE JobSend(w)
    <3> DEFINE p == Target(w)
    <3>1. /\ p \in Processes /\ Len(outbox[p]) < OutboxMax
          /\ outbox' = [outbox EXCEPT ![p] = Append(@, workerMsg[w])]
          /\ delivered' = [delivered EXCEPT ![workerMsg[w]] = @ \cup {p}]
      BY <2>1 DEF JobSend, Open
    <3> HIDE DEF p
    <3>2. delivered' \in [Messages -> SUBSET Processes]
      BY <1>2, <3>1 DEF Typed, MessageTypes
    <3>3. PICK s \in Seq(Messages) : s = outbox[p]
      BY <3>1 DEF Typed, ClientTypes, OutboxTypes
    <3>4. Append(s, workerMsg[w]) \in Seq(Messages) /\ Len(Append(s, workerMsg[w])) = Len(s) + 1
          /\ Len(s) \in Nat
      BY <1>2, AppendProperties, LenProperties
    <3>5. PICK q \in Seq(Messages) : outbox' = [outbox EXCEPT ![p] = q] /\ Len(q) = Len(s) + 1
      BY <3>1, <3>3, <3>4
    <3>6. Len(q) <= OutboxMax
      BY <3>1, <3>3, <3>4, <3>5, ConstantsAssumption
    <3>7. OutboxTypes'
      BY <3>1, <3>5, <3>6 DEF Typed, ClientTypes, OutboxTypes
    <3>8. QED BY <3>2, <3>7
  <2>2. CASE ~JobSend(w)
    <3>1. UNCHANGED <<outbox, delivered>>
      BY <2>2 DEF JobCheck, JobLoad, JobSendFails, clientVars, deliveryVars
    <3>2. QED BY <3>1 DEF Typed, ClientTypes, OutboxTypes, MessageTypes
  <2>3. QED BY <2>1, <2>2
<1>5. ClientTypes'
  BY <1>1, <1>4 DEF Typed, ClientTypes, InboxTypes
<1>6. MessageTypes'
  BY <1>1, <1>4 DEF Typed, MessageTypes, MessagesOnce, Carries, poolVars
<1>7. WorkerTypes'
  <2>1. CASE Advance(w) /\ ~JobLoad(w)
    <3>1. workerPc[w] \in {"check", "send"}
      BY <2>1 DEF JobCheck, JobSend, JobSendFails
    <3>2. QED BY <1>1, <2>1, <3>1, Advances DEF poolVars
  <2>2. CASE JobLoad(w)
    <3>1. PICK fd \in Fds \cup {None}, conn \in Processes \cup {None} :
            /\ workerPc[w] = "load" /\ workerPc' = [workerPc EXCEPT ![w] = "send"]
            /\ workerFd' = [workerFd EXCEPT ![w] = fd]
            /\ workerConn' = [workerConn EXCEPT ![w] = conn]
            /\ UNCHANGED workerApp
      <4>1. workerApp[w] \in Ids
        BY <2>2 DEF JobLoad, Typed, WorkerTypes, WorkersPlaced
      <4>2. clientFd[workerApp[w]] \in Fds \cup {None}
        BY <4>1 DEF Typed, TableTypes
      <4>3. clientFd[workerApp[w]] # None => fdConn[clientFd[workerApp[w]]] \in Processes \cup {None}
        BY <4>2 DEF Typed, ServerTypes
      <4>4. QED BY <2>2, <4>2, <4>3 DEF JobLoad
    <3>2. \A v \in Workers : Busy(v)' = Busy(v)
      BY <3>1 DEF Busy, Typed, WorkerTypes
    <3>3. QED
      BY <1>1, <3>1, <3>2 DEF Typed, WorkerTypes, WorkersPlaced, JobsOnce, poolVars
  <2>3. CASE ~Advance(w) /\ ~JobLoad(w)
    <3>1. /\ workerPc[w] = "check" /\ workerPc' = [workerPc EXCEPT ![w] = "load"]
          /\ UNCHANGED <<workerApp, workerFd, workerConn>>
      BY <2>3 DEF JobCheck, JobSend, JobSendFails
    <3>2. \A v \in Workers : Busy(v)' = Busy(v)
      BY <3>1 DEF Busy, Typed, WorkerTypes
    <3>3. QED
      BY <1>1, <3>1, <3>2 DEF Typed, WorkerTypes, WorkersPlaced, JobsOnce, poolVars
  <2>4. QED BY <2>1, <2>2, <2>3
<1>8. QED BY <1>3, <1>5, <1>6, <1>7 DEF Typed

LEMMA TypedStep == Typed /\ [Next]_vars => Typed'
<1> SUFFICES ASSUME Typed, Next \/ UNCHANGED vars PROVE Typed'
  OBVIOUS
<1>1. CASE Start \/ StartFails \/ EpollFails
  <2>1. server' \in Starting \cup {"up", "deaf", "gone"} /\ faults' \in 0 .. MaxFaults
    BY <1>1, ConstantsAssumption
    DEF Start, StartFails, EpollFails, Fails, Typed, ServerTypes, Starting, NextStage
  <2>2. UNCHANGED <<watched, clientVars, fdConn, tableVars, closing, poolVars, msg, workerVars,
                    deliveryVars>>
    BY <1>1 DEF Start, StartFails, EpollFails
  <2>3. ServerTypes'
    BY <2>1, <2>2 DEF Typed, ServerTypes, WatchedOpen
  <2>4. ClientTypes' /\ TableTypes' /\ MessageTypes' /\ WorkerTypes'
    BY <2>2, TypesKept DEF Typed, poolVars, clientVars
  <2>5. QED BY <2>3, <2>4 DEF Typed
<1>2. CASE UNCHANGED vars
  BY <1>2, TypesKept DEF Typed, vars, poolVars, clientVars
<1>3. ASSUME NEW p \in Processes, Connect(p) \/ Disconnect(p) \/ Receive(p) PROVE Typed'
  <2>1. UNCHANGED <<serverVars, inbox, fdConn, tableVars, closing, poolVars, msg, workerVars,
                    delivered>>
    BY <1>3 DEF Connect, Disconnect, Receive, deliveryVars
  <2>2. ServerTypes' /\ TableTypes' /\ WorkerTypes'
    BY <2>1, TypesKept DEF Typed, poolVars
  <2>3. MessageTypes'
    <3>1. owed' \in [Messages -> SUBSET Processes]
      BY <1>3 DEF Connect, Disconnect, Receive, deliveryVars, Typed, MessageTypes
    <3>2. QED BY <2>1, <3>1 DEF Typed, MessageTypes, MessagesOnce, Carries, poolVars
  <2>4. procState' \in [Processes -> {"start", "open", "closed"}]
    BY <1>3 DEF Connect, Disconnect, Receive, Typed, ClientTypes
  <2>5. backlog' \in Seq(Processes)
    BY <1>3, AppendProperties DEF Connect, Disconnect, Receive, Typed, ClientTypes
  <2>6. OutboxTypes'
    <3>1. PICK s \in Seq(Messages) : s = outbox[p] /\ Len(s) <= OutboxMax
      BY DEF Typed, ClientTypes, OutboxTypes
    <3>2. s # <<>> => /\ Tail(s) \in Seq(Messages) /\ Len(Tail(s)) = Len(s) - 1
                     /\ Len(s) \in Nat
      BY HeadTailProperties, LenProperties
    <3>3. outbox' = outbox \/ \E q \in Seq(Messages) : /\ Len(q) <= OutboxMax
                                                       /\ outbox' = [outbox EXCEPT ![p] = q]
      <4>1. CASE Connect(p)
        BY <4>1 DEF Connect
      <4>2. CASE Disconnect(p)
        <5>1. <<>> \in Seq(Messages) /\ Len(<<>>) <= OutboxMax
          BY ConstantsAssumption
        <5>2. QED BY <4>2, <5>1 DEF Disconnect
      <4>3. CASE Receive(p)
        <5>1. Len(Tail(s)) <= OutboxMax /\ Tail(s) \in Seq(Messages)
          BY <3>1, <3>2, <4>3, ConstantsAssumption DEF Receive
        <5>2. QED BY <3>1, <4>3, <5>1 DEF Receive
      <4>4. QED BY <1>3, <4>1, <4>2, <4>3
    <3>4. QED BY <3>3 DEF Typed, ClientTypes, OutboxTypes
  <2>7. ClientTypes'
    BY <2>1, <2>4, <2>5, <2>6 DEF Typed, ClientTypes, InboxTypes
  <2>8. QED BY <2>2, <2>3, <2>7 DEF Typed
<1>4. ASSUME NEW p \in Processes, NEW t \in Types, NEW kind \in {"subscribe", "unsubscribe"},
             Request(p, kind, t)
      PROVE  Typed'
  <2>1. PICK a \in Ids : Transmit(p, [kind |-> kind, of |-> t, appId |-> a]) /\ UNCHANGED msg
    BY <1>4, ConstantsAssumption DEF Request, Apps, AllApps, Ids
  <2>2. QED BY <2>1, OtherSent, Kinds, PacketForms
<1>5. ASSUME NEW p \in Processes, SendInvalid(p) PROVE Typed'
  BY <1>5, OtherSent, Kinds, PacketForms DEF SendInvalid
<1>6. ASSUME NEW f \in Fds, HandleData(f) PROVE Typed'
  <2>1. PICK m \in Messages :
          /\ Recv(f, [kind |-> "message", of |-> m])
          /\ msg' = [msg EXCEPT ![m].src = f] /\ Pool!Submit(m)
          /\ owed' = [owed EXCEPT ![m] = Subscribers(m)]
          /\ UNCHANGED <<faults, tableVars, delivered>>
    BY <1>6 DEF HandleData
  <2>2. QED BY <2>1, DataTypes
<1>7. ASSUME NEW f \in Fds, HandleDataFails(f) PROVE Typed'
  BY <1>7, DroppedTypes DEF HandleDataFails
<1>8. ASSUME NEW f \in Fds, HandleInvalid(f) PROVE Typed'
  <2>1. /\ Recv(f, [kind |-> "invalid"])
        /\ UNCHANGED <<faults, tableVars, poolVars, msg, deliveryVars>>
    BY <1>8 DEF HandleInvalid
  <2>2. /\ faults' \in 0 .. MaxFaults /\ TableTypes' /\ owed' \in [Messages -> SUBSET Processes]
        /\ delivered' = delivered
    BY <2>1, TypesKept DEF Typed, ServerTypes, MessageTypes, deliveryVars
  <2>3. QED BY <2>1, <2>2, OtherReceived
<1>9. CASE Accept \/ CloseFd
  <2>1. \E f \in Fds : TRUE
    BY <1>9 DEF Accept, CloseFd, FreeFds, Typed, ServerTypes
  <2>2. QED BY <1>9, <2>1, DescriptorTypes
<1>10. QED
  BY <1>1, <1>2, <1>3, <1>4, <1>5, <1>6, <1>7, <1>8, <1>9, NextCases, SentTypes, SubscribedTypes,
     DescriptorTypes, ForwardTypes, StartTypes, FreeTypes
  DEF Rest

\* Every variable of the server and of its surroundings keeps its type.
THEOREM TypeCorrect == Spec => []TypeOK
BY TypedInit, TypedStep, TypedImpliesTypeOK, PTL DEF Spec
-------------------------------------------------------------------------------
(***************************************************************************)
(* What the table says of the clients.                                     *)
(***************************************************************************)
connVars == <<procState, backlog, fdConn, watched, closing, clientFd, msgFlag, wanted, asked>>

LEMMA TableCases ==
  ASSUME Next \/ UNCHANGED vars
  PROVE  \/ UNCHANGED connVars
         \/ \E p \in Processes : Connect(p) \/ Disconnect(p)
         \/ Accept \/ CloseFd
         \/ \E f \in Fds : HandleSubscribe(f) \/ HandleUnsubscribe(f) \/ HandleDisconnect(f)
<1> USE DEF connVars, serverVars, clientVars, tableVars
<1>1. Start \/ StartFails \/ EpollFails \/ Rest \/ UNCHANGED vars => UNCHANGED connVars
  BY DEF Start, StartFails, EpollFails, Rest, vars
<1>2. ASSUME NEW p \in Processes PROVE SendInvalid(p) \/ Receive(p) => UNCHANGED connVars
  BY DEF SendInvalid, Transmit, Receive
<1>3. ASSUME NEW p \in Processes, NEW t \in Types, NEW kind \in {"subscribe", "unsubscribe"}
      PROVE  Request(p, kind, t) => UNCHANGED connVars
  BY DEF Request, Transmit
<1>4. ASSUME NEW p \in Processes, NEW m \in Messages, NEW answer \in BOOLEAN,
             NEW a \in {AllApps} \cup Apps, NEW t \in Types
      PROVE  SendMsg(p, m, answer, a, t) => UNCHANGED connVars
  BY DEF SendMsg, Transmit
<1>5. ASSUME NEW f \in Fds
      PROVE  HandleData(f) \/ HandleDataFails(f) \/ HandleInvalid(f) => UNCHANGED connVars
  BY DEF HandleData, HandleDataFails, HandleInvalid, Recv
<1>6. ASSUME NEW w \in Workers
      PROVE  JobStart(w) \/ JobCheck(w) \/ JobLoad(w) \/ JobSend(w) \/ JobSendFails(w) \/ JobFree(w)
               => UNCHANGED connVars
  BY DEF JobStart, JobCheck, JobLoad, JobSend, JobSendFails, JobFree
<1>7. QED BY <1>1, <1>2, <1>3, <1>4, <1>5, <1>6, NextCases

\* The packets of the clients stay signed.
LEMMA SameRequest ==
  \A k, l \in {"subscribe", "unsubscribe"}, t, u \in Types, a, b \in Ids :
    [kind |-> k, of |-> t, appId |-> a] = [kind |-> l, of |-> u, appId |-> b] => a = b
<1>1. ASSUME NEW k \in {"subscribe", "unsubscribe"}, NEW t \in Types, NEW a \in Ids
      PROVE  [kind |-> k, of |-> t, appId |-> a].appId = a
  OBVIOUS
<1>2. QED BY <1>1

SignedPacket(p, packet) ==
  \A kind \in {"subscribe", "unsubscribe"}, t \in Types, a \in Ids :
    packet = [kind |-> kind, of |-> t, appId |-> a] => a = AppOf[p]

LEMMA ReceivedSigned ==
  ASSUME InboxTypes, RequestsSigned, Identified, NEW p \in Processes, NEW pkt,
         NEW q \in Seq(Packet), Received(p, pkt, q)
  PROVE  RequestsSigned' /\ SignedPacket(p, pkt)
<1>1. SignedPacket(p, pkt)
  BY DEF RequestsSigned, Received, Signed, SignedPacket
<1>2. ASSUME NEW x \in Processes, NEW i \in DOMAIN inbox'[x] PROVE Signed(x, i)'
  <2>1. \E j \in DOMAIN inbox[x] : inbox'[x][i] = inbox[x][j]
    <3>1. CASE x = p
      <4>1. inbox'[x] = q
        BY <3>1 DEF InboxTypes, Received
      <4>2. i + 1 \in DOMAIN inbox[x] /\ inbox'[x][i] = inbox[x][i + 1]
        BY <3>1, <4>1 DEF Received
      <4>3. QED BY <4>2
    <3>2. CASE x # p
      BY <3>2 DEF InboxTypes, Received
    <3>3. QED BY <3>1, <3>2
  <2>2. PICK j \in DOMAIN inbox[x] : inbox'[x][i] = inbox[x][j]
    BY <2>1
  <2>3. Signed(x, j)
    BY DEF RequestsSigned
  <2>4. QED BY <2>2, <2>3 DEF Signed
<1>3. QED BY <1>1, <1>2 DEF RequestsSigned

LEMMA AddedSigned ==
  ASSUME InboxTypes, RequestsSigned, Identified, NEW p \in Processes, NEW packet \in Packet,
         NEW q \in Seq(Packet), Added(p, packet, q), SignedPacket(p, packet)
  PROVE  RequestsSigned'
<1>1. ASSUME NEW x \in Processes, NEW i \in DOMAIN inbox'[x] PROVE Signed(x, i)'
  <2>1. PICK n \in Nat : /\ DOMAIN inbox[p] = 1 .. n /\ DOMAIN q = 1 .. n + 1
                         /\ q[n + 1] = packet /\ \A k \in 1 .. n : q[k] = inbox[p][k]
    BY DEF Added
  <2>2. \/ \E j \in DOMAIN inbox[x] : inbox'[x][i] = inbox[x][j]
        \/ x = p /\ inbox'[x][i] = packet
    BY <2>1 DEF InboxTypes, Added
  <2>3. QED BY <2>2 DEF RequestsSigned, Signed, SignedPacket
<1>2. QED BY <1>1 DEF RequestsSigned

LEMMA RequestsSignedStep ==
  ASSUME Typed, RequestsSigned, Next \/ UNCHANGED vars
  PROVE  RequestsSigned'
<1> SUFFICES ASSUME Identified PROVE RequestsSigned'
  BY DEF RequestsSigned, Identified
<1>1. UNCHANGED inbox => RequestsSigned'
  BY DEF RequestsSigned, Signed
<1>2. ASSUME NEW f \in Fds, NEW pkt, Recv(f, pkt) PROVE RequestsSigned'
  <2>1. PICK q \in Seq(Packet) : Received(fdConn[f], pkt, q)
    BY <1>2, RecvKeeps
  <2>2. fdConn[f] \in Processes
    BY <1>2, RecvKeeps
  <2>3. QED BY <2>1, <2>2, ReceivedSigned DEF Typed, ClientTypes
<1>3. ASSUME NEW p \in Processes, NEW packet \in Packet, Transmit(p, packet), SignedPacket(p, packet)
      PROVE  RequestsSigned'
  <2>1. PICK q \in Seq(Packet) : Added(p, packet, q)
    BY <1>3, TransmitMoves DEF Typed, ClientTypes
  <2>2. QED BY <1>3, <2>1, AddedSigned DEF Typed, ClientTypes
<1>4. Start \/ StartFails \/ EpollFails \/ Rest \/ UNCHANGED vars \/ Accept \/ CloseFd => UNCHANGED inbox
  BY DEF Start, StartFails, EpollFails, Rest, vars, Accept, CloseFd, clientVars
<1>5. ASSUME NEW p \in Processes
      PROVE  /\ Connect(p) \/ Disconnect(p) \/ Receive(p) => UNCHANGED inbox
             /\ SendInvalid(p) => RequestsSigned'
  <2>1. Connect(p) \/ Disconnect(p) \/ Receive(p) => UNCHANGED inbox
    BY DEF Connect, Disconnect, Receive
  <2>2. SignedPacket(p, [kind |-> "invalid"])
    BY Kinds, PacketForms DEF SignedPacket
  <2>3. QED BY <1>3, <2>1, <2>2, PacketForms DEF SendInvalid
<1>6. ASSUME NEW p \in Processes, NEW t \in Types, NEW kind \in {"subscribe", "unsubscribe"},
             Request(p, kind, t)
      PROVE  RequestsSigned'
  <2>1. Transmit(p, [kind |-> kind, of |-> t, appId |-> AppOf[p]])
    BY <1>6 DEF Request, Identified
  <2>2. AppOf[p] \in Ids
    BY ConstantsAssumption DEF Apps
  <2>3. SignedPacket(p, [kind |-> kind, of |-> t, appId |-> AppOf[p]])
    BY <2>2, SameRequest DEF SignedPacket
  <2>4. QED BY <1>3, <2>1, <2>2, <2>3, PacketForms
<1>7. ASSUME NEW p \in Processes, NEW m \in Messages, NEW answer \in BOOLEAN,
             NEW a \in {AllApps} \cup Apps, NEW t \in Types, SendMsg(p, m, answer, a, t)
      PROVE  RequestsSigned'
  <2>1. SignedPacket(p, [kind |-> "message", of |-> m])
    BY Kinds DEF SignedPacket
  <2>2. QED BY <1>3, <1>7, <2>1, PacketForms DEF SendMsg
<1>8. ASSUME NEW f \in Fds
      PROVE  /\ HandleSubscribe(f) \/ HandleUnsubscribe(f) \/ HandleData(f) \/ HandleDataFails(f)
                  \/ HandleInvalid(f) => RequestsSigned'
             /\ HandleDisconnect(f) => UNCHANGED inbox
  <2>1. HandleSubscribe(f) \/ HandleUnsubscribe(f) \/ HandleData(f) \/ HandleDataFails(f)
          \/ HandleInvalid(f) => \E pkt : Recv(f, pkt)
    BY DEF HandleSubscribe, HandleUnsubscribe, HandleData, HandleDataFails, HandleInvalid
  <2>2. HandleDisconnect(f) => UNCHANGED inbox
    BY DEF HandleDisconnect, clientVars
  <2>3. QED BY <1>2, <2>1, <2>2
<1>9. ASSUME NEW w \in Workers
      PROVE  JobStart(w) \/ JobCheck(w) \/ JobLoad(w) \/ JobSend(w) \/ JobSendFails(w) \/ JobFree(w)
               => UNCHANGED inbox
  BY DEF JobStart, JobCheck, JobLoad, JobSend, JobSendFails, JobFree, clientVars
<1>10. QED BY <1>1, <1>4, <1>5, <1>6, <1>7, <1>8, <1>9, NextCases
\* What the steps that touch the table and the descriptors do.
LEMMA Accepted ==
  ASSUME Typed, Accept
  PROVE  /\ UNCHANGED <<procState, closing, clientFd, msgFlag, wanted, asked>>
         /\ \E g \in Fds, p \in Processes :
              /\ fdConn[g] = None /\ fdConn' = [fdConn EXCEPT ![g] = p]
              /\ watched' \in {watched, watched \cup {g}}
              /\ 1 \in DOMAIN backlog /\ backlog[1] = p
              /\ \A i \in DOMAIN backlog' :
                   i \in Nat \ {0} /\ i + 1 \in DOMAIN backlog /\ backlog'[i] = backlog[i + 1]
<1> DEFINE g == Min(FreeFds)  p == Head(backlog)
<1>1. g \in Fds /\ fdConn[g] = None
  <2>1. FreeFds \in SUBSET Nat /\ FreeFds # {}
    BY DEF Accept, FreeFds, Fds
  <2>2. QED BY <2>1, MinOf DEF FreeFds
<1>2. /\ fdConn' = [fdConn EXCEPT ![g] = p] /\ backlog' = Tail(backlog) /\ backlog # <<>>
      /\ watched' \in {watched, watched \cup {g}}
      /\ UNCHANGED <<procState, closing, clientFd, msgFlag, wanted, asked>>
  BY DEF Accept, tableVars
<1>3. /\ p \in Processes /\ p = backlog[1] /\ Len(backlog) \in Nat \ {0}
      /\ DOMAIN backlog = 1 .. Len(backlog) /\ DOMAIN backlog' = 1 .. Len(backlog) - 1
      /\ \A i \in 1 .. Len(backlog) - 1 : backlog'[i] = backlog[i + 1]
  BY <1>2, HeadTailProperties, LenProperties, EmptySeq DEF Typed, ClientTypes
<1> HIDE DEF g, p
<1>4. 1 \in DOMAIN backlog /\ \A i \in DOMAIN backlog' : i \in Nat \ {0} /\ i + 1 \in DOMAIN backlog
  BY <1>3
<1>5. QED BY <1>1, <1>2, <1>3, <1>4

LEMMA Requested ==
  ASSUME Typed, RequestsSigned, NEW f \in Fds, HandleSubscribe(f) \/ HandleUnsubscribe(f)
  PROVE  /\ fdConn[f] \in Processes /\ f \in watched /\ closing = None
         /\ UNCHANGED <<procState, backlog, fdConn, watched, closing>>
         /\ \E a \in Ids, t \in Types :
              /\ Identified => a = AppOf[fdConn[f]]
              /\ clientFd' = [clientFd EXCEPT ![a] = IF @ = None THEN f ELSE @]
              /\ \/ /\ msgFlag' = [msgFlag EXCEPT ![a] = msgFlag[a] \cup {t}]
                    /\ wanted' = [wanted EXCEPT ![fdConn[f]] = @ \cup {t}]
                    /\ asked' = [asked EXCEPT ![fdConn[f]] = @ \cup {t}]
                    /\ owed' = owed
                 \/ /\ msgFlag' = [msgFlag EXCEPT ![a] = msgFlag[a] \ {t}]
                    /\ wanted' = [wanted EXCEPT ![fdConn[f]] = @ \ {t}]
                    /\ asked' = asked
                    /\ owed' = [m \in Messages |-> IF HasType(m, t) THEN owed[m] \ {fdConn[f]}
                                                   ELSE owed[m]]
<1>1. PICK kind \in {"subscribe", "unsubscribe"}, a \in Ids, t \in Types :
        /\ Recv(f, [kind |-> kind, of |-> t, appId |-> a])
        /\ clientFd' = [clientFd EXCEPT ![a] = IF @ = None THEN f ELSE @]
        /\ \/ /\ msgFlag' = [msgFlag EXCEPT ![a] = msgFlag[a] \cup {t}]
              /\ wanted' = [wanted EXCEPT ![fdConn[f]] = @ \cup {t}]
              /\ asked' = [asked EXCEPT ![fdConn[f]] = @ \cup {t}]
              /\ owed' = owed
           \/ /\ msgFlag' = [msgFlag EXCEPT ![a] = msgFlag[a] \ {t}]
              /\ wanted' = [wanted EXCEPT ![fdConn[f]] = @ \ {t}]
              /\ asked' = asked
              /\ owed' = [m \in Messages |-> IF HasType(m, t) THEN owed[m] \ {fdConn[f]} ELSE owed[m]]
  <2>1. CASE HandleSubscribe(f)
    BY <2>1 DEF HandleSubscribe, UpdateClientSubscribeInfo, deliveryVars
  <2>2. CASE HandleUnsubscribe(f)
    BY <2>2, ZenonT(40) DEF HandleUnsubscribe, UpdateClientSubscribeInfo
  <2>3. QED BY <2>1, <2>2
<1>2. /\ fdConn[f] \in Processes /\ f \in watched /\ closing = None
      /\ UNCHANGED <<procState, backlog, fdConn, watched, closing>>
  BY <1>1, RecvKeeps
<1>3. Identified => a = AppOf[fdConn[f]]
  <2> SUFFICES ASSUME Identified PROVE a = AppOf[fdConn[f]]
    BY DEF Identified
  <2>1. PICK q \in Seq(Packet) : Received(fdConn[f], [kind |-> kind, of |-> t, appId |-> a], q)
    BY <1>1, RecvKeeps
  <2>2. SignedPacket(fdConn[f], [kind |-> kind, of |-> t, appId |-> a])
    BY <1>2, <2>1, ReceivedSigned DEF Typed, ClientTypes
  <2>3. QED BY <2>2 DEF SignedPacket
<1>4. QED BY <1>1, <1>2, <1>3

LEMMA Erased ==
  ASSUME Typed, NEW f \in Fds, HandleDisconnect(f)
  PROVE  /\ f \in watched /\ fdConn[f] \in Processes /\ procState[fdConn[f]] = "closed"
         /\ watched' = watched \ {f} /\ closing' = f
         /\ UNCHANGED <<procState, backlog, fdConn, wanted, asked, msg, owed>>
         /\ \/ (\A a \in Ids : clientFd[a] # f) /\ UNCHANGED <<clientFd, msgFlag>>
            \/ \E a \in Ids : /\ clientFd[a] = f
                              /\ clientFd' = [clientFd EXCEPT ![a] = None]
                              /\ msgFlag' = [msgFlag EXCEPT ![a] = {}]
<1>1. /\ f \in watched /\ fdConn[f] \in Processes /\ procState[fdConn[f]] = "closed"
      /\ watched' = watched \ {f} /\ closing' = f
      /\ UNCHANGED <<procState, backlog, fdConn, wanted, asked, msg, owed>>
  BY DEF HandleDisconnect, RecvEnd, Typed, ServerTypes, WatchedOpen, clientVars, deliveryVars
<1> DEFINE entries == {a \in Ids : clientFd[a] = f}
<1>2. entries # {} => Min(entries) \in entries
  <2>1. entries \in SUBSET Nat
    BY ConstantsAssumption DEF Ids
  <2> HIDE DEF entries
  <2>2. QED BY <2>1, MinOf
<1>3. CASE entries = {}
  <2>1. UNCHANGED <<clientFd, msgFlag>>
    BY <1>3 DEF HandleDisconnect
  <2>2. QED BY <1>1, <1>3, <2>1
<1>4. CASE entries # {}
  <2>1. /\ clientFd' = [clientFd EXCEPT ![Min(entries)] = None]
        /\ msgFlag' = [msgFlag EXCEPT ![Min(entries)] = {}]
    BY <1>4 DEF HandleDisconnect
  <2>2. QED BY <1>1, <1>2, <1>4, <2>1
<1>5. QED BY <1>3, <1>4

\* One entry for a descriptor, and that its client's.
LEMMA TableSignedStep ==
  ASSUME Typed, RequestsSigned, TableSigned, Next \/ UNCHANGED vars
  PROVE  TableSigned'
<1> SUFFICES ASSUME Identified, NEW b \in Ids, clientFd'[b] # None
             PROVE  clientFd'[b] \in watched' /\ b = AppOf[fdConn'[clientFd'[b]]]
  BY DEF TableSigned, Identified
<1>1. clientFd[b] # None => /\ clientFd[b] \in watched /\ b = AppOf[fdConn[clientFd[b]]]
                            /\ clientFd[b] \in Fds /\ fdConn[clientFd[b]] # None
                            /\ clientFd[b] # closing
  BY DEF TableSigned, Typed, TableTypes, ServerTypes, WatchedOpen
<1>2. CASE UNCHANGED connVars \/ \E p \in Processes : Connect(p) \/ Disconnect(p)
  BY <1>1, <1>2 DEF connVars, Connect, Disconnect, serverVars, tableVars
<1>3. CASE Accept
  <2>1. PICK g \in Fds, p \in Processes : /\ fdConn[g] = None /\ fdConn' = [fdConn EXCEPT ![g] = p]
                                          /\ watched' \in {watched, watched \cup {g}}
    BY <1>3, Accepted
  <2>2. clientFd' = clientFd
    BY <1>3, Accepted
  <2>3. QED BY <1>1, <2>1, <2>2 DEF Typed, ServerTypes
<1>4. CASE CloseFd
  BY <1>1, <1>4 DEF CloseFd, serverVars, tableVars, Typed, ServerTypes
<1>5. ASSUME NEW f \in Fds, HandleSubscribe(f) \/ HandleUnsubscribe(f)
      PROVE  clientFd'[b] \in watched' /\ b = AppOf[fdConn'[clientFd'[b]]]
  <2>1. PICK a \in Ids : /\ Identified => a = AppOf[fdConn[f]]
                         /\ clientFd' = [clientFd EXCEPT ![a] = IF @ = None THEN f ELSE @]
    BY <1>5, Requested
  <2>2. f \in watched /\ UNCHANGED <<fdConn, watched>>
    BY <1>5, Requested
  <2>3. QED BY <1>1, <2>1, <2>2 DEF Typed, TableTypes
<1>6. ASSUME NEW f \in Fds, HandleDisconnect(f)
      PROVE  clientFd'[b] \in watched' /\ b = AppOf[fdConn'[clientFd'[b]]]
  <2>1. /\ watched' = watched \ {f} /\ UNCHANGED fdConn
        /\ \/ (\A a \in Ids : clientFd[a] # f) /\ UNCHANGED <<clientFd, msgFlag>>
           \/ \E a \in Ids : clientFd[a] = f /\ clientFd' = [clientFd EXCEPT ![a] = None]
    BY <1>6, Erased
  <2>2. \A a \in Ids : clientFd[a] = f => a = AppOf[fdConn[f]]
    BY ConstantsAssumption DEF TableSigned
  <2>3. QED BY <1>1, <2>1, <2>2 DEF Typed, TableTypes
<1>7. QED BY <1>2, <1>3, <1>4, <1>5, <1>6, TableCases

LEMMA TableInit == Init => RequestsSigned /\ TableSigned
BY DEF Init, RequestsSigned, TableSigned

LEMMA TableSignedImplies == Typed /\ TableSigned => (Identified => TableNamesLiveClients)
BY DEF TableNamesLiveClients, TableSigned, Typed, TableTypes, ServerTypes, WatchedOpen

\* If no client subscribes while MsgRouteClientInit runs: a descriptor in the
\* table is open, is not about to be closed, and leads to a client with that
\* appId.
THEOREM TableHasNoStaleEntry == Spec => [](Identified => TableNamesLiveClients)
<1> DEFINE Inv == Typed /\ RequestsSigned /\ TableSigned
<1>1. Init => Inv
  BY TypedInit, TableInit
<1>2. Inv /\ [Next]_vars => Inv'
  BY TypedStep, RequestsSignedStep, TableSignedStep
<1>3. Inv => (Identified => TableNamesLiveClients)
  BY TableSignedImplies
<1>4. QED BY <1>1, <1>2, <1>3, PTL DEF Spec
\* A client has one descriptor.
LEMMA AcceptedOnceInit == Init => AcceptedOnce
<1> SUFFICES ASSUME Init PROVE AcceptedOnce
  OBVIOUS
<1>1. \A p \in Processes : p # None
  BY ConstantsAssumption
<1>2. /\ \A p \in Processes : wanted[p] = {}
      /\ \A f \in Fds : fdConn[f] = None
      /\ DOMAIN backlog = {}
  BY DEF Init
<1>3. QED BY <1>1, <1>2 DEF AcceptedOnce

LEMMA AcceptedOnceStep ==
  ASSUME Typed, RequestsSigned, AcceptedOnce, Next \/ UNCHANGED vars
  PROVE  AcceptedOnce'
<1>1. CASE UNCHANGED connVars
  BY <1>1 DEF connVars, AcceptedOnce
<1>2. ASSUME NEW p \in Processes, Connect(p) PROVE AcceptedOnce'
  <2>1. /\ procState[p] = "start" /\ procState' = [procState EXCEPT ![p] = "open"]
        /\ backlog' = Append(backlog, p) /\ UNCHANGED <<fdConn, wanted>>
    BY <1>2 DEF Connect, tableVars
  <2>2. PICK n \in Nat : /\ DOMAIN backlog = 1 .. n /\ DOMAIN backlog' = 1 .. n + 1
                         /\ backlog'[n + 1] = p /\ \A i \in 1 .. n : backlog'[i] = backlog[i]
    <3>1. /\ backlog' \in Seq(Processes) /\ Len(backlog') = Len(backlog) + 1
          /\ backlog'[Len(backlog) + 1] = p
          /\ \A i \in 1 .. Len(backlog) : backlog'[i] = backlog[i]
      BY <2>1, AppendProperties DEF Typed, ClientTypes
    <3>2. /\ Len(backlog) \in Nat /\ DOMAIN backlog = 1 .. Len(backlog)
          /\ DOMAIN backlog' = 1 .. Len(backlog')
      BY <3>1, LenProperties DEF Typed, ClientTypes
    <3>3. QED BY <3>1, <3>2
  <2>3. /\ wanted[p] = {} /\ \A f \in Fds : fdConn[f] # p
        /\ \A i \in 1 .. n : backlog[i] # p /\ i \in DOMAIN backlog
    BY <2>1, <2>2 DEF AcceptedOnce
  <2>4. \A i \in DOMAIN backlog' : i = n + 1 \/ (i \in 1 .. n /\ i # n + 1)
    BY <2>2
  <2>5. \A q \in Processes : procState'[q] = "start" => procState[q] = "start" /\ q # p
    BY <2>1 DEF Typed, ClientTypes
  <2>6. /\ \A q \in Processes : procState'[q] = "start" =>
             /\ wanted'[q] = {} /\ \A f \in Fds : fdConn'[f] # q
             /\ \A i \in DOMAIN backlog' : backlog'[i] # q
        /\ \A i \in DOMAIN backlog' : /\ wanted'[backlog'[i]] = {}
                                     /\ \A f \in Fds : fdConn'[f] # backlog'[i]
    BY <2>1, <2>2, <2>3, <2>4, <2>5 DEF AcceptedOnce
  <2>7. \A i, j \in DOMAIN backlog' : backlog'[i] = backlog'[j] => i = j
    BY <2>2, <2>3, <2>4 DEF AcceptedOnce
  <2>8. QED BY <2>1, <2>6, <2>7 DEF AcceptedOnce
<1>3. ASSUME NEW p \in Processes, Disconnect(p) PROVE AcceptedOnce'
  <2>1. /\ procState' = [procState EXCEPT ![p] = "closed"] /\ UNCHANGED <<backlog, fdConn, wanted>>
    BY <1>3 DEF Disconnect, tableVars
  <2>2. QED BY <2>1 DEF AcceptedOnce, Typed, ClientTypes
<1>4. CASE Accept
  <2>1. PICK g \in Fds, p \in Processes :
          /\ fdConn[g] = None /\ fdConn' = [fdConn EXCEPT ![g] = p]
          /\ 1 \in DOMAIN backlog /\ backlog[1] = p
          /\ \A i \in DOMAIN backlog' :
               i \in Nat \ {0} /\ i + 1 \in DOMAIN backlog /\ backlog'[i] = backlog[i + 1]
    BY <1>4, Accepted
  <2>2. UNCHANGED <<procState, wanted>>
    BY <1>4, Accepted
  <2>3. /\ procState[p] # "start" /\ \A f \in Fds : fdConn[f] # p
        /\ \A i \in DOMAIN backlog' : backlog'[i] # p
    BY <2>1 DEF AcceptedOnce
  <2>4. \A f \in Fds : fdConn'[f] = IF f = g THEN p ELSE fdConn[f]
    BY <2>1 DEF Typed, ServerTypes
  <2>5. \A q \in Processes : procState'[q] = "start" =>
           /\ wanted'[q] = {} /\ \A f \in Fds : fdConn'[f] # q
           /\ \A i \in DOMAIN backlog' : backlog'[i] # q
    BY <2>1, <2>2, <2>3, <2>4 DEF AcceptedOnce
  <2>6. \A i \in DOMAIN backlog' : /\ wanted'[backlog'[i]] = {}
                                   /\ \A f \in Fds : fdConn'[f] # backlog'[i]
    BY <2>1, <2>2, <2>3, <2>4 DEF AcceptedOnce
  <2>7. \A i, j \in DOMAIN backlog' : backlog'[i] = backlog'[j] => i = j
    <3>1. ASSUME NEW i \in DOMAIN backlog', NEW j \in DOMAIN backlog', backlog'[i] = backlog'[j]
          PROVE  i = j
      <4>1. i + 1 = j + 1
        BY <2>1, <3>1 DEF AcceptedOnce
      <4>2. i \in Nat /\ j \in Nat
        BY <2>1
      <4>3. QED BY <4>1, <4>2
    <3>2. QED BY <3>1
  <2>8. \A f, h \in Fds : fdConn'[f] = fdConn'[h] /\ fdConn'[f] # None => f = h
    BY <2>3, <2>4 DEF AcceptedOnce
  <2>9. QED BY <2>5, <2>6, <2>7, <2>8 DEF AcceptedOnce
<1>5. CASE CloseFd
  <2>1. /\ fdConn' = [fdConn EXCEPT ![closing] = None] /\ closing \in Fds
        /\ UNCHANGED <<procState, backlog, wanted>>
    BY <1>5 DEF CloseFd, clientVars, tableVars, Typed, ServerTypes
  <2>2. \A f \in Fds : fdConn'[f] \in {None, fdConn[f]}
    BY <2>1 DEF Typed, ServerTypes
  <2>3. /\ \A p \in Processes : p # None
        /\ \A i \in DOMAIN backlog : backlog[i] \in Processes
    BY ConstantsAssumption, ElementOfSeq, LenProperties DEF Typed, ClientTypes
  <2>4. QED BY <2>1, <2>2, <2>3 DEF AcceptedOnce
<1>6. ASSUME NEW f \in Fds, HandleSubscribe(f) \/ HandleUnsubscribe(f) PROVE AcceptedOnce'
  <2>1. /\ fdConn[f] \in Processes /\ UNCHANGED <<procState, backlog, fdConn>>
        /\ \E types : wanted' = [wanted EXCEPT ![fdConn[f]] = types]
    BY <1>6, Requested
  <2>2. \A p \in Processes : p # fdConn[f] => wanted'[p] = wanted[p]
    BY <2>1 DEF Typed, TableTypes
  <2>3. \A i \in DOMAIN backlog : backlog[i] \in Processes /\ backlog[i] # fdConn[f]
    BY ElementOfSeq, LenProperties DEF Typed, ClientTypes, AcceptedOnce
  <2>4. QED BY <2>1, <2>2, <2>3 DEF AcceptedOnce
<1>7. ASSUME NEW f \in Fds, HandleDisconnect(f) PROVE AcceptedOnce'
  <2>1. UNCHANGED <<procState, backlog, fdConn, wanted>>
    BY <1>7, Erased
  <2>2. QED BY <2>1 DEF AcceptedOnce
<1>8. QED BY <1>1, <1>2, <1>3, <1>4, <1>5, <1>6, <1>7, TableCases

\* An entry holds what its client has asked for, and no more.
LEMMA NothingLeftOverInit == Init => NothingLeftOver
BY DEF Init, NothingLeftOver, FlagsMatchRequests

LEMMA NothingLeftOverStep ==
  ASSUME Typed, RequestsSigned, TableSigned, AcceptedOnce, NothingLeftOver, Next \/ UNCHANGED vars
  PROVE  NothingLeftOver'
<1> SUFFICES ASSUME Regular
             PROVE  /\ \A b \in Ids :
                         msgFlag'[b] = IF clientFd'[b] = None THEN {} ELSE wanted'[fdConn'[clientFd'[b]]]
                    /\ \A g \in watched' :
                         clientFd'[AppOf[fdConn'[g]]] = None => wanted'[fdConn'[g]] = {}
  BY DEF NothingLeftOver, FlagsMatchRequests, Regular, Identified
<1> DEFINE Kept == /\ \A b \in Ids :
                         msgFlag'[b] = IF clientFd'[b] = None THEN {} ELSE wanted'[fdConn'[clientFd'[b]]]
                   /\ \A g \in watched' :
                         clientFd'[AppOf[fdConn'[g]]] = None => wanted'[fdConn'[g]] = {}
<1>1. /\ \A b \in Ids : msgFlag[b] = IF clientFd[b] = None THEN {} ELSE wanted[fdConn[clientFd[b]]]
      /\ \A g \in watched : clientFd[AppOf[fdConn[g]]] = None => wanted[fdConn[g]] = {}
  BY DEF NothingLeftOver, FlagsMatchRequests
<1>2. \A b \in Ids : clientFd[b] # None => /\ clientFd[b] \in watched /\ b = AppOf[fdConn[clientFd[b]]]
  BY DEF TableSigned, Regular
<1>3. \A g \in watched : g \in Fds /\ fdConn[g] \in Processes /\ g # closing /\ AppOf[fdConn[g]] \in Ids
  BY ConstantsAssumption DEF Typed, ServerTypes, WatchedOpen, Apps
<1>4. \A p, q \in Processes : AppOf[p] = AppOf[q] => p = q
  BY DEF Regular
<1>5. \A f, g \in watched : fdConn[f] = fdConn[g] => f = g
  BY <1>3, ConstantsAssumption DEF AcceptedOnce
<1>6. CASE UNCHANGED <<fdConn, watched, clientFd, msgFlag, wanted>>
  BY <1>1, <1>6
<1>7. CASE Accept
  <2>1. PICK g \in Fds, p \in Processes :
          /\ fdConn[g] = None /\ fdConn' = [fdConn EXCEPT ![g] = p]
          /\ watched' \in {watched, watched \cup {g}}
          /\ 1 \in DOMAIN backlog /\ backlog[1] = p
    BY <1>7, Accepted
  <2>2. UNCHANGED <<clientFd, msgFlag, wanted>>
    BY <1>7, Accepted
  <2>3. wanted[p] = {}
    BY <2>1 DEF AcceptedOnce
  <2>4. \A f \in Fds : fdConn'[f] = IF f = g THEN p ELSE fdConn[f]
    BY <2>1 DEF Typed, ServerTypes
  <2>5. \A f \in watched : f # g
    BY <2>1, <1>3, ConstantsAssumption
  <2>6. \A b \in Ids : clientFd[b] # None => fdConn'[clientFd[b]] = fdConn[clientFd[b]]
    BY <1>2, <1>3, <2>4, <2>5
  <2>7. \A b \in Ids :
          msgFlag'[b] = IF clientFd'[b] = None THEN {} ELSE wanted'[fdConn'[clientFd'[b]]]
    BY <1>1, <2>2, <2>6
  <2>8. ASSUME NEW f \in watched', clientFd'[AppOf[fdConn'[f]]] = None PROVE wanted'[fdConn'[f]] = {}
    <3>1. CASE f = g
      BY <2>2, <2>3, <2>4, <3>1
    <3>2. CASE f # g
      <4>1. f \in watched /\ fdConn'[f] = fdConn[f]
        BY <1>3, <2>1, <2>4, <3>2
      <4>2. QED BY <1>1, <2>2, <2>8, <4>1
    <3>3. QED BY <3>1, <3>2
  <2>9. QED BY <2>7, <2>8
<1>8. CASE CloseFd
  <2>1. fdConn' = [fdConn EXCEPT ![closing] = None] /\ UNCHANGED <<watched, clientFd, msgFlag, wanted>>
    BY <1>8 DEF CloseFd, serverVars, tableVars
  <2>2. \A f \in watched : fdConn'[f] = fdConn[f]
    BY <1>3, <2>1 DEF Typed, ServerTypes
  <2>3. QED BY <1>1, <1>2, <2>1, <2>2
<1>9. ASSUME NEW f \in Fds, HandleSubscribe(f) \/ HandleUnsubscribe(f) PROVE Kept
  <2> DEFINE p == fdConn[f]
  <2>1. p \in Processes /\ f \in watched /\ UNCHANGED <<fdConn, watched>>
    BY <1>9, Requested
  <2>2. PICK a \in Ids, t \in Types :
          /\ a = AppOf[p]
          /\ clientFd' = [clientFd EXCEPT ![a] = IF @ = None THEN f ELSE @]
          /\ \/ /\ msgFlag' = [msgFlag EXCEPT ![a] = msgFlag[a] \cup {t}]
                /\ wanted' = [wanted EXCEPT ![p] = @ \cup {t}]
             \/ /\ msgFlag' = [msgFlag EXCEPT ![a] = msgFlag[a] \ {t}]
                /\ wanted' = [wanted EXCEPT ![p] = @ \ {t}]
    BY <1>9, Requested DEF Regular
  <2>3. msgFlag[a] = wanted[p]
    <3>1. CASE clientFd[a] = None
      <4>1. wanted[p] = {}
        BY <1>1, <2>1, <2>2, <3>1
      <4>2. QED BY <1>1, <3>1, <4>1
    <3>2. CASE clientFd[a] # None
      <4>1. fdConn[clientFd[a]] = p
        BY <1>2, <1>3, <1>4, <2>1, <2>2, <3>2
      <4>2. QED BY <1>1, <3>2, <4>1
    <3>3. QED BY <3>1, <3>2
  <2>4. clientFd'[a] # None /\ fdConn[clientFd'[a]] = p
    BY <1>2, <1>3, <1>4, <2>1, <2>2, ConstantsAssumption DEF Typed, TableTypes
  <2>5. msgFlag'[a] = wanted'[p]
    <3>1. \/ msgFlag'[a] = msgFlag[a] \cup {t} /\ wanted'[p] = wanted[p] \cup {t}
          \/ msgFlag'[a] = msgFlag[a] \ {t} /\ wanted'[p] = wanted[p] \ {t}
      BY <2>1, <2>2 DEF Typed, TableTypes
    <3>2. QED BY <2>3, <3>1
  <2> HIDE DEF p
  <2>6. /\ \A b \in Ids : b # a => clientFd'[b] = clientFd[b] /\ msgFlag'[b] = msgFlag[b]
        /\ \A q \in Processes : q # p => wanted'[q] = wanted[q]
    BY <2>1, <2>2 DEF Typed, TableTypes
  <2>7. ASSUME NEW b \in Ids
        PROVE  msgFlag'[b] = IF clientFd'[b] = None THEN {} ELSE wanted'[fdConn'[clientFd'[b]]]
    <3>1. CASE b = a
      BY <2>1, <2>4, <2>5, <3>1
    <3>2. CASE b # a
      <4>1. clientFd[b] # None => fdConn[clientFd[b]] \in Processes /\ fdConn[clientFd[b]] # p
        BY <1>2, <1>3, <2>2, <3>2
      <4>2. QED BY <1>1, <2>1, <2>6, <3>2, <4>1
    <3>3. QED BY <3>1, <3>2
  <2>8. ASSUME NEW g \in watched', clientFd'[AppOf[fdConn'[g]]] = None PROVE wanted'[fdConn'[g]] = {}
    <3>1. g \in watched /\ fdConn'[g] = fdConn[g] /\ fdConn[g] \in Processes /\ AppOf[fdConn[g]] \in Ids
      BY <1>3, <2>1
    <3>2. AppOf[fdConn[g]] # a /\ fdConn[g] # p
      BY <2>2, <2>4, <2>8, <3>1
    <3>3. QED BY <1>1, <2>6, <2>8, <3>1, <3>2
  <2>9. QED BY <2>7, <2>8
<1>10. ASSUME NEW f \in Fds, HandleDisconnect(f) PROVE Kept
  <2>1. /\ f \in watched /\ watched' = watched \ {f} /\ UNCHANGED <<fdConn, wanted>>
        /\ \/ (\A a \in Ids : clientFd[a] # f) /\ UNCHANGED <<clientFd, msgFlag>>
           \/ \E a \in Ids : /\ clientFd[a] = f
                             /\ clientFd' = [clientFd EXCEPT ![a] = None]
                             /\ msgFlag' = [msgFlag EXCEPT ![a] = {}]
    BY <1>10, Erased
  <2>2. CASE UNCHANGED <<clientFd, msgFlag>>
    BY <1>1, <2>1, <2>2
  <2>3. CASE \E a \in Ids : /\ clientFd[a] = f
                            /\ clientFd' = [clientFd EXCEPT ![a] = None]
                            /\ msgFlag' = [msgFlag EXCEPT ![a] = {}]
    <3>1. PICK a \in Ids : /\ clientFd[a] = f
                          /\ clientFd' = [clientFd EXCEPT ![a] = None]
                          /\ msgFlag' = [msgFlag EXCEPT ![a] = {}]
      BY <2>3
    <3>2. a = AppOf[fdConn[f]]
      BY <1>2, <1>3, <2>1, <3>1, ConstantsAssumption
    <3>3. /\ clientFd'[a] = None /\ msgFlag'[a] = {}
          /\ \A b \in Ids : b # a => clientFd'[b] = clientFd[b] /\ msgFlag'[b] = msgFlag[b]
      BY <3>1, NoneYet DEF Typed, TableTypes
    <3>4. \A g \in watched' : g \in watched /\ AppOf[fdConn[g]] # a
      BY <1>3, <1>4, <1>5, <2>1, <3>2
    <3>5. ASSUME NEW b \in Ids
          PROVE  msgFlag'[b] = IF clientFd'[b] = None THEN {} ELSE wanted'[fdConn'[clientFd'[b]]]
      <4>1. CASE b = a
        BY <3>3, <4>1
      <4>2. CASE b # a
        <5>1. msgFlag[b] = IF clientFd[b] = None THEN {} ELSE wanted[fdConn[clientFd[b]]]
          BY <1>1
        <5>2. msgFlag'[b] = msgFlag[b] /\ clientFd'[b] = clientFd[b]
          BY <3>3, <4>2
        <5>3. QED BY <2>1, <5>1, <5>2
      <4>3. QED BY <4>1, <4>2
    <3>6. \A g \in watched' : clientFd'[AppOf[fdConn'[g]]] = None => wanted'[fdConn'[g]] = {}
      BY <1>1, <1>3, <2>1, <3>3, <3>4
    <3>7. QED BY <3>5, <3>6
  <2>4. QED BY <2>1, <2>2, <2>3
<1>11. QED
  BY <1>6, <1>7, <1>8, <1>9, <1>10, TableCases DEF connVars, Connect, Disconnect, serverVars, tableVars

TableInv == Typed /\ RequestsSigned /\ TableSigned /\ AcceptedOnce /\ NothingLeftOver

LEMMA TableInvariant ==
  /\ Init => TableInv
  /\ TableInv /\ [Next]_vars => TableInv'
BY TypedInit, TableInit, AcceptedOnceInit, NothingLeftOverInit,
   TypedStep, RequestsSignedStep, TableSignedStep, AcceptedOnceStep, NothingLeftOverStep
DEF TableInv

\* With one client for each appId, and none that subscribes while
\* MsgRouteClientInit runs: the flags of an entry are the subscriptions of its
\* client that have been received, and nothing is left over for the next.
THEOREM TableHoldsRequests == Spec => [](Regular => FlagsMatchRequests)
<1>1. TableInv => (Regular => FlagsMatchRequests)
  BY DEF TableInv, NothingLeftOver
<1>2. QED BY <1>1, TableInvariant, PTL DEF Spec
-------------------------------------------------------------------------------
(***************************************************************************)
(* What happens to a message.                                              *)
(***************************************************************************)
TableStep ==
  \/ \E p \in Processes : Connect(p) \/ Disconnect(p)
  \/ Accept \/ CloseFd
  \/ \E f \in Fds : HandleSubscribe(f) \/ HandleUnsubscribe(f) \/ HandleDisconnect(f)

JobStep(w) ==
  JobStart(w) \/ JobCheck(w) \/ JobLoad(w) \/ JobSend(w) \/ JobSendFails(w) \/ JobFree(w)

\* A message is given to the pool as it was sent, but for its src, with the
\* subscribers of the moment.
HandedOver(m) ==
  /\ m \notin submitted /\ InPool(m)' /\ owed'[m] \subseteq Subscribers(m)
  /\ msg'[m].answer = msg[m].answer /\ msg'[m].appId = msg[m].appId
  /\ msg'[m].msgType = msg[m].msgType

\* A step is one of a worker, or leaves the messages of the pool as they are.
PoolKept ==
  /\ UNCHANGED <<workerVars, delivered>> /\ submitted \subseteq submitted'
  /\ \A m \in submitted : msg'[m] = msg[m]

LEMMA MessageCases ==
  ASSUME Typed, Next \/ UNCHANGED vars
  PROVE  \/ PoolKept /\ TableStep
         \/ /\ PoolKept /\ UNCHANGED connVars
            /\ \A m \in Messages : owed'[m] = owed[m] \/ HandedOver(m)
         \/ UNCHANGED connVars /\ \E w \in Workers : JobStep(w)
<1> USE DEF PoolKept, poolVars, workerVars, deliveryVars
<1> DEFINE Quiet == UNCHANGED <<workerVars, deliveryVars, submitted, msg>>
<1>1. Start \/ StartFails \/ EpollFails \/ Rest \/ UNCHANGED vars => Quiet /\ UNCHANGED connVars
  BY DEF Start, StartFails, EpollFails, Rest, vars, connVars, serverVars, clientVars, tableVars
<1>2. ASSUME NEW p \in Processes PROVE SendInvalid(p) \/ Receive(p) => Quiet /\ UNCHANGED connVars
  BY DEF SendInvalid, Transmit, Receive, connVars, serverVars, tableVars
<1>3. ASSUME NEW p \in Processes, NEW t \in Types, NEW kind \in {"subscribe", "unsubscribe"}
      PROVE  Request(p, kind, t) => Quiet /\ UNCHANGED connVars
  BY DEF Request, Transmit, connVars, serverVars, tableVars
<1>4. ASSUME NEW p \in Processes, NEW m \in Messages, NEW answer \in BOOLEAN,
             NEW a \in {AllApps} \cup Apps, NEW t \in Types, SendMsg(p, m, answer, a, t)
      PROVE  PoolKept /\ UNCHANGED <<connVars, owed>>
  <2>1. /\ m \notin submitted /\ \E r : msg' = [msg EXCEPT ![m] = r]
        /\ UNCHANGED <<connVars, workerVars, deliveryVars, submitted>>
    BY <1>4 DEF SendMsg, Transmit, connVars, serverVars, tableVars
  <2>2. \A x \in Messages : x # m => msg'[x] = msg[x]
    BY <2>1 DEF Typed, MessageTypes
  <2>3. QED BY <2>1, <2>2 DEF Typed, MessageTypes
<1>5. ASSUME NEW f \in Fds, HandleData(f)
      PROVE  /\ PoolKept /\ UNCHANGED connVars
             /\ \A m \in Messages : owed'[m] = owed[m] \/ HandedOver(m)
  <2>1. PICK m \in Messages :
          /\ Recv(f, [kind |-> "message", of |-> m])
          /\ msg' = [msg EXCEPT ![m].src = f] /\ Pool!Submit(m)
          /\ owed' = [owed EXCEPT ![m] = Subscribers(m)]
          /\ UNCHANGED <<faults, tableVars, delivered>>
    BY <1>5 DEF HandleData
  <2>2. UNCHANGED <<connVars, workerVars, delivered>>
    BY <2>1 DEF Recv, connVars, tableVars
  <2>3. msg[m] \in Message
    BY <2>1, DataTypes
  <2>4. m \notin submitted /\ submitted' = submitted \cup {m}
    BY <2>1 DEF Pool!Submit
  <2>5. /\ msg' = [msg EXCEPT ![m] = [msg[m] EXCEPT !.src = f]]
        /\ [msg[m] EXCEPT !.src = f].answer = msg[m].answer
        /\ [msg[m] EXCEPT !.src = f].appId = msg[m].appId
        /\ [msg[m] EXCEPT !.src = f].msgType = msg[m].msgType
        /\ [msg[m] EXCEPT !.src = f] # None
    BY <2>1, <2>3, MessageFields, MessageAssumption
  <2>6. PICK r : /\ msg' = [msg EXCEPT ![m] = r] /\ r # None /\ r.answer = msg[m].answer
                 /\ r.appId = msg[m].appId /\ r.msgType = msg[m].msgType
    BY <2>5
  <2>7. msg'[m] = r /\ \A x \in Messages : x # m => msg'[x] = msg[x] /\ owed'[x] = owed[x]
    BY <2>1, <2>6 DEF Typed, MessageTypes
  <2>8. HandedOver(m)
    <3>1. owed'[m] = Subscribers(m)
      BY <2>1 DEF Typed, MessageTypes
    <3>2. QED BY <2>4, <2>6, <2>7, <3>1 DEF HandedOver, InPool
  <2>9. \A x \in submitted : msg'[x] = msg[x]
    BY <2>4, <2>7 DEF Typed, MessageTypes
  <2>10. QED BY <2>2, <2>4, <2>7, <2>8, <2>9
<1>6. ASSUME NEW f \in Fds, HandleDataFails(f)
      PROVE  PoolKept /\ UNCHANGED <<connVars, owed>>
  <2>1. PICK m \in Messages :
          /\ Recv(f, [kind |-> "message", of |-> m]) /\ msg' = [msg EXCEPT ![m] = None]
          /\ UNCHANGED <<tableVars, poolVars, deliveryVars>>
    BY <1>6 DEF HandleDataFails
  <2>2. UNCHANGED <<connVars, workerVars>> /\ fdConn[f] \in Processes
    BY <2>1, RecvKeeps DEF Recv, connVars, tableVars
  <2>3. m \notin submitted
    <3>1. PICK q \in Seq(Packet) : Received(fdConn[f], [kind |-> "message", of |-> m], q)
      BY <2>1, RecvKeeps
    <3>2. 1 \in DOMAIN inbox[fdConn[f]] /\ Carries(fdConn[f], 1, m)
      BY <3>1 DEF Received, Carries
    <3>3. QED BY <2>2, <3>2 DEF Typed, MessageTypes, MessagesOnce
  <2>4. QED BY <2>1, <2>2, <2>3 DEF Typed, MessageTypes
<1>7. ASSUME NEW f \in Fds PROVE HandleInvalid(f) => Quiet /\ UNCHANGED connVars
  BY DEF HandleInvalid, Recv, connVars, tableVars
<1>8. ASSUME NEW w \in Workers, JobStep(w) PROVE UNCHANGED connVars
  BY <1>8 DEF JobStep, JobStart, JobCheck, JobLoad, JobSend, JobSendFails, JobFree, connVars,
              serverVars, clientVars, tableVars
<1>9. TableStep => UNCHANGED <<workerVars, delivered, submitted, msg>>
  <2>1. ASSUME NEW p \in Processes, Connect(p) \/ Disconnect(p)
        PROVE  UNCHANGED <<workerVars, delivered, submitted, msg>>
    BY <2>1 DEF Connect, Disconnect
  <2>2. Accept \/ CloseFd => UNCHANGED <<workerVars, delivered, submitted, msg>>
    BY DEF Accept, CloseFd
  <2>3. ASSUME NEW f \in Fds, HandleSubscribe(f) \/ HandleUnsubscribe(f) \/ HandleDisconnect(f)
        PROVE  UNCHANGED <<workerVars, delivered, submitted, msg>>
    BY <2>3 DEF HandleSubscribe, HandleUnsubscribe, HandleDisconnect, Recv
  <2>4. QED BY <2>1, <2>2, <2>3 DEF TableStep
<1>10. TableStep => PoolKept
  BY <1>9
<1>11. Quiet => PoolKept /\ UNCHANGED owed
  OBVIOUS
<1> HIDE DEF Quiet, PoolKept
<1>12. QED
  BY <1>1, <1>2, <1>3, <1>4, <1>5, <1>6, <1>7, <1>8, <1>10, <1>11, NextCases DEF TableStep, JobStep
\* Whoever is owed a message stays in the table, at the same entry.
StaysOwed(m, p) == p \in owed[m] /\ Reachable(m, p)' /\ clientFd'[AppOf[p]] = clientFd[AppOf[p]]

LEMMA OwedTableStep ==
  ASSUME Regular, TableInv, OwedReachable, PoolKept, TableStep
  PROVE  \A m \in Messages : \A p \in owed'[m] : StaysOwed(m, p)
<1> USE DEF TableInv, Reachable, StaysOwed
<1>1. \A m \in Messages : \A p \in owed[m] :
        p \in Processes /\ InPool(m) /\ Reachable(m, p) /\ msg'[m] = msg[m]
  BY DEF OwedReachable, InPool, PoolKept, Typed, MessageTypes
<1>2. \A b \in Ids : clientFd[b] # None =>
        clientFd[b] \in watched /\ clientFd[b] \in Fds /\ clientFd[b] # closing
  BY DEF TableSigned, Regular, Typed, TableTypes, ServerTypes, WatchedOpen
<1>3. \A p \in Processes : AppOf[p] \in Ids
  BY ConstantsAssumption DEF Apps
<1>4. ASSUME NEW p \in Processes, Connect(p) \/ Disconnect(p)
      PROVE  \A m \in Messages : \A q \in owed'[m] : StaysOwed(m, q)
  <2>1. UNCHANGED <<fdConn, clientFd, msgFlag>>
    BY <1>4 DEF Connect, Disconnect, tableVars
  <2>2. CASE Connect(p)
    <3>1. procState[p] = "start" /\ procState' = [procState EXCEPT ![p] = "open"] /\ owed' = owed
      BY <2>2 DEF Connect, deliveryVars
    <3>2. QED BY <1>1, <2>1, <3>1 DEF Typed, ClientTypes
  <2>3. CASE Disconnect(p)
    <3>1. procState' = [procState EXCEPT ![p] = "closed"] /\ owed' = [m \in Messages |-> owed[m] \ {p}]
      BY <2>3 DEF Disconnect
    <3>2. QED BY <1>1, <2>1, <3>1 DEF Typed, ClientTypes
  <2>4. QED BY <1>4, <2>2, <2>3
<1>5. CASE Accept \/ CloseFd
  <2>1. UNCHANGED <<procState, clientFd, msgFlag, owed>>
    BY <1>5 DEF Accept, CloseFd, clientVars, tableVars, deliveryVars
  <2>2. \A b \in Ids : clientFd[b] # None => fdConn'[clientFd[b]] = fdConn[clientFd[b]]
    <3>1. CASE Accept
      <4>1. PICK g \in Fds, p \in Processes : fdConn[g] = None /\ fdConn' = [fdConn EXCEPT ![g] = p]
        BY <3>1, Accepted
      <4>2. QED BY <1>2, <4>1 DEF Typed, ServerTypes, WatchedOpen
    <3>2. CASE CloseFd
      BY <1>2, <3>2 DEF CloseFd, Typed, ServerTypes
    <3>3. QED BY <1>5, <3>1, <3>2
  <2>3. QED BY <1>1, <1>3, <2>1, <2>2
<1>6. ASSUME NEW f \in Fds, HandleSubscribe(f) \/ HandleUnsubscribe(f)
      PROVE  \A m \in Messages : \A q \in owed'[m] : StaysOwed(m, q)
  <2>1. UNCHANGED <<procState, fdConn>> /\ fdConn[f] \in Processes
    BY <1>6, Requested
  <2>2. PICK a \in Ids, t \in Types :
          /\ a = AppOf[fdConn[f]]
          /\ clientFd' = [clientFd EXCEPT ![a] = IF @ = None THEN f ELSE @]
          /\ \/ msgFlag' = [msgFlag EXCEPT ![a] = msgFlag[a] \cup {t}] /\ owed' = owed
             \/ /\ msgFlag' = [msgFlag EXCEPT ![a] = msgFlag[a] \ {t}]
                /\ owed' = [m \in Messages |-> IF HasType(m, t) THEN owed[m] \ {fdConn[f]}
                                               ELSE owed[m]]
    BY <1>6, Requested DEF Regular
  <2>3. \A b \in Ids : clientFd[b] # None => clientFd'[b] = clientFd[b]
    BY <2>2 DEF Typed, TableTypes
  <2>4. ASSUME NEW m \in Messages, NEW q \in owed'[m] PROVE StaysOwed(m, q)
    <3>1. q \in owed[m]
      BY <2>2, <2>4 DEF Typed, MessageTypes
    <3>2. msg[m].msgType \in msgFlag'[AppOf[q]]
      <4>1. msg[m].msgType \in msgFlag[AppOf[q]] /\ AppOf[q] \in Ids
        BY <1>1, <1>3, <3>1
      <4>2. CASE msgFlag' = [msgFlag EXCEPT ![a] = msgFlag[a] \cup {t}]
        BY <4>1, <4>2 DEF Typed, TableTypes
      <4>3. CASE AppOf[q] # a
        BY <2>2, <4>1, <4>3 DEF Typed, TableTypes
      <4>4. CASE AppOf[q] = a /\ msgFlag' = [msgFlag EXCEPT ![a] = msgFlag[a] \ {t}]
                 /\ owed' = [x \in Messages |-> IF HasType(x, t) THEN owed[x] \ {fdConn[f]}
                                                ELSE owed[x]]
        <5>1. q = fdConn[f]
          BY <1>1, <2>1, <2>2, <3>1, <4>4 DEF Regular
        <5>2. ~HasType(m, t)
          BY <2>4, <4>4, <5>1
        <5>3. msg[m] # None
          BY <1>1, <3>1 DEF InPool
        <5>4. msg[m].msgType # t
          BY <5>2, <5>3 DEF HasType
        <5>5. QED BY <4>1, <4>4, <5>4 DEF Typed, TableTypes
      <4>5. QED BY <2>2, <4>2, <4>3, <4>4
    <3>3. QED BY <1>1, <1>3, <2>1, <2>3, <3>1, <3>2
  <2>5. QED BY <2>4
<1>7. ASSUME NEW f \in Fds, HandleDisconnect(f)
      PROVE  \A m \in Messages : \A q \in owed'[m] : StaysOwed(m, q)
  <2>1. /\ fdConn[f] \in Processes /\ procState[fdConn[f]] = "closed"
        /\ UNCHANGED <<procState, fdConn, owed>>
        /\ \/ UNCHANGED <<clientFd, msgFlag>>
           \/ \E a \in Ids : /\ clientFd[a] = f
                             /\ clientFd' = [clientFd EXCEPT ![a] = None]
                             /\ msgFlag' = [msgFlag EXCEPT ![a] = {}]
    BY <1>7, Erased
  <2>2. ASSUME NEW m \in Messages, NEW q \in owed'[m] PROVE StaysOwed(m, q)
    <3>1. q \in owed[m] /\ q \in Processes /\ AppOf[q] \in Ids /\ Reachable(m, q) /\ msg'[m] = msg[m]
      BY <1>1, <1>3, <2>1, <2>2
    <3>2. clientFd[AppOf[q]] # f
      BY <2>1, <3>1
    <3>3. clientFd'[AppOf[q]] = clientFd[AppOf[q]] /\ msgFlag'[AppOf[q]] = msgFlag[AppOf[q]]
      BY <2>1, <3>1, <3>2 DEF Typed, TableTypes
    <3>4. QED BY <2>1, <3>1, <3>3
  <2>3. QED BY <2>2
<1>8. QED BY <1>4, <1>5, <1>6, <1>7 DEF TableStep

LEMMA OwedReachableStep ==
  ASSUME TableInv, OwedReachable, Next \/ UNCHANGED vars
  PROVE  OwedReachable'
<1> SUFFICES ASSUME Regular
             PROVE  \A m \in Messages : \A p \in owed'[m] : InPool(m)' /\ Reachable(m, p)'
  BY DEF OwedReachable, Regular, Identified
<1>1. \A m \in Messages : \A p \in owed[m] : InPool(m) /\ Reachable(m, p)
  BY DEF OwedReachable
<1>2. CASE PoolKept /\ TableStep
  BY <1>1, <1>2, OwedTableStep DEF StaysOwed, PoolKept, InPool
<1>3. CASE /\ PoolKept /\ UNCHANGED connVars
           /\ \A m \in Messages : owed'[m] = owed[m] \/ HandedOver(m)
  <2>1. ASSUME NEW m \in Messages, HandedOver(m), NEW p \in owed'[m]
        PROVE  InPool(m)' /\ Reachable(m, p)'
    <3>1. p \in Subscribers(m) /\ InPool(m)'
      BY <2>1 DEF HandedOver
    <3>2. QED BY <1>3, <2>1, <3>1 DEF HandedOver, Subscribers, Reachable, connVars
  <2>2. ASSUME NEW m \in Messages, owed'[m] = owed[m], NEW p \in owed'[m]
        PROVE  InPool(m)' /\ Reachable(m, p)'
    <3>1. InPool(m) /\ Reachable(m, p)
      BY <1>1, <2>2
    <3>2. m \in submitted' /\ msg'[m] = msg[m]
      BY <1>3, <3>1 DEF PoolKept, InPool
    <3>3. QED BY <1>3, <3>1, <3>2 DEF Reachable, connVars, InPool
  <2>3. QED BY <1>3, <2>1, <2>2
<1>4. ASSUME UNCHANGED connVars, NEW w \in Workers, JobStep(w)
      PROVE  \A m \in Messages : \A p \in owed'[m] : InPool(m)' /\ Reachable(m, p)'
  <2>1. CASE ~JobFree(w)
    <3>1. UNCHANGED <<msg, owed, submitted>>
      BY <1>4, <2>1 DEF JobStep, JobStart, JobCheck, JobLoad, JobSend, JobSendFails, poolVars,
                        deliveryVars, Pool!StartOldest
    <3>2. QED BY <1>1, <1>4, <3>1 DEF Reachable, connVars, InPool
  <2>2. CASE JobFree(w)
    <3>1. /\ msg' = [msg EXCEPT ![workerMsg[w]] = None] /\ owed' = [owed EXCEPT ![workerMsg[w]] = {}]
          /\ submitted' = submitted
      BY <2>2 DEF JobFree, Pool!Finish
    <3>2. ASSUME NEW m \in Messages, NEW p \in owed'[m]
          PROVE  InPool(m)' /\ Reachable(m, p)'
      <4>1. p \in owed[m] /\ m # workerMsg[w]
        BY <3>1, <3>2 DEF TableInv, Typed, MessageTypes
      <4>2. msg'[m] = msg[m]
        BY <3>1, <4>1 DEF TableInv, Typed, MessageTypes
      <4>3. QED BY <1>1, <1>4, <3>1, <4>1, <4>2 DEF Reachable, connVars, InPool
    <3>3. QED BY <3>2
  <2>3. QED BY <2>1, <2>2
<1>5. QED BY <1>2, <1>3, <1>4, MessageCases DEF TableInv
\* What a worker's step leaves of another worker and its message.
LEMMA OtherWorker ==
  ASSUME Typed, NEW w \in Workers, JobStep(w), NEW v \in Workers, v # w
  PROVE  /\ workerPc'[v] = workerPc[v] /\ workerMsg'[v] = workerMsg[v] /\ workerApp'[v] = workerApp[v]
         /\ workerFd'[v] = workerFd[v] /\ workerConn'[v] = workerConn[v]
         /\ Busy(v) => /\ workerMsg[v] \in Messages /\ msg'[workerMsg[v]] = msg[workerMsg[v]]
                       /\ owed'[workerMsg[v]] = owed[workerMsg[v]]
                       /\ delivered[workerMsg[v]] \subseteq delivered'[workerMsg[v]]
<1> USE DEF Typed, WorkerTypes
<1>1. Busy(v) => /\ workerMsg[v] \in Messages
                 /\ Busy(w) => workerMsg[v] # workerMsg[w] /\ workerMsg[w] \in Messages
  BY DEF WorkersPlaced, JobsOnce
<1>2. CASE JobStart(w)
  BY <1>1, <1>2 DEF JobStart, deliveryVars
<1>3. CASE JobCheck(w) \/ JobSendFails(w)
  <2>1. /\ UNCHANGED <<workerMsg, msg, deliveryVars>>
        /\ \/ workerPc' = [workerPc EXCEPT ![w] = "load"] /\ UNCHANGED <<workerApp, workerFd, workerConn>>
           \/ Advance(w)
    BY <1>3 DEF JobCheck, JobSendFails
  <2>2. QED BY <1>1, <2>1 DEF Advance, deliveryVars
<1>4. CASE JobLoad(w)
  BY <1>1, <1>4 DEF JobLoad, deliveryVars
<1>5. CASE JobSend(w)
  <2>1. /\ UNCHANGED <<workerMsg, msg, owed>> /\ Advance(w) /\ Busy(w)
        /\ delivered' = [delivered EXCEPT ![workerMsg[w]] = @ \cup {Target(w)}]
    BY <1>5 DEF JobSend, Busy
  <2>2. Busy(v) => delivered'[workerMsg[v]] = delivered[workerMsg[v]]
    BY <1>1, <2>1 DEF MessageTypes
  <2>3. QED BY <1>1, <2>1, <2>2 DEF Advance
<1>6. CASE JobFree(w)
  <2>1. Busy(w)
    BY <1>6 DEF JobFree, Busy
  <2>2. QED BY <1>1, <1>6, <2>1 DEF JobFree, MessageTypes
<1>7. QED BY <1>2, <1>3, <1>4, <1>5, <1>6 DEF JobStep

\* A worker that goes on keeps ahead of it whoever was beyond.
LEMMA StaysAhead ==
  ASSUME Typed, NEW w \in Workers, workerPc[w] \in {"check", "send"}, Advance(w), msg' = msg,
         workerMsg' = workerMsg, NEW p \in Processes, ~msg[workerMsg[w]].answer,
         msg[workerMsg[w]].appId = AllApps, AppOf[p] > workerApp[w]
  PROVE  Ahead(w, p)'
<1>1. workerApp[w] \in Ids /\ AppOf[p] \in Ids /\ MaxAppId \in Nat
  BY ConstantsAssumption DEF Typed, WorkerTypes, WorkersPlaced, Apps
<1>2. workerApp[w] + 1 \in Ids
  BY <1>1 DEF Ids
<1>3. /\ workerApp' = [workerApp EXCEPT ![w] = @ + 1]
      /\ workerPc' = [workerPc EXCEPT ![w] = "check"]
  BY <1>2 DEF Advance
<1>4. workerApp'[w] = workerApp[w] + 1 /\ workerPc'[w] = "check"
  BY <1>3 DEF Typed, WorkerTypes
<1>5. AppOf[p] = workerApp[w] + 1 \/ AppOf[p] > workerApp[w] + 1
  BY <1>1 DEF Ids
<1>6. QED BY <1>4, <1>5 DEF Ahead

LEMMA ServedJobStep ==
  ASSUME TableInv, OwedReachable, ServedSoFar, Regular, UNCHANGED connVars,
         NEW w \in Workers, JobStep(w), Busy(w)', NEW p \in owed'[workerMsg'[w]]
  PROVE  p \in delivered'[workerMsg'[w]] \/ Ahead(w, p)'
<1> DEFINE m == workerMsg'[w]
<1>1. ~JobFree(w)
  BY DEF JobFree, Busy, TableInv, Typed, WorkerTypes
<1>2. UNCHANGED <<msg, owed>>
  BY <1>1 DEF JobStep, JobStart, JobCheck, JobLoad, JobSend, JobSendFails, deliveryVars
<1>3. CASE JobStart(w)
  <2>1. /\ m = Last(queue) /\ Last(queue) \in Messages
        /\ workerPc'[w] = IF msg[m].answer THEN "send" ELSE "check"
        /\ workerApp'[w] = msg[m].appId
    BY <1>3, StartMoves DEF JobStart, TableInv, Typed, MessageTypes, WorkerTypes
  <2> HIDE DEF m
  <2>2. p \in owed[m] /\ p \in Processes
    BY <1>2, <2>1 DEF TableInv, Typed, MessageTypes, m
  <2>3. ~msg[m].answer /\ msg[m].appId \in {AllApps, AppOf[p]}
    BY <2>1, <2>2 DEF OwedReachable, Reachable
  <2>4. AppOf[p] > AllApps
    BY <2>2, ConstantsAssumption DEF Apps, Ids, AllApps
  <2>5. QED BY <1>2, <2>1, <2>3, <2>4 DEF Ahead, m
<1>4. CASE ~JobStart(w)
  <2>1. Busy(w) /\ UNCHANGED workerMsg
    BY <1>1, <1>4 DEF JobStep, JobCheck, JobLoad, JobSend, JobSendFails, Busy
  <2>2. m \in Messages /\ m = workerMsg[w] /\ p \in owed[m] /\ p \in Processes
    BY <1>2, <2>1 DEF TableInv, Typed, WorkerTypes, WorkersPlaced, MessageTypes
  <2>3. p \in delivered[m] \/ Ahead(w, p)
    BY <2>1, <2>2 DEF ServedSoFar
  <2>4. Reachable(m, p) /\ AppOf[p] \in Ids
    BY <2>2, ConstantsAssumption DEF OwedReachable, Apps
  <2> HIDE DEF m
  <2>5. delivered[m] \subseteq delivered'[m]
    BY <1>1, <1>4, <2>2 DEF JobStep, JobCheck, JobLoad, JobSend, JobSendFails, deliveryVars,
                           TableInv, Typed, MessageTypes
  <2>6. CASE p \in delivered[m]
    BY <2>5, <2>6 DEF m
  <2>7. CASE Ahead(w, p)
    <3>1. CASE JobLoad(w)
      <4>1. /\ workerPc[w] = "load" /\ workerApp' = workerApp /\ workerPc'[w] = "send"
            /\ workerFd'[w] = clientFd[workerApp[w]]
        BY <3>1 DEF JobLoad, TableInv, Typed, WorkerTypes
      <4>2. QED BY <1>2, <2>1, <2>7, <4>1 DEF Ahead, connVars
    <3>2. CASE Advance(w) /\ workerPc[w] \in {"check", "send"} /\ AppOf[p] # workerApp[w]
      <4>1. ~msg[workerMsg[w]].answer /\ msg[workerMsg[w]].appId = AllApps /\ AppOf[p] > workerApp[w]
        BY <2>2, <2>4, <2>7, <3>2 DEF Ahead, Reachable
      <4>2. QED BY <1>2, <2>1, <2>2, <3>2, <4>1, StaysAhead DEF TableInv
    <3>3. CASE JobCheck(w) /\ (AppOf[p] = workerApp[w] \/ ~Advance(w))
      <4>1. workerPc'[w] = "load" /\ UNCHANGED workerApp
        <5>1. AppOf[p] = workerApp[w] => /\ clientFd[workerApp[w]] # None
                                        /\ msg[workerMsg[w]].msgType \in msgFlag[workerApp[w]]
          BY <2>2, <2>4 DEF Reachable
        <5>2. QED BY <3>3, <5>1 DEF JobCheck, TableInv, Typed, WorkerTypes
      <4>2. QED BY <1>2, <2>1, <2>7, <4>1 DEF Ahead
    <3>4. CASE (JobSend(w) \/ JobSendFails(w)) /\ AppOf[p] = workerApp[w]
      <4>1. workerPc[w] = "send"
        BY <3>4 DEF JobSend, JobSendFails
      <4>2. Target(w) = p /\ p \in Open
        BY <2>2, <2>4, <2>7, <3>4, <4>1 DEF Ahead, Reachable, Target, Open
      <4>3. JobSend(w)
        BY <3>4, <4>2 DEF JobSendFails
      <4>4. p \in delivered'[m]
        BY <2>2, <4>2, <4>3 DEF JobSend, TableInv, Typed, MessageTypes
      <4>5. QED BY <4>4 DEF m
    <3>5. QED
      BY <1>1, <1>4, <3>1, <3>2, <3>3, <3>4 DEF JobStep, JobCheck, JobSend, JobSendFails
  <2>8. QED BY <2>3, <2>6, <2>7
<1>5. QED BY <1>3, <1>4

LEMMA ServedSoFarStep ==
  ASSUME TableInv, OwedReachable, ServedSoFar, Next \/ UNCHANGED vars
  PROVE  ServedSoFar'
<1> SUFFICES ASSUME Regular, NEW w \in Workers, Busy(w)', NEW p \in owed'[workerMsg'[w]]
             PROVE  p \in delivered'[workerMsg'[w]] \/ Ahead(w, p)'
  BY DEF ServedSoFar, Regular, Identified
<1>1. Busy(w) => /\ workerMsg[w] \in Messages /\ workerMsg[w] \in submitted
                 /\ \A q \in owed[workerMsg[w]] : q \in delivered[workerMsg[w]] \/ Ahead(w, q)
  BY DEF TableInv, Typed, WorkerTypes, WorkersPlaced, JobsOnce, ServedSoFar
<1>2. PoolKept => /\ Busy(w) /\ UNCHANGED <<workerVars, delivered>>
                  /\ msg'[workerMsg[w]] = msg[workerMsg[w]]
  BY <1>1 DEF PoolKept, Busy, workerVars
<1>3. CASE PoolKept /\ TableStep
  <2>1. StaysOwed(workerMsg[w], p)
    BY <1>1, <1>2, <1>3, OwedTableStep DEF workerVars
  <2>2. QED BY <1>1, <1>2, <1>3, <2>1 DEF StaysOwed, Ahead, workerVars
<1>4. CASE /\ PoolKept /\ UNCHANGED connVars
           /\ \A m \in Messages : owed'[m] = owed[m] \/ HandedOver(m)
  <2>1. owed'[workerMsg[w]] = owed[workerMsg[w]]
    BY <1>1, <1>2, <1>4 DEF HandedOver
  <2>2. QED BY <1>1, <1>2, <1>4, <2>1 DEF Ahead, workerVars, connVars
<1>5. ASSUME UNCHANGED connVars, NEW v \in Workers, JobStep(v)
      PROVE  p \in delivered'[workerMsg'[w]] \/ Ahead(w, p)'
  <2>1. CASE v = w
    BY <1>5, <2>1, ServedJobStep
  <2>2. CASE v # w
    <3>1. /\ workerPc'[w] = workerPc[w] /\ workerMsg'[w] = workerMsg[w] /\ workerApp'[w] = workerApp[w]
          /\ workerFd'[w] = workerFd[w]
          /\ Busy(w) => /\ msg'[workerMsg[w]] = msg[workerMsg[w]]
                        /\ owed'[workerMsg[w]] = owed[workerMsg[w]]
                        /\ delivered[workerMsg[w]] \subseteq delivered'[workerMsg[w]]
      BY <1>5, <2>2, OtherWorker DEF TableInv
    <3>2. Busy(w)
      BY <3>1 DEF Busy
    <3>3. QED BY <1>1, <1>5, <3>1, <3>2 DEF Ahead, connVars
  <2>3. QED BY <2>1, <2>2
<1>6. QED BY <1>3, <1>4, <1>5, MessageCases DEF TableInv
\* What has been asked for stays so, and covers what is wanted.
LEMMA AskedGrows ==
  ASSUME Typed, RequestsSigned, \A p \in Processes : wanted[p] \subseteq asked[p],
         Next \/ UNCHANGED vars
  PROVE  \A p \in Processes : wanted'[p] \subseteq asked'[p] /\ asked[p] \subseteq asked'[p]
<1>1. CASE UNCHANGED <<wanted, asked>>
  BY <1>1
<1>2. ASSUME NEW f \in Fds, HandleSubscribe(f) \/ HandleUnsubscribe(f)
      PROVE  \A p \in Processes : wanted'[p] \subseteq asked'[p] /\ asked[p] \subseteq asked'[p]
  <2>1. PICK t \in Types :
          \/ /\ wanted' = [wanted EXCEPT ![fdConn[f]] = @ \cup {t}]
             /\ asked' = [asked EXCEPT ![fdConn[f]] = @ \cup {t}]
          \/ wanted' = [wanted EXCEPT ![fdConn[f]] = @ \ {t}] /\ asked' = asked
    BY <1>2, Requested
  <2>2. fdConn[f] \in Processes
    BY <1>2, Requested
  <2>3. QED BY <2>1, <2>2 DEF Typed, TableTypes
<1>3. ASSUME NEW p \in Processes PROVE Connect(p) \/ Disconnect(p) => UNCHANGED <<wanted, asked>>
  BY DEF Connect, Disconnect, tableVars
<1>4. Accept \/ CloseFd => UNCHANGED <<wanted, asked>>
  BY DEF Accept, CloseFd, tableVars
<1>5. ASSUME NEW f \in Fds PROVE HandleDisconnect(f) => UNCHANGED <<wanted, asked>>
  BY DEF HandleDisconnect
<1>6. UNCHANGED connVars => UNCHANGED <<wanted, asked>>
  BY DEF connVars
<1>7. QED BY <1>1, <1>2, <1>3, <1>4, <1>5, <1>6, TableCases

LEMMA SendKnownJobStep ==
  ASSUME TableInv, SendsKnown, UNCHANGED connVars, NEW w \in Workers, JobStep(w)
  PROVE  SendKnown(w)'
<1> USE DEF TableInv, Typed, WorkerTypes
<1>1. CASE JobStart(w)
  <2> DEFINE m == Last(queue)
  <2>1. /\ m \in Messages /\ workerMsg'[w] = m /\ msg' = msg
        /\ workerPc'[w] = IF msg[m].answer THEN "send" ELSE "check"
        /\ workerConn'[w] = None
    BY <1>1, StartMoves DEF JobStart, MessageTypes
  <2> HIDE DEF m
  <2>2. QED BY <2>1 DEF SendKnown
<1>2. CASE JobFree(w)
  <2>1. workerPc'[w] = "idle"
    BY <1>2 DEF JobFree
  <2>2. QED BY <2>1 DEF SendKnown
<1>3. CASE Advance(w) /\ msg' = msg /\ workerMsg' = workerMsg /\ workerPc[w] \in {"check", "send"}
  <2>1. \/ workerPc'[w] = "free"
        \/ workerPc'[w] = "check" /\ ~msg[workerMsg[w]].answer
    BY <1>3 DEF Advance
  <2>2. QED BY <1>3, <2>1 DEF SendKnown
<1>4. CASE JobCheck(w) /\ ~Advance(w)
  <2>1. /\ workerPc[w] = "check" /\ workerPc'[w] = "load" /\ UNCHANGED <<workerApp, workerMsg, msg>>
        /\ clientFd[workerApp[w]] # None
        /\ msg[workerMsg[w]].msgType \in msgFlag[workerApp[w]]
    BY <1>4 DEF JobCheck
  <2>2. ~msg[workerMsg[w]].answer /\ workerApp[w] \in Ids
    BY <2>1 DEF SendsKnown, SendKnown, WorkersPlaced
  <2>3. Regular => \E p \in Processes : /\ AppOf[p] = workerApp[w]
                                        /\ msg[workerMsg[w]].msgType \in asked[p]
    <3> SUFFICES ASSUME Regular
                 PROVE  \E p \in Processes : /\ AppOf[p] = workerApp[w]
                                             /\ msg[workerMsg[w]].msgType \in asked[p]
      BY DEF Regular
    <3> DEFINE p == fdConn[clientFd[workerApp[w]]]
    <3>1. /\ workerApp[w] = AppOf[p] /\ clientFd[workerApp[w]] \in watched
          /\ msg[workerMsg[w]].msgType \in wanted[p]
      BY <2>1, <2>2 DEF TableSigned, NothingLeftOver, FlagsMatchRequests, Regular
    <3>2. p \in Processes
      BY <3>1 DEF ServerTypes, WatchedOpen
    <3>3. QED BY <3>1, <3>2 DEF SendsKnown
  <2>4. QED BY <2>1, <2>2, <2>3 DEF SendKnown, connVars
<1>5. CASE JobLoad(w)
  <2>1. /\ workerPc[w] = "load" /\ workerPc'[w] = "send" /\ UNCHANGED <<workerApp, workerMsg, msg>>
        /\ workerConn'[w] = IF clientFd[workerApp[w]] = None THEN None
                            ELSE fdConn[clientFd[workerApp[w]]]
    BY <1>5 DEF JobLoad
  <2>2. ~msg[workerMsg[w]].answer /\ workerApp[w] \in Ids
    BY <2>1 DEF SendsKnown, SendKnown, WorkersPlaced
  <2>3. Regular /\ workerConn'[w] # None =>
          AppOf[workerConn'[w]] = workerApp[w] /\ msg[workerMsg[w]].msgType \in asked[workerConn'[w]]
    <3> SUFFICES ASSUME Regular, workerConn'[w] # None
                 PROVE  /\ AppOf[workerConn'[w]] = workerApp[w]
                        /\ msg[workerMsg[w]].msgType \in asked[workerConn'[w]]
      BY DEF Regular
    <3>1. /\ workerConn'[w] = fdConn[clientFd[workerApp[w]]] /\ clientFd[workerApp[w]] \in watched
          /\ AppOf[workerConn'[w]] = workerApp[w]
      BY <2>1, <2>2 DEF TableSigned, Regular
    <3>2. workerConn'[w] \in Processes
      BY <3>1 DEF ServerTypes, WatchedOpen
    <3>3. PICK p \in Processes : AppOf[p] = workerApp[w] /\ msg[workerMsg[w]].msgType \in asked[p]
      BY <2>1 DEF SendsKnown, SendKnown
    <3>4. workerConn'[w] = p
      BY <3>1, <3>2, <3>3 DEF Regular
    <3>5. QED BY <3>1, <3>3, <3>4
  <2>4. QED BY <2>1, <2>2, <2>3 DEF SendKnown, connVars
<1>6. QED
  BY <1>1, <1>2, <1>3, <1>4, <1>5 DEF JobStep, JobCheck, JobSend, JobSendFails

LEMMA SendsKnownStep ==
  ASSUME TableInv, SendsKnown, Next \/ UNCHANGED vars
  PROVE  SendsKnown'
<1>1. \A p \in Processes : wanted'[p] \subseteq asked'[p] /\ asked[p] \subseteq asked'[p]
  BY AskedGrows DEF TableInv, SendsKnown
<1>2. ASSUME NEW w \in Workers,
             /\ workerPc'[w] = workerPc[w] /\ workerMsg'[w] = workerMsg[w]
             /\ workerApp'[w] = workerApp[w] /\ workerConn'[w] = workerConn[w]
             /\ Busy(w) => msg'[workerMsg[w]] = msg[workerMsg[w]]
      PROVE  SendKnown(w)'
  <2>1. SendKnown(w)
    BY DEF SendsKnown
  <2>2. CASE ~Busy(w)
    BY <1>2, <2>2 DEF Busy, SendKnown
  <2>3. CASE Busy(w)
    <3>1. workerConn[w] # None => asked[workerConn[w]] \subseteq asked'[workerConn[w]]
      BY <1>1 DEF TableInv, Typed, WorkerTypes
    <3>2. QED BY <1>1, <1>2, <2>1, <2>3, <3>1 DEF SendKnown, Regular, Identified
  <2>4. QED BY <2>2, <2>3
<1>3. CASE PoolKept
  <2>1. ASSUME NEW w \in Workers PROVE SendKnown(w)'
    <3>1. UNCHANGED workerVars /\ Busy(w) => msg'[workerMsg[w]] = msg[workerMsg[w]]
      BY <1>3 DEF PoolKept, TableInv, Typed, WorkerTypes, JobsOnce
    <3>2. QED BY <1>2, <1>3, <3>1 DEF PoolKept, workerVars
  <2>2. QED BY <1>1, <2>1 DEF SendsKnown
<1>4. ASSUME UNCHANGED connVars, NEW v \in Workers, JobStep(v) PROVE SendsKnown'
  <2>1. ASSUME NEW w \in Workers PROVE SendKnown(w)'
    <3>1. CASE w = v
      BY <1>4, <3>1, SendKnownJobStep
    <3>2. CASE w # v
      BY <1>2, <1>4, <3>2, OtherWorker DEF TableInv
    <3>3. QED BY <3>1, <3>2
  <2>2. QED BY <1>1, <2>1 DEF SendsKnown
<1>5. QED BY <1>3, <1>4, MessageCases DEF TableInv

DeliveryInv == TableInv /\ OwedReachable /\ ServedSoFar /\ SendsKnown

LEMMA DeliveryInvariant ==
  /\ Init => DeliveryInv
  /\ DeliveryInv /\ [Next]_vars => DeliveryInv'
<1>1. Init => OwedReachable /\ ServedSoFar /\ SendsKnown
  BY DEF Init, OwedReachable, ServedSoFar, SendsKnown, SendKnown, Busy
<1>2. DeliveryInv /\ [Next]_vars => DeliveryInv'
  BY TableInvariant, OwedReachableStep, ServedSoFarStep, SendsKnownStep DEF DeliveryInv
<1>3. QED BY <1>1, <1>2, TableInvariant DEF DeliveryInv

\* With one client for each appId, and none that subscribes while
\* MsgRouteClientInit runs: a message a worker is about to free has been sent to
\* every client that it is for and that was subscribed from the moment it was
\* received.
THEOREM EverySubscriberServed == Spec => [](Regular => SubscribersServed)
<1>1. DeliveryInv => (Regular => SubscribersServed)
  BY DEF DeliveryInv, ServedSoFar, Ahead, SubscribersServed, Busy
<1>2. QED BY <1>1, DeliveryInvariant, PTL DEF Spec

\* Under the same conditions: if the descriptor read from the table still leads
\* where it led then, a message that is no answer goes to a client with the appId
\* the worker looks at, which has subscribed to the type.
THEOREM SendsWhereItShould == ASSUME Regular PROVE Spec => SendsToSubscriber
<1> DEFINE Right == \A w \in Workers :
             JobSend(w) /\ ~msg[workerMsg[w]].answer /\ Target(w) = workerConn[w] =>
               /\ AppOf[Target(w)] = workerApp[w]
               /\ msg[workerMsg[w]].msgType \in asked[Target(w)]
<1>1. DeliveryInv => Right
  <2> SUFFICES ASSUME DeliveryInv, NEW w \in Workers, JobSend(w), ~msg[workerMsg[w]].answer,
                      Target(w) = workerConn[w]
               PROVE  /\ AppOf[Target(w)] = workerApp[w]
                      /\ msg[workerMsg[w]].msgType \in asked[Target(w)]
    OBVIOUS
  <2>1. workerPc[w] = "send" /\ workerConn[w] # None
    BY ConstantsAssumption DEF JobSend, Open
  <2>2. SendKnown(w)
    BY DEF DeliveryInv, SendsKnown
  <2>3. QED BY <2>1, <2>2 DEF SendKnown
<1>2. DeliveryInv /\ [Next]_vars => [Right]_vars
  BY <1>1
<1>3. QED BY <1>2, DeliveryInvariant, PTL DEF Spec, SendsToSubscriber
===============================================================================
