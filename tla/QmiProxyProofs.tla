--------------------------- MODULE QmiProxyProofs ---------------------------
(***************************************************************************)
(* Proofs about QmiProxy: for any descriptors, client ids and number of    *)
(* requests and faults.                                                    *)
(***************************************************************************)
EXTENDS QmiProxy, SequenceTheorems, WellFoundedInduction, TLAPS

\* What is between the proxy and the modem, in the order in which it gets back.
Pipe == fromModem \o toModem

Control(m) == m.kind \notin {"DATA", "IND"}

-----------------------------------------------------------------------------
(* What holds whether or not the control queue has been disturbed          *)

\* The two threads start, end and die together.
ThreadsInv ==
  /\ (main = "closed") <=> (loop = "none")
  /\ (main = "killed") <=> (loop = "killed")

\* Without a server there are no connections, without a loop none is accepted,
\* and a connection that is not there has left nothing behind.
ConnInv ==
  /\ main \in {"closed", "init", "sync"} => \A f \in Fds : conn[f] = "none"
  /\ main \in {"init", "sync"} => ctlq = <<>>
  /\ loop \in {"none", "ended"} => \A f \in Fds : ~Listed(f)
  /\ \A f \in Fds : ~Listed(f) => ids[f] = {}
  /\ \A f \in Fds : conn[f] = "none" => client[f] = NoClient /\ inbox[f] = <<>>

\* A client waits for one request at most, its latest; it uses client ids that
\* it has and has none that it releases.
ClientInv ==
  \A f \in Fds : \A r \in client[f].wait :
    /\ client[f].wait = {r} /\ r.fd = f /\ ~r.rsp /\ r.tid = client[f].tid
    /\ r.kind \in {"SYNC", "GET", "REL", "OTHER", "DATA"}
    /\ r.kind = "DATA" => r.id \in client[f].has
    /\ r.kind = "REL" => r.id \notin client[f].has
    /\ r.kind \notin {"DATA", "REL"} => r.id = 0

\* Nothing is on its way to or from a device that is gone.
AbsentInv == loop = "run" /\ ~present => Pipe = <<>>

BaseInv == ThreadsInv /\ ConnInv /\ ClientInv /\ AbsentInv

-----------------------------------------------------------------------------
(* What holds in a session that nothing has disturbed                      *)

\* Before there are clients, there is SYNC, and what the modem says by itself.
SyncInv ==
  main \in {"init", "sync"} => \A p \in DOMAIN Pipe : Pipe[p].kind \in {"SYNC", "IND"}

\* A request the proxy has not read is the one its client waits for.
InboxInv ==
  \A f \in Fds : inbox[f] # <<>> =>
    /\ conn[f] \in {"backlog", "open"}
    /\ client[f].wait # {}
    /\ \A r \in client[f].wait : inbox[f] = <<r>>

\* A message belongs to a client that is there, is not younger than its latest
\* request, and has the transaction id of the request it waits for only if it
\* is that request or its answer.
Belongs(m, state, c, unread) ==
  /\ m.fd \in Fds /\ state[m.fd] = "open" /\ m.tid <= c[m.fd].tid
  /\ unread[m.fd] # <<>> => m.tid < c[m.fd].tid
  /\ \A r \in c[m.fd].wait : m.tid = r.tid => m.n = r.n

OfCaller(m) == Belongs(m, conn, client, inbox)

\* A queued client id release is the only one for that id.
QueueInv ==
  /\ \A a \in DOMAIN ctlq :
       LET r == ctlq[a].msg
       IN /\ ctlq[a].fd = r.fd /\ OfCaller(r)
          /\ r.kind \in {"GET", "REL", "OTHER"} /\ ~r.rsp
          /\ r.kind # "REL" => r.id = 0
          /\ r.kind = "REL" => r.id \in ids[r.fd] \ client[r.fd].has
  /\ \A a, b \in DOMAIN ctlq :
       ctlq[a].msg.kind = "REL" /\ ctlq[b].msg.kind = "REL" /\ ctlq[a].msg.id = ctlq[b].msg.id
         => a = b
  /\ \A f \in Fds : inbox[f] # <<>> /\ inbox[f][1].kind = "REL" =>
       /\ inbox[f][1].id \in ids[f]
       /\ \A a \in DOMAIN ctlq : ctlq[a].msg.kind = "REL" => ctlq[a].msg.id # inbox[f][1].id

\* The one control message on its way is the queue's head or the answer to it.
ControlInv ==
  main = "serve" => \A p \in DOMAIN Pipe : Control(Pipe[p]) =>
    /\ \A q \in DOMAIN Pipe : Control(Pipe[q]) => q = p
    /\ ctlq # <<>>
    /\ LET r == Head(ctlq).msg
       IN /\ Pipe[p].kind = r.kind /\ Pipe[p].fd = r.fd
          /\ Pipe[p].n = r.n /\ Pipe[p].tid = r.tid
          /\ (r.kind = "GET" /\ Pipe[p].rsp) \/ Pipe[p].id = r.id

\* A client id is released after everything that was sent with it.
DataInv ==
  main = "serve" => \A p \in DOMAIN Pipe : Pipe[p].kind = "DATA" =>
    /\ OfCaller(Pipe[p])
    /\ Pipe[p].id \in ids[Pipe[p].fd]
    /\ \A q \in DOMAIN Pipe : Pipe[q].kind = "REL" /\ Pipe[q].id = Pipe[p].id => p < q

\* The modem has answered what comes from it and not what goes to it, except that
\* indications come from it and answer nothing.
AnsweredInv ==
  \A p \in DOMAIN Pipe : IF Pipe[p].kind = "IND" THEN ~Pipe[p].rsp /\ p <= Len(fromModem)
                                                 ELSE Pipe[p].rsp <=> p <= Len(fromModem)

\* Client ids that clients have are noted for their connections, one connection each.
IdsInv ==
  /\ \A f \in Fds : client[f].has \subseteq ids[f]
  /\ \A f, g \in Fds : f # g => ids[f] \cap ids[g] = {}

\* The modem does not give out an id that is noted for a connection.
AllocInv ==
  /\ present => \A f \in Fds : \A i \in ids[f] :
       i \in alloc \/ \E p \in DOMAIN Pipe : Pipe[p].rsp /\ Pipe[p].kind = "REL" /\ Pipe[p].id = i
  /\ \A p \in DOMAIN Pipe : Pipe[p].kind = "GET" =>
       Pipe[p].id = 0 \/ (Pipe[p].id \in alloc /\ \A f \in Fds : Pipe[p].id \notin ids[f])

SessionInv ==
  SyncInv /\ InboxInv /\ QueueInv /\ ControlInv /\ DataInv /\ AnsweredInv /\ IdsInv /\ AllocInv

\* When the proxy has died, its clients keep what they had been told.
CalmInv == calm => (loop = "run" => SessionInv) /\ (loop = "killed" => IdsInv)

IInv == TypeOK /\ BaseInv /\ CalmInv

-----------------------------------------------------------------------------
(* Types                                                                   *)

QueueEntry == [fd : Fds, msg : Message]
QueueType == Seq(QueueEntry)

\* One message, or entry, is taken from a queue, or put at its end.
LEMMA QueueSteps ==
  ASSUME NEW S, NEW q \in Seq(S)
  PROVE  /\ q # <<>> => Head(q) \in S /\ Tail(q) \in Seq(S) /\ q[1] = Head(q)
         /\ \A e \in S : Append(q, e) \in Seq(S)
OBVIOUS

\* A message alone is a sequence of messages.
LEMMA OneMessage == ASSUME NEW S, NEW e \in S PROVE <<e>> \in Seq(S)
OBVIOUS

\* The least of a set of positions.
LEMMA MinOfNats ==
  ASSUME NEW T \in SUBSET Nat, T # {}
  PROVE  Min(T) \in T
<1>1. PICK x \in T : \A y \in T : ~ (<<y, x>> \in OpToRel(<, Nat))
  BY NatLessThanWellFounded, WFMin
<1>2. \A y \in T : ~ (y < x) BY <1>1, Zenon DEF OpToRel
<1>3. \A y \in T : x =< y BY <1>2
<1>. QED BY <1>3 DEF Min

\* cleanup_qmi_connection takes at most one entry off the queue.
LEMMA RemoveType ==
  ASSUME NEW S, NEW q \in Seq(S), NEW f
  PROVE  Unqueued(q, f) \in Seq(S)
<1>. DEFINE I == {i \in 1..Len(q) : q[i].fd = f}
<1>1. CASE I = {} BY <1>1 DEF Unqueued, RemoveFirstMatch
<1>2. CASE I # {}
  <2>1. I \in SUBSET Nat OBVIOUS
  <2>2. Min(I) \in I BY <1>2, <2>1, MinOfNats, Zenon
  <2>3. \A m \in I : RemoveAt(q, m) \in Seq(S) BY DEF RemoveAt
  <2>4. SelectInSeq(q, LAMBDA e : e.fd = f) = Min(I) BY <1>2 DEF SelectInSeq
  <2>5. Unqueued(q, f) = RemoveAt(q, Min(I))
    BY <1>2, <2>4 DEF Unqueued, RemoveFirstMatch
  <2>. QED BY <2>2, <2>3, <2>5, Zenon
<1>. QED BY <1>1, <1>2

\* A connection without a queued request leaves the queue alone.
LEMMA RemoveNothing ==
  ASSUME NEW q, NEW f, \A i \in DOMAIN q : q[i].fd # f, DOMAIN q = 1..Len(q)
  PROVE  Unqueued(q, f) = q
BY DEF Unqueued, RemoveFirstMatch

ClientType == [wait : SUBSET Message, tid : Nat, has : SUBSET Ids]

\* A client that is told of an answer has at most one client id more.
LEMMA ToldType ==
  ASSUME NEW c \in ClientType, NEW m \in Message
  PROVE  Told(c, m) \in ClientType
BY DEF Told, Message, ClientType

\* What is forwarded changes clients and, by SIGPIPE, threads.
LEMMA ForwardType ==
  ASSUME TypeOK, NEW F, NEW m \in Message, Forward(F, m)
  PROVE  /\ main' \in {main, "killed"} /\ loop' \in {loop, "killed"}
         /\ client' \in [Fds -> ClientType]
<1>1. client \in [Fds -> ClientType] BY DEF TypeOK, ClientType
<1>2. \A f \in Fds : Told(client[f], m) \in ClientType BY <1>1, ToldType
<1>. QED BY <1>1, <1>2 DEF Forward

\* A message goes to the device, or is lost with it.
LEMMA WrittenType ==
  ASSUME TypeOK, NEW s \in Seq(Message) PROVE Written(s) \in Seq(Message)
BY DEF Written, TypeOK

\* What may go wrong costs one of the faults that are left.
LEMMA FaultType ==
  ASSUME TypeOK, Fault \/ Disturbed \/ Undisturbed
  PROVE  faults' \in 0..MaxFaults
BY BoundsAssumption DEF Fault, Disturbed, Undisturbed, TypeOK

SyncMessage == [kind |-> "SYNC", rsp |-> FALSE, fd |-> 0, n |-> 0, tid |-> 0, id |-> 0]

\* Empty queues have their types.
LEMMA EmptyType == <<>> \in Seq(Message) /\ <<>> \in QueueType
BY DEF QueueType, QueueEntry

\* The types when the proxy starts.
LEMMA TypeInit == Init => TypeOK
<1>. SUFFICES ASSUME Init PROVE TypeOK
  OBVIOUS
<1>1. sent \in 0..MaxRequests /\ faults \in 0..MaxFaults BY BoundsAssumption DEF Init
<1>2. client \in [Fds -> [wait : SUBSET Message, tid : Nat, has : SUBSET Ids]]
  BY DEF Init, NoClient
<1>. QED BY <1>1, <1>2, EmptyType DEF Init, TypeOK, QueueType, QueueEntry

\* The main thread.
LEMMA MainType == ASSUME TypeOK, Main PROVE TypeOK'
<1>. USE DEF proxy, links, modem, bounds
<1>1. CASE Open BY <1>1, EmptyType DEF Open, TypeOK, QueueType, QueueEntry
<1>2. CASE SendSync
  <2>1. <<SyncMessage>> \in Seq(Message) BY DEF SyncMessage, Message, Kinds, Requests
  <2>2. toModem' \in Seq(Message) BY <1>2, <2>1, WrittenType DEF SendSync, SyncMessage
  <2>3. faults' \in 0..MaxFaults /\ calm' \in BOOLEAN
    BY <1>2, FaultType DEF SendSync, Disturbed, Undisturbed, TypeOK
  <2>. QED BY <1>2, <2>2, <2>3 DEF SendSync, TypeOK
<1>3. CASE StartServer
  <2>3. faults' \in 0..MaxFaults /\ calm' \in BOOLEAN
    BY <1>3, FaultType DEF StartServer, Disturbed, Undisturbed, TypeOK
  <2>. QED BY <1>3, <2>3 DEF StartServer, TypeOK
<1>4. CASE CloseServer BY <1>4, EmptyType DEF CloseServer, TypeOK, NoClient
<1>. QED BY <1>1, <1>2, <1>3, <1>4 DEF Main

\* A client id is noted for a connection or removed from it.
LEMMA RegisteredType ==
  ASSUME TypeOK, NEW f \in Fds, NEW m \in Message
  PROVE  Registered(f, m) \in [Fds -> SUBSET Ids]
<1>1. m.id \in Ids \cup {0} BY DEF Message
<1>. QED BY <1>1 DEF Registered, TypeOK

\* What is sent of the queue is a message.
LEMMA HeadSentType ==
  ASSUME TypeOK, NEW q \in QueueType, HeadSent(q)
  PROVE  toModem' \in Seq(Message)
<1>1. q # <<>> => Head(q).msg \in Message
  <2>1. q # <<>> => Head(q) \in QueueEntry BY QueueSteps DEF QueueType
  <2>. QED BY <2>1 DEF QueueEntry
<1>2. q # <<>> => Written(<<Head(q).msg>>) \in Seq(Message) BY <1>1, OneMessage, WrittenType
<1>. QED BY <1>2 DEF HeadSent, TypeOK

\* What the loop thread reads from the device.
LEMMA ReceiveType == ASSUME TypeOK, Recv PROVE TypeOK'
<1>. USE DEF proxy, links, modem, bounds
<1>1. CASE RecvSync BY <1>1 DEF RecvSync, TypeOK
<1>2. CASE RecvCtl
  <2>. DEFINE m == Head(fromModem)
  <2>1. m \in Message /\ fromModem' \in Seq(Message) BY <1>2 DEF RecvCtl, TypeOK
  <2>2. CASE m.rsp /\ ctlq # <<>>
    <3>. DEFINE f == Head(ctlq).fd
    <3>1. ctlq \in QueueType BY DEF TypeOK, QueueType, QueueEntry
    <3>2. f \in Fds /\ Tail(ctlq) \in QueueType
      <4>1. Head(ctlq) \in QueueEntry /\ Tail(ctlq) \in Seq(QueueEntry)
        BY <2>2, <3>1, QueueSteps DEF QueueType
      <4>. QED BY <4>1 DEF QueueType, QueueEntry
    <3>3. /\ Forward({f} \cap {g \in Fds : Listed(g)}, m)
          /\ ids' = IF Listed(f) THEN Registered(f, m) ELSE ids
          /\ reset' = (reset \/ (Listed(f) /\ m.kind = "REVOKE"))
          /\ ctlq' = Tail(ctlq)
          /\ HeadSent(Tail(ctlq))
          /\ UNCHANGED <<sync, conn, inbox, alloc, present, bounds>>
      BY <1>2, <2>2 DEF RecvCtl
    <3>4. /\ main' \in {main, "killed"} /\ loop' \in {loop, "killed"}
          /\ client' \in [Fds -> ClientType]
      BY <2>1, <3>3, ForwardType
    <3>5. ids' \in [Fds -> SUBSET Ids] BY <2>1, <3>2, <3>3, RegisteredType DEF TypeOK
    <3>6. toModem' \in Seq(Message) BY <3>2, <3>3, HeadSentType
    <3>7. reset' \in BOOLEAN BY <3>3 DEF TypeOK
    <3>. QED BY <2>1, <3>2, <3>3, <3>4, <3>5, <3>6, <3>7 DEF TypeOK, ClientType, QueueType, QueueEntry
  <2>3. CASE ~(m.rsp /\ ctlq # <<>>)
    <3>1. HeadSent(ctlq) /\ UNCHANGED <<main, loop, client, ids, reset, ctlq>>
      BY <1>2, <2>3 DEF RecvCtl
    <3>2. toModem' \in Seq(Message) BY <3>1, HeadSentType DEF TypeOK, QueueType, QueueEntry
    <3>. QED BY <1>2, <2>1, <3>1, <3>2 DEF RecvCtl, TypeOK
  <2>. QED BY <2>2, <2>3
<1>3. CASE RecvData
  <2>1. Head(fromModem) \in Message /\ fromModem' \in Seq(Message) BY <1>3 DEF RecvData, TypeOK
  <2>0. PICK F \in Addressed(Head(fromModem)) : Forward(F, Head(fromModem)) BY <1>3 DEF RecvData
  <2>2. /\ main' \in {main, "killed"} /\ loop' \in {loop, "killed"}
        /\ client' \in [Fds -> ClientType]
    BY <2>0, <2>1, ForwardType
  <2>. QED BY <1>3, <2>1, <2>2 DEF RecvData, TypeOK, ClientType
<1>. QED BY <1>1, <1>2, <1>3 DEF Recv

\* The other steps of the loop thread.
LEMMA LoopType == ASSUME TypeOK, Loop PROVE TypeOK'
<1>. USE DEF proxy, links, modem, bounds
<1>1. CASE Recv BY <1>1, ReceiveType
<1>2. CASE LoopExits
  <2>1. NoClient \in ClientType BY DEF NoClient, ClientType
  <2>2. client' \in [Fds -> ClientType] BY <1>2, <2>1 DEF LoopExits, TypeOK, ClientType
  <2>3. conn' \in [Fds -> {"none", "backlog", "open", "hup"}] BY <1>2 DEF LoopExits, TypeOK
  <2>4. inbox' \in [Fds -> Seq(Message)] BY <1>2, EmptyType DEF LoopExits, TypeOK
  <2>. QED BY <1>2, <2>2, <2>3, <2>4, EmptyType DEF LoopExits, TypeOK, ClientType, QueueType, QueueEntry
<1>3. ASSUME NEW f \in Fds, Accept(f) PROVE TypeOK'
  BY <1>3 DEF Accept, TypeOK
<1>4. ASSUME NEW f \in Fds, ReadClient(f) PROVE TypeOK'
  <2>1. /\ inbox' = [inbox EXCEPT ![f] = <<>>]
        /\ UNCHANGED <<proxy, conn, ids, client, fromModem, alloc, present, bounds>>
        /\ \/ FromClient(f, inbox[f][1]) /\ Len(inbox[f]) = 1
           \/ UNCHANGED <<ctlq, toModem>>
    BY <1>4 DEF ReadClient
  <2>2. inbox' \in [Fds -> Seq(Message)] BY <2>1, EmptyType DEF TypeOK
  <2>3. ctlq' \in QueueType /\ toModem' \in Seq(Message)
    <3>1. CASE UNCHANGED <<ctlq, toModem>> BY <3>1 DEF TypeOK, QueueType, QueueEntry
    <3>2. CASE FromClient(f, inbox[f][1]) /\ Len(inbox[f]) = 1
      <4>. DEFINE r == inbox[f][1]
      <4>1. r \in Message
        <5>1. inbox[f] \in Seq(Message) BY DEF TypeOK
        <5>2. inbox[f] # <<>> BY <1>4 DEF ReadClient
        <5>. QED BY <5>1, <5>2, QueueSteps
      <4>2. Written(<<r>>) \in Seq(Message) BY <4>1, OneMessage, WrittenType
      <4>3. toModem' \in {toModem, Written(<<r>>)} BY <3>2 DEF FromClient
      <4>4. ctlq' = ctlq \/ ctlq' = Append(ctlq, [fd |-> f, msg |-> r]) BY <3>2 DEF FromClient
      <4>. HIDE DEF r
      <4>5. [fd |-> f, msg |-> r] \in QueueEntry BY <4>1 DEF QueueEntry
      <4>6. ctlq \in QueueType BY DEF TypeOK, QueueType, QueueEntry
      <4>7. ctlq' \in QueueType BY <4>4, <4>5, <4>6, QueueSteps DEF QueueType
      <4>. QED BY <4>2, <4>3, <4>7 DEF TypeOK
    <3>. QED BY <2>1, <3>1, <3>2
  <2>. QED BY <2>1, <2>2, <2>3 DEF TypeOK, QueueType, QueueEntry
<1>5. ASSUME NEW f \in Fds, Cleanup(f) PROVE TypeOK'
  <2>1. NoClient \in ClientType BY DEF NoClient, ClientType
  <2>2. client' \in [Fds -> ClientType] BY <1>5, <2>1 DEF Cleanup, TypeOK, ClientType
  <2>3. inbox' \in [Fds -> Seq(Message)] BY <1>5, EmptyType DEF Cleanup, TypeOK
  <2>4. ctlq' \in QueueType
    <3>1. ctlq \in Seq(QueueEntry) BY DEF TypeOK, QueueEntry
    <3>. QED BY <1>5, <3>1, RemoveType DEF Cleanup, QueueType
  <2>5. /\ conn' = [conn EXCEPT ![f] = "none"] /\ ids' = [ids EXCEPT ![f] = {}]
        /\ UNCHANGED <<proxy, modem, bounds>>
    BY <1>5, Zenon DEF Cleanup
  <2>. QED BY <2>2, <2>3, <2>4, <2>5 DEF TypeOK, ClientType, QueueType, QueueEntry
<1>. QED BY <1>1, <1>2, <1>3, <1>4, <1>5 DEF Loop

\* Clients.
LEMMA ClientsType == ASSUME TypeOK, Clients PROVE TypeOK'
<1>. USE DEF proxy, links, modem, bounds
<1>1. ASSUME NEW f \in Fds, Connect(f) PROVE TypeOK'
  BY <1>1 DEF Connect, TypeOK
<1>2. ASSUME NEW f \in Fds, GiveUp(f) PROVE TypeOK'
  <2>1. faults' \in 0..MaxFaults /\ calm' \in BOOLEAN
    BY <1>2, FaultType DEF GiveUp, Disturbed, TypeOK
  <2>. QED BY <1>2, <2>1 DEF GiveUp, TypeOK
<1>3. ASSUME NEW f \in Fds, Close(f) PROVE TypeOK'
  <2>1. faults' \in 0..MaxFaults /\ calm' \in BOOLEAN
    BY <1>3, FaultType DEF Close, Disturbed, Undisturbed, TypeOK
  <2>. QED BY <1>3, <2>1 DEF Close, TypeOK
<1>4. ASSUME NEW f \in Fds, NEW k \in Requests, NEW i \in Ids \cup {0}, Request(f, k, i)
      PROVE  TypeOK'
  <2>. DEFINE r == [kind |-> k, rsp |-> FALSE, fd |-> f, n |-> sent + 1,
                    tid |-> client[f].tid + 1, id |-> i]
  <2>1. r \in Message BY BoundsAssumption DEF Message, Kinds, TypeOK
  <2>2. client' \in [Fds -> ClientType] BY <1>4, <2>1 DEF Request, TypeOK, ClientType
  <2>3. inbox' = [inbox EXCEPT ![f] = Append(@, r)] BY <1>4 DEF Request
  <2>4. Append(inbox[f], r) \in Seq(Message) BY <2>1 DEF TypeOK
  <2>5. inbox' \in [Fds -> Seq(Message)] BY <2>3, <2>4 DEF TypeOK
  <2>6. sent' \in 0..MaxRequests BY <1>4, BoundsAssumption DEF Request, TypeOK
  <2>. QED BY <1>4, <2>2, <2>5, <2>6 DEF Request, TypeOK, ClientType
<1>. QED BY <1>1, <1>2, <1>3, <1>4 DEF Clients

\* The modem.
LEMMA ModemType == ASSUME TypeOK, Modem PROVE TypeOK'
<1>. USE DEF proxy, links, modem, bounds
<1>1. CASE Answer
  <2>. DEFINE r == [Head(toModem) EXCEPT !.rsp = TRUE]
  <2>1. Head(toModem) \in Message /\ toModem' \in Seq(Message)
    BY <1>1, QueueSteps DEF Answer, TypeOK
  <2>2. r \in Message BY <2>1 DEF Message
  <2>3. \A i \in Ids : [r EXCEPT !.id = i] \in Message BY <2>2 DEF Message
  <2>4. fromModem' \in Seq(Message) /\ alloc' \in SUBSET Ids
    <3>1. CASE r.kind = "GET" /\ alloc # Ids
      <4>1. PICK i \in Ids \ alloc : /\ alloc' = alloc \cup {i}
                                    /\ fromModem' = Append(fromModem, [r EXCEPT !.id = i])
        BY <1>1, <3>1 DEF Answer
      <4>. HIDE DEF r
      <4>. QED BY <2>3, <4>1, QueueSteps DEF TypeOK
    <3>2. CASE ~(r.kind = "GET" /\ alloc # Ids)
      <4>1. /\ alloc' = CASE r.kind = "SYNC" -> {}
                          [] r.kind = "REL" -> alloc \ {r.id}
                          [] OTHER -> alloc
            /\ fromModem' = Append(fromModem, r)
        BY <1>1, <3>2 DEF Answer
      <4>. HIDE DEF r
      <4>. QED BY <2>2, <4>1, QueueSteps DEF TypeOK
    <3>. QED BY <3>1, <3>2
  <2>. QED BY <1>1, <2>1, <2>4 DEF Answer, TypeOK
<1>2. CASE Ignore
  <2>1. faults' \in 0..MaxFaults /\ calm' \in BOOLEAN
    BY <1>2, FaultType DEF Ignore, Disturbed, TypeOK
  <2>. QED BY <1>2, <2>1 DEF Ignore, TypeOK
<1>3. CASE Revoke
  <2>. DEFINE r == [kind |-> "REVOKE", rsp |-> FALSE, fd |-> 0, n |-> 0, tid |-> 0, id |-> 0]
  <2>1. r \in Message BY DEF Message, Kinds, Requests
  <2>2. faults' \in 0..MaxFaults /\ calm' \in BOOLEAN
    BY <1>3, FaultType DEF Revoke, Disturbed
  <2>. QED BY <1>3, <2>1, <2>2 DEF Revoke, TypeOK
<1>4. CASE Unplug
  <2>1. faults' \in 0..MaxFaults BY <1>4, FaultType DEF Unplug
  <2>. QED BY <1>4, <2>1, EmptyType DEF Unplug, TypeOK
<1>5. CASE Replug BY <1>5 DEF Replug, TypeOK
<1>6. CASE Indicate
  <2>. DEFINE r == [kind |-> "IND", rsp |-> FALSE, fd |-> 0, n |-> 0, tid |-> 0, id |-> 0]
  <2>1. r \in Message BY DEF Message, Kinds, Requests
  <2>. QED BY <1>6, <2>1 DEF Indicate, TypeOK
<1>. QED BY <1>1, <1>2, <1>3, <1>4, <1>5, <1>6 DEF Modem

\* Every step keeps the types.
LEMMA TypeStep == ASSUME TypeOK, [Next]_vars PROVE TypeOK'
<1>1. CASE UNCHANGED vars
  BY <1>1 DEF vars, proxy, links, modem, bounds, TypeOK
<1>. QED BY <1>1, MainType, LoopType, ClientsType, ModemType DEF Next

\* What the variables of the proxy can hold.
THEOREM TypeCorrect == Spec => []TypeOK
BY TypeInit, TypeStep, PTL DEF Spec

-----------------------------------------------------------------------------
(* The invariant of every session                                          *)

\* A message leaves a client as it is, or is the answer to the request it waits
\* for; only the answer to a GET brings a client id, its own.
LEMMA ToldClient ==
  ASSUME NEW c \in ClientType, NEW m \in Message
  PROVE  \/ Told(c, m) = c
         \/ /\ Accepts(c, m) /\ Told(c, m).wait = {} /\ Told(c, m).tid = c.tid
            /\ Told(c, m).has = IF m.kind = "GET" THEN c.has \cup ({m.id} \ {0}) ELSE c.has
BY DEF Told, ClientType

\* Forwarding reaches the clients of the set only, and kills the proxy only by a
\* connection that its client has closed.
LEMMA ForwardClients ==
  ASSUME TypeOK, NEW F \in SUBSET Fds, NEW m \in Message, Forward(F, m)
  PROVE  /\ \A f \in Fds :
              \/ client'[f] = client[f]
              \/ /\ f \in F /\ Accepts(client[f], m) /\ main' = main
                 /\ client'[f].wait = {} /\ client'[f].tid = client[f].tid
                 /\ client'[f].has = IF m.kind = "GET" THEN client[f].has \cup ({m.id} \ {0})
                                                       ELSE client[f].has
         /\ \/ main' = main /\ loop' = loop
            \/ main' = "killed" /\ loop' = "killed" /\ \E f \in F : conn[f] = "hup"
<1>1. \A f \in Fds : client[f] \in ClientType BY DEF TypeOK, ClientType
<1>2. CASE \E f \in F : conn[f] = "hup" BY <1>2 DEF Forward
<1>3. CASE ~\E f \in F : conn[f] = "hup"
  <2>1. /\ client' = [f \in Fds |-> IF f \in F THEN Told(client[f], m) ELSE client[f]]
        /\ main' = main /\ loop' = loop
    BY <1>3 DEF Forward
  <2>. QED BY <1>1, <2>1, ToldClient
<1>. QED BY <1>2, <1>3

\* An answer that a client takes leaves it in order.
LEMMA ToldInv ==
  ASSUME TypeOK, ClientInv, NEW F \in SUBSET Fds, NEW m \in Message, Forward(F, m)
  PROVE  ClientInv'
<1>. SUFFICES ASSUME NEW f \in Fds, NEW r \in client'[f].wait
              PROVE  client'[f] = client[f]
  BY DEF ClientInv
<1>. QED BY ForwardClients

\* When the proxy starts there is no device, no loop and no connection.
LEMMA BaseInit == Init => BaseInv
BY DEF Init, BaseInv, ThreadsInv, ConnInv, ClientInv, AbsentInv, NoClient, Listed

\* The main thread.
LEMMA MainBase == ASSUME TypeOK, BaseInv, Main PROVE BaseInv'
<1>. USE DEF BaseInv, proxy, links, modem, bounds
<1>1. CASE Open
  BY <1>1 DEF Open, ThreadsInv, ConnInv, ClientInv, AbsentInv, Pipe, Listed
<1>2. CASE SendSync
  <2>1. Pipe = <<>> /\ ~present => Pipe' = <<>> BY <1>2 DEF SendSync, Written, Pipe
  <2>. QED BY <1>2, <2>1 DEF SendSync, ThreadsInv, ConnInv, ClientInv, AbsentInv, Listed
<1>3. CASE StartServer
  BY <1>3 DEF StartServer, ThreadsInv, ConnInv, ClientInv, AbsentInv, Pipe, Listed
<1>4. CASE CloseServer
  BY <1>4 DEF CloseServer, ThreadsInv, ConnInv, ClientInv, AbsentInv, Pipe, Listed, NoClient, TypeOK
<1>. QED BY <1>1, <1>2, <1>3, <1>4 DEF Main

\* Nothing is on its way exactly when both queues are empty.
LEMMA PipeEmpty ==
  ASSUME TypeOK
  PROVE  Pipe = <<>> <=> fromModem = <<>> /\ toModem = <<>>
BY ConcatEqualIffEmpty DEF TypeOK, Pipe

\* What the device thread of the proxy reads.
LEMMA ReceiveBase == ASSUME TypeOK, BaseInv, Recv PROVE BaseInv'
<1>. USE DEF BaseInv, proxy, links, modem, bounds
<1>0. loop = "run" /\ present
  BY PipeEmpty DEF Recv, RecvSync, RecvCtl, RecvData, AbsentInv
<1>1. CASE RecvSync
  BY <1>0, <1>1 DEF RecvSync, ThreadsInv, ConnInv, ClientInv, AbsentInv, Listed
<1>2. CASE RecvCtl
  <2>. DEFINE m == Head(fromModem)
  <2>0. m \in Message /\ main = "serve" BY <1>2, QueueSteps DEF RecvCtl, TypeOK
  <2>1. CASE m.rsp /\ ctlq # <<>>
    <3>. DEFINE f == Head(ctlq).fd
                F == {f} \cap {g \in Fds : Listed(g)}
    <3>1. /\ Forward(F, m)
          /\ ids' = IF Listed(f) THEN Registered(f, m) ELSE ids
          /\ UNCHANGED <<conn, inbox, present>>
      BY <1>2, <2>1 DEF RecvCtl
    <3>2. ClientInv' BY <2>0, <3>1, ToldInv
    <3>3. \A g \in Fds : g # f => ids'[g] = ids[g]
      BY <3>1 DEF Registered, TypeOK
    <3>4. \A g \in Fds : ~Listed(g) => ids'[g] = {}
      BY <3>1, <3>3 DEF ConnInv
    <3>5. /\ \A g \in Fds : client'[g] = client[g] \/ Listed(g)
          /\ \/ main' = main /\ loop' = loop
             \/ main' = "killed" /\ loop' = "killed"
      <4>1. F \in SUBSET Fds /\ \A g \in F : Listed(g) OBVIOUS
      <4>. HIDE DEF F, m
      <4>. QED BY <2>0, <3>1, <4>1, ForwardClients
    <3>6. ThreadsInv' BY <3>5 DEF ThreadsInv
    <3>7. ConnInv' BY <1>0, <2>0, <3>1, <3>4, <3>5 DEF ConnInv, Listed
    <3>. QED BY <1>0, <3>1, <3>2, <3>6, <3>7 DEF AbsentInv
  <2>2. CASE ~(m.rsp /\ ctlq # <<>>)
    BY <1>0, <1>2, <2>2 DEF RecvCtl, ThreadsInv, ConnInv, ClientInv, AbsentInv, Listed
  <2>. QED BY <2>1, <2>2
<1>3. CASE RecvData
  <2>. DEFINE m == Head(fromModem)
  <2>0. m \in Message /\ main = "serve" BY <1>3, QueueSteps DEF RecvData, TypeOK
  <2>1. PICK F \in Addressed(m) : Forward(F, m) BY <1>3 DEF RecvData
  <2>6. UNCHANGED <<conn, ids, inbox, ctlq, present>> BY <1>3 DEF RecvData
  <2>7. F \in SUBSET Fds BY <2>1 DEF Addressed
  <2>2. ClientInv' BY <2>0, <2>1, <2>7, ToldInv
  <2>3. /\ \A g \in Fds : client'[g] = client[g] \/ Listed(g)
        /\ \/ main' = main /\ loop' = loop
           \/ main' = "killed" /\ loop' = "killed"
    <3>1. F \in SUBSET Fds /\ \A g \in F : Listed(g) BY <2>1 DEF Addressed
    <3>. HIDE DEF m
    <3>. QED BY <2>0, <2>1, <3>1, ForwardClients
  <2>4. ThreadsInv' BY <2>3 DEF ThreadsInv
  <2>5. ConnInv' BY <1>0, <2>0, <2>6, <2>3 DEF ConnInv, Listed
  <2>. QED BY <1>0, <2>6, <2>2, <2>4, <2>5 DEF AbsentInv
<1>. QED BY <1>1, <1>2, <1>3 DEF Recv

\* The other steps of the loop thread.
LEMMA LoopBase == ASSUME TypeOK, BaseInv, Loop PROVE BaseInv'
<1>. USE DEF BaseInv, proxy, links, modem, bounds
<1>1. CASE Recv BY <1>1, ReceiveBase
<1>2. CASE LoopExits
  <2>1. /\ loop = "run" /\ loop' = "ended" /\ main' = main /\ ctlq' = <<>>
        /\ conn' = [f \in Fds |-> IF Listed(f) THEN "none" ELSE conn[f]]
        /\ ids' = [f \in Fds |-> {}]
        /\ inbox' = [f \in Fds |-> IF Listed(f) THEN <<>> ELSE inbox[f]]
        /\ client' = [f \in Fds |-> IF Listed(f) THEN NoClient ELSE client[f]]
    BY <1>2 DEF LoopExits
  <2>2. \A f \in Fds : conn'[f] \notin {"open", "hup"} BY <2>1 DEF Listed
  <2>3. ConnInv' BY <2>1, <2>2 DEF ConnInv, Listed
  <2>4. ClientInv' BY <2>1 DEF ClientInv, NoClient
  <2>5. main # "closed" /\ main # "killed" BY <2>1 DEF ThreadsInv
  <2>. QED BY <2>1, <2>3, <2>4, <2>5 DEF ThreadsInv, AbsentInv
<1>3. ASSUME NEW f \in Fds, Accept(f) PROVE BaseInv'
  BY <1>3 DEF Accept, ThreadsInv, ConnInv, ClientInv, AbsentInv, Listed, Pipe, TypeOK
<1>4. ASSUME NEW f \in Fds, ReadClient(f) PROVE BaseInv'
  <2>1. /\ loop = "run" /\ conn[f] = "open" /\ inbox' = [inbox EXCEPT ![f] = <<>>]
        /\ UNCHANGED <<proxy, conn, ids, client, fromModem, alloc, present, bounds>>
    BY <1>4 DEF ReadClient
  <2>2. ~present => toModem' = toModem BY <1>4 DEF ReadClient, FromClient, Written
  <2>3. ConnInv' BY <2>1 DEF ConnInv, Listed, TypeOK
  <2>. QED BY <2>1, <2>2, <2>3 DEF ThreadsInv, ClientInv, AbsentInv, Pipe
<1>5. ASSUME NEW f \in Fds, Cleanup(f) PROVE BaseInv'
  <2>1. /\ loop = "run" /\ conn[f] = "hup" /\ conn' = [conn EXCEPT ![f] = "none"]
        /\ ids' = [ids EXCEPT ![f] = {}] /\ inbox' = [inbox EXCEPT ![f] = <<>>]
        /\ client' = [client EXCEPT ![f] = NoClient]
        /\ UNCHANGED <<proxy, modem, bounds>>
    BY <1>5 DEF Cleanup
  <2>2. main = "serve" BY <2>1 DEF ThreadsInv, ConnInv, TypeOK
  <2>3. ConnInv' BY <2>1, <2>2 DEF ConnInv, Listed, TypeOK
  <2>4. ClientInv' BY <2>1 DEF ClientInv, NoClient, TypeOK
  <2>. QED BY <2>1, <2>3, <2>4 DEF ThreadsInv, AbsentInv, Pipe
<1>. QED BY <1>1, <1>2, <1>3, <1>4, <1>5 DEF Loop

\* Clients.
LEMMA ClientsBase == ASSUME TypeOK, BaseInv, Clients PROVE BaseInv'
<1>. USE DEF BaseInv, proxy, links, modem, bounds
<1>1. ASSUME NEW f \in Fds, Connect(f) PROVE BaseInv'
  BY <1>1 DEF Connect, ThreadsInv, ConnInv, ClientInv, AbsentInv, Listed, Pipe, TypeOK
<1>2. ASSUME NEW f \in Fds, GiveUp(f) PROVE BaseInv'
  <2>1. /\ client' = [client EXCEPT ![f].wait = {}] /\ client[f].wait # {}
        /\ UNCHANGED <<proxy, conn, ids, inbox, ctlq, modem, sent>>
    BY <1>2 DEF GiveUp
  <2>2. conn[f] # "none" BY <2>1 DEF ConnInv, NoClient
  <2>3. \A g \in Fds \ {f} : client'[g] = client[g] BY <2>1 DEF TypeOK
  <2>4. ConnInv' BY <2>1, <2>2, <2>3 DEF ConnInv, Listed
  <2>5. client'[f].wait = {} BY <2>1 DEF TypeOK
  <2>6. ClientInv' BY <2>3, <2>5 DEF ClientInv
  <2>. QED BY <2>1, <2>4, <2>6 DEF ThreadsInv, AbsentInv, Pipe
<1>3. ASSUME NEW f \in Fds, Close(f) PROVE BaseInv'
  <2>1. /\ conn[f] = "open" /\ conn' = [conn EXCEPT ![f] = "hup"]
        /\ UNCHANGED <<proxy, ids, inbox, client, ctlq, modem, sent>>
    BY <1>3 DEF Close
  <2>2. ConnInv'
    <3>1. \A g \in Fds : /\ Listed(g)' <=> Listed(g)
                         /\ conn'[g] = "none" <=> conn[g] = "none"
      BY <2>1 DEF Listed, TypeOK
    <3>. QED BY <2>1, <3>1 DEF ConnInv
  <2>3. ClientInv' BY <2>1 DEF ClientInv
  <2>. QED BY <2>1, <2>2, <2>3 DEF ThreadsInv, AbsentInv, Pipe
<1>4. ASSUME NEW f \in Fds, NEW k \in Requests, NEW i \in Ids \cup {0}, Request(f, k, i)
      PROVE  BaseInv'
  <2>. DEFINE r == [kind |-> k, rsp |-> FALSE, fd |-> f, n |-> sent + 1,
                    tid |-> client[f].tid + 1, id |-> i]
              c == [wait |-> {r}, tid |-> r.tid,
                    has |-> IF k = "REL" THEN client[f].has \ {i} ELSE client[f].has]
  <2>1. /\ conn[f] \in {"backlog", "open"}
        /\ i \in (IF k \in {"REL", "DATA"} THEN client[f].has ELSE {0})
        /\ client' = [client EXCEPT ![f] = c]
        /\ inbox' = [inbox EXCEPT ![f] = Append(@, r)]
        /\ UNCHANGED <<proxy, conn, ids, ctlq, modem, faults, calm>>
    BY <1>4 DEF Request
  <2>2. ConnInv' BY <2>1 DEF ConnInv, Listed, NoClient, TypeOK
  <2>3. ClientInv'
    <3>1. client'[f] = c BY <2>1 DEF TypeOK
    <3>2. \A g \in Fds \ {f} : client'[g] = client[g] BY <2>1 DEF TypeOK
    <3>3. k \in {"SYNC", "GET", "REL", "OTHER", "DATA"} BY DEF Requests
    <3>4. \A q \in client'[f].wait : q = r BY <3>1
    <3>5. /\ client'[f].wait = {r} /\ client'[f].tid = r.tid
          /\ client'[f].has = IF k = "REL" THEN client[f].has \ {i} ELSE client[f].has
      BY <3>1
    <3>6. /\ r.fd = f /\ ~r.rsp /\ r.kind = k /\ r.id = i
          /\ k = "DATA" => i \in client[f].has
          /\ k \notin {"DATA", "REL"} => i = 0
      BY <2>1
    <3>. HIDE DEF r, c
    <3>. QED BY <3>2, <3>3, <3>4, <3>5, <3>6 DEF ClientInv
  <2>. QED BY <2>1, <2>2, <2>3 DEF ThreadsInv, AbsentInv, Pipe
<1>. QED BY <1>1, <1>2, <1>3, <1>4 DEF Clients

\* The modem.
LEMMA ModemBase == ASSUME TypeOK, BaseInv, Modem PROVE BaseInv'
<1>. USE DEF BaseInv, proxy, links, modem, bounds
<1>1. CASE Answer \/ Ignore \/ Revoke \/ Indicate
  <2>1. /\ loop = "run" => present'
        /\ UNCHANGED <<main, loop, conn, ids, inbox, client, ctlq>>
    <3>1. present \/ (fromModem = <<>> /\ toModem = <<>>) \/ loop # "run"
      BY PipeEmpty DEF AbsentInv
    <3>2. present \/ loop # "run" BY <1>1, <3>1 DEF Answer, Ignore, Revoke, Indicate
    <3>3. UNCHANGED <<main, loop, conn, ids, inbox, client, ctlq, present>>
      <4>1. CASE Answer BY <4>1 DEF Answer
      <4>2. CASE Ignore BY <4>2 DEF Ignore
      <4>3. CASE Revoke BY <4>3 DEF Revoke
      <4>4. CASE Indicate BY <4>4 DEF Indicate
      <4>. QED BY <1>1, <4>1, <4>2, <4>3, <4>4
    <3>. QED BY <3>2, <3>3
  <2>. QED BY <2>1 DEF ThreadsInv, ConnInv, ClientInv, AbsentInv, Listed
<1>2. CASE Unplug
  BY <1>2 DEF Unplug, ThreadsInv, ConnInv, ClientInv, AbsentInv, Listed, Pipe
<1>3. CASE Replug
  BY <1>3 DEF Replug, ThreadsInv, ConnInv, ClientInv, AbsentInv, Listed, Pipe
<1>. QED BY <1>1, <1>2, <1>3 DEF Modem

\* Every step keeps threads, connections and clients in order.
LEMMA BaseStep == ASSUME TypeOK, BaseInv, [Next]_vars PROVE BaseInv'
<1>1. CASE UNCHANGED vars
  BY <1>1 DEF vars, proxy, links, modem, bounds, BaseInv, ThreadsInv, ConnInv, ClientInv,
              AbsentInv, Listed, Pipe
<1>. QED BY <1>1, MainBase, LoopBase, ClientsBase, ModemBase DEF Next

-----------------------------------------------------------------------------
(* The invariant of a session that nothing has disturbed                   *)

\* A session that is served and was not disturbed.
Calm == TypeOK /\ BaseInv /\ calm /\ main # "killed" /\ loop = "run" /\ SessionInv

\* Positions and lengths of what is on its way.
LEMMA PipeType ==
  ASSUME TypeOK
  PROVE  /\ Pipe \in Seq(Message) /\ Len(Pipe) = Len(fromModem) + Len(toModem)
         /\ DOMAIN Pipe = 1..Len(Pipe) /\ Len(fromModem) \in Nat /\ Len(toModem) \in Nat
BY DEF TypeOK, Pipe

\* Positions are numbers, after a step as well.
LEMMA PipeDomain ==
  ASSUME TypeOK'
  PROVE  \A p \in DOMAIN Pipe' : p \in Nat
BY DEF TypeOK, Pipe

\* What is taken from the front.
LEMMA PipeTaken ==
  ASSUME TypeOK, fromModem # <<>>, NEW P, P = Tail(fromModem) \o toModem
  PROVE  /\ P \in Seq(Message) /\ Len(Pipe) = Len(P) + 1
         /\ \A p \in 1..Len(P) : P[p] = Pipe[p + 1]
         /\ 1 \in DOMAIN Pipe /\ Pipe[1] = Head(fromModem)
         /\ Len(Tail(fromModem)) = Len(fromModem) - 1
BY DEF TypeOK, Pipe

\* What is put at the end.
LEMMA PipePut ==
  ASSUME NEW S, NEW s \in Seq(S), NEW t \in Seq(S), NEW m \in S, NEW P, P = s \o (t \o <<m>>)
  PROVE  /\ P \in Seq(S) /\ Len(P) = Len(s \o t) + 1 /\ P[Len(P)] = m
         /\ \A p \in 1..Len(s \o t) : P[p] = (s \o t)[p]
OBVIOUS

\* What is left when the first message of the second part is gone.
LEMMA PutBack ==
  ASSUME NEW S, NEW s \in Seq(S), NEW t \in Seq(S), t # <<>>
  PROVE  \A p \in DOMAIN (s \o Tail(t)) :
           \/ p \in DOMAIN (s \o t) /\ (s \o Tail(t))[p] = (s \o t)[p] /\ p <= Len(s)
           \/ /\ p + 1 \in DOMAIN (s \o t) /\ (s \o Tail(t))[p] = (s \o t)[p + 1]
              /\ ~(p <= Len(s)) /\ ~(p + 1 <= Len(s))
OBVIOUS

\* P is Q with m put in as its n-th element.
PutIn(P, Q, n, m) ==
  /\ n \in Nat /\ n \in DOMAIN P /\ P[n] = m
  /\ \A p \in DOMAIN P : p \in Nat
  /\ \A p \in DOMAIN P : p < n => p \in DOMAIN Q /\ P[p] = Q[p]
  /\ \A p \in DOMAIN P : p > n => p - 1 \in DOMAIN Q /\ P[p] = Q[p - 1]
  /\ \A p \in DOMAIN Q : \E q \in DOMAIN P : P[q] = Q[p]

\* What is put between two parts.
LEMMA PutBetween ==
  ASSUME NEW S, NEW s \in Seq(S), NEW t \in Seq(S), NEW m \in S
  PROVE  PutIn(Append(s, m) \o t, s \o t, Len(s) + 1, m)
<1>. DEFINE P == Append(s, m) \o t
            Q == s \o t
<1>1. /\ DOMAIN P = 1..(Len(s) + 1 + Len(t)) /\ DOMAIN Q = 1..(Len(s) + Len(t))
      /\ Len(s) \in Nat /\ Len(t) \in Nat
  OBVIOUS
<1>2. /\ P[Len(s) + 1] = m
      /\ \A p \in 1..Len(s) : P[p] = s[p] /\ Q[p] = s[p]
      /\ \A p \in 1..Len(t) : P[Len(s) + 1 + p] = t[p] /\ Q[Len(s) + p] = t[p]
  OBVIOUS
<1>3. ASSUME NEW p \in 1..(Len(s) + Len(t)), p > Len(s) PROVE P[p + 1] = Q[p]
  <2>1. p - Len(s) \in 1..Len(t) BY <1>1, <1>3
  <2>2. P[Len(s) + 1 + (p - Len(s))] = Q[Len(s) + (p - Len(s))] BY <1>2, <2>1
  <2>3. Len(s) + 1 + (p - Len(s)) = p + 1 /\ Len(s) + (p - Len(s)) = p BY <1>1
  <2>. QED BY <2>2, <2>3
<1>4. \A p \in 1..Len(s) : P[p] = Q[p] BY <1>2
<1>5. ASSUME NEW p \in DOMAIN P, p > Len(s) + 1 PROVE p - 1 \in DOMAIN Q /\ P[p] = Q[p - 1]
  <2>1. p - 1 \in 1..(Len(s) + Len(t)) /\ p - 1 > Len(s) /\ (p - 1) + 1 = p BY <1>1, <1>5
  <2>2. P[p] = Q[p - 1] BY <1>3, <2>1
  <2>. QED BY <1>1, <2>1, <2>2
<1>8. \A p \in DOMAIN P : p < Len(s) + 1 => p \in DOMAIN Q /\ P[p] = Q[p] BY <1>1, <1>4
<1>6. ASSUME NEW p \in DOMAIN Q PROVE \E q \in DOMAIN P : P[q] = Q[p]
  <2>1. CASE p <= Len(s) BY <1>1, <1>4, <2>1
  <2>2. CASE p > Len(s)
    <3>1. p + 1 \in DOMAIN P /\ P[p + 1] = Q[p] BY <1>1, <1>3, <2>2
    <3>. QED BY <3>1
  <2>. QED BY <1>1, <2>1, <2>2
<1>9. Len(s) + 1 \in DOMAIN P /\ \A p \in DOMAIN P : p \in Nat BY <1>1
<1>. HIDE DEF P, Q
<1>7. PutIn(P, Q, Len(s) + 1, m) BY <1>1, <1>2, <1>5, <1>6, <1>8, <1>9 DEF PutIn
<1>. QED BY <1>7 DEF P, Q

\* A SYNC on its way is one that SendSync and StartServer see.
LEMMA SyncSeen ==
  ASSUME TypeOK, NEW p \in DOMAIN Pipe, Pipe[p].kind = "SYNC"
  PROVE  SyncPending
<1>1. CASE p <= Len(fromModem)
  <2>1. p \in DOMAIN fromModem /\ fromModem[p] = Pipe[p] BY <1>1, PipeType DEF TypeOK, Pipe
  <2>. QED BY <2>1 DEF SyncPending
<1>2. CASE p > Len(fromModem)
  <2>1. /\ p - Len(fromModem) \in DOMAIN toModem
        /\ toModem[p - Len(fromModem)] = Pipe[p]
    BY <1>2, PipeType DEF TypeOK, Pipe
  <2>. QED BY <2>1 DEF SyncPending
<1>. QED BY <1>1, <1>2, PipeType

\* A device is opened with nothing left of the last session.
LEMMA OpenCalm ==
  ASSUME TypeOK, BaseInv, Open PROVE SessionInv'
<1>1. /\ main = "closed" /\ main' = "init" /\ loop = "none" /\ ctlq' = <<>> /\ Pipe' = <<>>
      /\ UNCHANGED links
  BY DEF Open, BaseInv, ThreadsInv, Pipe
<1>2. \A f \in Fds : conn[f] = "none" /\ ids[f] = {} /\ client[f] = NoClient /\ inbox[f] = <<>>
  BY <1>1 DEF BaseInv, ConnInv, Listed
<1>3. DOMAIN Pipe' = {} /\ DOMAIN ctlq' = {} BY <1>1
<1>. QED BY <1>1, <1>2, <1>3 DEF links, SessionInv, SyncInv, InboxInv, QueueInv, ControlInv,
           DataInv, AnsweredInv, IdsInv, AllocInv, NoClient

\* Before there are clients, all that can be wrong is the SYNC.
LEMMA NoClients ==
  ASSUME Calm, main' \in {"init", "sync", "serve"},
         UNCHANGED <<links, ctlq>>, main \in {"init", "sync"}, AnsweredInv',
         \A p \in DOMAIN Pipe' : \/ Pipe'[p].kind = "IND"
                                 \/ Pipe'[p].kind = "SYNC" /\ main' # "serve"
  PROVE  SessionInv'
<1>1. \A f \in Fds : conn[f] = "none" /\ ids[f] = {} /\ client[f] = NoClient /\ inbox[f] = <<>>
  BY DEF Calm, BaseInv, ConnInv, Listed
<1>2. ctlq = <<>> BY DEF Calm, BaseInv, ConnInv
<1>3. InboxInv' /\ IdsInv' BY <1>1 DEF links, InboxInv, IdsInv, NoClient
<1>4. QueueInv' BY <1>1, <1>2 DEF links, QueueInv
<1>5. SyncInv' /\ ControlInv' /\ DataInv' BY DEF SyncInv, ControlInv, DataInv, Control
<1>6. AllocInv' BY <1>1 DEF links, AllocInv
<1>. QED BY <1>3, <1>4, <1>5, <1>6 DEF SessionInv

\* A SYNC is sent behind what is on its way.
LEMMA SendSyncCalm == ASSUME Calm, SendSync, calm' PROVE SessionInv'
<1>1. /\ main \in {"init", "sync"} /\ main' = "sync" /\ fromModem' = fromModem
      /\ toModem' \in {toModem, toModem \o <<SyncMessage>>} /\ UNCHANGED <<links, ctlq>>
  BY DEF SendSync, Written, SyncMessage
<1>2. /\ fromModem \in Seq(Message) /\ toModem \in Seq(Message) /\ SyncMessage \in Message
  BY DEF Calm, TypeOK, SyncMessage, Message, Kinds, Requests
<1>3. \A p \in DOMAIN Pipe' :
        \/ p \in DOMAIN Pipe /\ Pipe'[p] = Pipe[p]
        \/ Pipe'[p] = SyncMessage /\ ~(p <= Len(fromModem))
  <2>1. CASE toModem' = toModem BY <1>1, <2>1 DEF Pipe
  <2>2. CASE toModem' = toModem \o <<SyncMessage>>
    <3>1. Pipe' = fromModem \o (toModem \o <<SyncMessage>>) BY <1>1, <2>2 DEF Pipe
    <3>2. /\ Pipe' \in Seq(Message) /\ Len(Pipe') = Len(Pipe) + 1 /\ Pipe'[Len(Pipe')] = SyncMessage
          /\ \A p \in 1..Len(Pipe) : Pipe'[p] = Pipe[p]
      BY <1>2, <3>1, PipePut DEF Pipe
    <3>3. DOMAIN Pipe' = 1..(Len(Pipe) + 1) BY <3>2
    <3>. QED BY <3>2, <3>3, PipeType DEF Calm
  <2>. QED BY <1>1, <2>1, <2>2
<1>4. AnsweredInv' BY <1>1, <1>3 DEF Calm, SessionInv, AnsweredInv, SyncMessage
<1>5. \A p \in DOMAIN Pipe' : Pipe'[p].kind \in {"SYNC", "IND"}
  BY <1>1, <1>3 DEF Calm, SessionInv, SyncInv, SyncMessage
<1>. QED BY <1>1, <1>4, <1>5, NoClients

\* The server starts when no SYNC is on its way any more, nor its answer.
LEMMA StartServerCalm == ASSUME Calm, StartServer, calm' PROVE SessionInv'
<1>1. main \in {"init", "sync"} /\ main' = "serve" /\ ~SyncPending /\ Pipe' = Pipe
      /\ UNCHANGED <<links, ctlq, fromModem>>
  BY DEF StartServer, Disturbed, modem, Pipe
<1>2. \A p \in DOMAIN Pipe : Pipe[p].kind = "IND"
  BY <1>1, SyncSeen DEF Calm, SessionInv, SyncInv
<1>3. AnsweredInv' BY <1>1 DEF Calm, SessionInv, AnsweredInv
<1>. QED BY <1>1, <1>2, <1>3, NoClients

\* A message stays its client's while the client goes on as it is, or is given an
\* answer.
LEMMA BelongsKept ==
  ASSUME NEW m, OfCaller(m), conn'[m.fd] = conn[m.fd],
         client'[m.fd].tid = client[m.fd].tid, client'[m.fd].wait \subseteq client[m.fd].wait,
         inbox'[m.fd] # <<>> => inbox[m.fd] # <<>>
  PROVE  Belongs(m, conn', client', inbox')
BY DEF OfCaller, Belongs

\* The answer that the control service gives is the one to the queue's head.
LEMMA HeadAnswered ==
  ASSUME Calm, RecvCtl
  PROVE  LET m == Head(fromModem)
             r == Head(ctlq).msg
         IN /\ main = "serve" /\ m \in Message /\ m = Pipe[1] /\ 1 \in DOMAIN Pipe
            /\ m.rsp /\ ctlq # <<>> /\ 1 \in DOMAIN ctlq /\ ctlq[1] = Head(ctlq)
            /\ Head(ctlq).fd = m.fd /\ m.fd \in Fds /\ conn[m.fd] = "open" /\ OfCaller(r)
            /\ m.kind = r.kind /\ m.fd = r.fd /\ m.n = r.n /\ m.tid = r.tid
            /\ m.kind \in {"GET", "REL", "OTHER"}
            /\ m.kind # "GET" => m.id = r.id
            /\ m.kind = "REL" => m.id \in ids[m.fd] \ client[m.fd].has
            /\ \A p \in DOMAIN Pipe : p # 1 => ~Control(Pipe[p])
<1>. DEFINE m == Head(fromModem)
            r == Head(ctlq).msg
<1>1. main = "serve" /\ fromModem # <<>> /\ Control(m) BY DEF RecvCtl, Control
<1>2. m \in Message /\ m = Pipe[1] /\ 1 \in DOMAIN Pipe
  BY <1>1, QueueSteps, PipeTaken DEF Calm, TypeOK
<1>3. 1 <= Len(fromModem) BY <1>1, PipeType DEF Calm, TypeOK
<1>4. m.rsp BY <1>1, <1>2, <1>3 DEF Calm, SessionInv, AnsweredInv, Control
<1>5. /\ \A p \in DOMAIN Pipe : Control(Pipe[p]) => p = 1
      /\ ctlq # <<>> /\ m.kind = r.kind /\ m.fd = r.fd /\ m.n = r.n /\ m.tid = r.tid
      /\ m.kind # "GET" => m.id = r.id
  BY <1>1, <1>2 DEF Calm, SessionInv, ControlInv, Control
<1>6. ctlq \in Seq(QueueEntry) BY DEF Calm, TypeOK, QueueEntry
<1>7. 1 \in DOMAIN ctlq /\ ctlq[1] = Head(ctlq) BY <1>5, <1>6
<1>8. /\ Head(ctlq).fd = r.fd /\ OfCaller(r) /\ r.kind \in {"GET", "REL", "OTHER"}
      /\ r.kind = "REL" => r.id \in ids[r.fd] \ client[r.fd].has
  BY <1>7 DEF Calm, SessionInv, QueueInv
<1>9. r.fd \in Fds /\ conn[r.fd] = "open" BY <1>8 DEF OfCaller, Belongs
<1>. HIDE DEF m, r
<1>10. \A p \in DOMAIN Pipe : p # 1 => ~Control(Pipe[p]) BY <1>5 DEF Control
<1>. QED BY <1>1, <1>2, <1>4, <1>5, <1>7, <1>8, <1>9, <1>10 DEF m, r

\* What the step does: the client is told, or does not wait any more, its ids
\* are noted, and the next request is sent.
LEMMA HeadTaken ==
  ASSUME Calm, RecvCtl
  PROVE  LET m == Head(fromModem)
             P == Tail(fromModem) \o toModem
         IN /\ main' = "serve" /\ UNCHANGED <<loop, conn, inbox, alloc, present, calm>>
            /\ fromModem' = Tail(fromModem) /\ ctlq' = Tail(ctlq)
            /\ ids' = Registered(m.fd, m)
            /\ \A f \in Fds :
                 \/ client'[f] = client[f]
                 \/ /\ f = m.fd /\ Accepts(client[f], m) /\ inbox[f] = <<>>
                    /\ client'[f].wait = {} /\ client'[f].tid = client[f].tid
                    /\ client'[f].has = IF m.kind = "GET" THEN client[f].has \cup ({m.id} \ {0})
                                                          ELSE client[f].has
            /\ \/ Pipe' = P
               \/ /\ ctlq' # <<>> /\ Pipe' = Tail(fromModem) \o (toModem \o <<Head(ctlq').msg>>)
<1>. DEFINE m == Head(fromModem)
            r == Head(ctlq).msg
            P == Tail(fromModem) \o toModem
            F == {m.fd} \cap {g \in Fds : Listed(g)}
<1>1. /\ main = "serve" /\ m \in Message /\ m.rsp /\ ctlq # <<>> /\ Head(ctlq).fd = m.fd
      /\ m.fd \in Fds /\ conn[m.fd] = "open" /\ OfCaller(r) /\ m.fd = r.fd /\ m.tid = r.tid
  BY HeadAnswered
<1>2. Listed(m.fd) BY <1>1 DEF Listed
<1>3. /\ Forward(F, m) /\ ids' = Registered(m.fd, m) /\ ctlq' = Tail(ctlq) /\ HeadSent(Tail(ctlq))
      /\ fromModem' = Tail(fromModem)
      /\ UNCHANGED <<sync, conn, inbox, alloc, present, bounds>>
  BY <1>1, <1>2 DEF RecvCtl
<1>4. F \in SUBSET Fds /\ F = {m.fd} BY <1>1, <1>2
<1>5. /\ main' = main /\ loop' = loop
      /\ \A f \in Fds :
           \/ client'[f] = client[f]
           \/ /\ f = m.fd /\ Accepts(client[f], m)
              /\ client'[f].wait = {} /\ client'[f].tid = client[f].tid
              /\ client'[f].has = IF m.kind = "GET" THEN client[f].has \cup ({m.id} \ {0})
                                                    ELSE client[f].has
  <2>1. ~\E f \in F : conn[f] = "hup" BY <1>1, <1>4
  <2>2. TypeOK BY DEF Calm
  <2>. HIDE DEF F, m, r, P
  <2>3. /\ \A f \in Fds :
              \/ client'[f] = client[f]
              \/ /\ f \in F /\ Accepts(client[f], m) /\ main' = main
                 /\ client'[f].wait = {} /\ client'[f].tid = client[f].tid
                 /\ client'[f].has = IF m.kind = "GET" THEN client[f].has \cup ({m.id} \ {0})
                                                       ELSE client[f].has
        /\ \/ main' = main /\ loop' = loop
           \/ main' = "killed" /\ loop' = "killed" /\ \E f \in F : conn[f] = "hup"
    BY <1>1, <1>3, <1>4, <2>2, ForwardClients
  <2>. QED BY <1>4, <2>1, <2>3
<1>6. Accepts(client[m.fd], m) => inbox[m.fd] = <<>>
  <2>1. ASSUME NEW w \in client[m.fd].wait, w.tid = m.tid PROVE inbox[m.fd] = <<>>
    <3>1. w.tid = client[m.fd].tid BY <1>1 DEF Calm, BaseInv, ClientInv
    <3>2. client[m.fd].tid \in Nat BY <1>1 DEF Calm, TypeOK
    <3>. HIDE DEF m, r
    <3>. QED BY <1>1, <2>1, <3>1, <3>2 DEF OfCaller, Belongs
  <2>. QED BY <2>1 DEF Accepts
<1>7. \/ Pipe' = P
      \/ ctlq' # <<>> /\ Pipe' = Tail(fromModem) \o (toModem \o <<Head(ctlq').msg>>)
  BY <1>3 DEF HeadSent, Written, Pipe
<1>. HIDE DEF m, r, P, F
<1>. QED BY <1>1, <1>3, <1>5, <1>6, <1>7 DEF bounds, m, P

\* The queue without its head.
LEMMA HeadQueue ==
  ASSUME Calm, RecvCtl
  PROVE  /\ \A a \in DOMAIN ctlq' : /\ a \in Nat /\ a + 1 \in DOMAIN ctlq /\ a + 1 # 1
                                    /\ ctlq'[a] = ctlq[a + 1]
         /\ ctlq' # <<>> => /\ 2 \in DOMAIN ctlq /\ Head(ctlq') = ctlq[2]
                            /\ Head(ctlq').msg \in Message
<1>1. ctlq \in Seq(QueueEntry) BY DEF Calm, TypeOK, QueueEntry
<1>2. ctlq # <<>> /\ ctlq' = Tail(ctlq) BY HeadAnswered, HeadTaken
<1>3. ctlq' # <<>> => 2 \in DOMAIN ctlq /\ Head(ctlq') = ctlq[2] BY <1>1, <1>2
<1>4. 2 \in DOMAIN ctlq => ctlq[2] \in QueueEntry BY <1>1
<1>5. ctlq' # <<>> => Head(ctlq').msg \in Message BY <1>3, <1>4 DEF QueueEntry
<1>6. \A a \in DOMAIN ctlq' : a \in Nat /\ a + 1 \in DOMAIN ctlq /\ a + 1 # 1
                              /\ ctlq'[a] = ctlq[a + 1]
  BY <1>1, <1>2
<1>. QED BY <1>3, <1>5, <1>6, Zenon

\* What is on its way then: the data that was, and the next request behind it.
LEMMA HeadPipe ==
  ASSUME Calm, RecvCtl, NEW p \in DOMAIN Pipe'
  PROVE  \/ /\ p + 1 \in DOMAIN Pipe /\ Pipe'[p] = Pipe[p + 1] /\ ~Control(Pipe'[p])
            /\ p <= Len(fromModem') <=> p + 1 <= Len(fromModem)
         \/ /\ ctlq' # <<>> /\ Pipe'[p] = Head(ctlq').msg /\ ~(p <= Len(fromModem'))
            /\ \A q \in DOMAIN Pipe' : q # p => q < p
<1>. DEFINE P == Tail(fromModem) \o toModem
<1>1. fromModem # <<>> /\ fromModem' = Tail(fromModem)
  BY HeadTaken DEF RecvCtl
<1>2. /\ P \in Seq(Message) /\ Len(Pipe) = Len(P) + 1
      /\ \A i \in 1..Len(P) : P[i] = Pipe[i + 1]
      /\ Len(Tail(fromModem)) = Len(fromModem) - 1
  BY <1>1, PipeTaken DEF Calm
<1>3. /\ DOMAIN Pipe = 1..Len(Pipe) /\ Len(Pipe) \in Nat /\ Len(fromModem) \in Nat
      /\ Len(fromModem) <= Len(Pipe)
  BY PipeType DEF Calm
<1>4. \A i \in DOMAIN Pipe : i # 1 => ~Control(Pipe[i]) BY HeadAnswered
<1>5. Len(P) \in Nat BY <1>2
<1>6. ASSUME p \in 1..Len(P), Pipe'[p] = P[p]
      PROVE  /\ p + 1 \in DOMAIN Pipe /\ Pipe'[p] = Pipe[p + 1] /\ ~Control(Pipe'[p])
             /\ p <= Len(fromModem') <=> p + 1 <= Len(fromModem)
  <2>1. p \in Nat /\ 1 <= p /\ p <= Len(P) BY <1>5, <1>6
  <2>2. p + 1 \in DOMAIN Pipe /\ p + 1 # 1 BY <1>2, <1>3, <1>5, <2>1
  <2>3. Pipe'[p] = Pipe[p + 1] BY <1>2, <1>6
  <2>4. ~Control(Pipe'[p]) BY <1>4, <2>2, <2>3 DEF Control
  <2>5. Len(fromModem') = Len(fromModem) - 1 BY <1>1, <1>2
  <2>6. p <= Len(fromModem') <=> p + 1 <= Len(fromModem) BY <1>3, <2>1, <2>5
  <2>. QED BY <2>2, <2>3, <2>4, <2>6
<1>7. CASE Pipe' = P
  <2>1. p \in 1..Len(P) BY <1>2, <1>7
  <2>. QED BY <1>6, <1>7, <2>1
<1>8. CASE ctlq' # <<>> /\ Pipe' = Tail(fromModem) \o (toModem \o <<Head(ctlq').msg>>)
  <2>1. Head(ctlq').msg \in Message BY <1>8, HeadQueue
  <2>2. Tail(fromModem) \in Seq(Message) /\ toModem \in Seq(Message)
    BY <1>1, QueueSteps DEF Calm, TypeOK
  <2>3. /\ Pipe' \in Seq(Message) /\ Len(Pipe') = Len(P) + 1 /\ Pipe'[Len(Pipe')] = Head(ctlq').msg
        /\ \A i \in 1..Len(P) : Pipe'[i] = P[i]
    BY <1>8, <2>1, <2>2, PipePut
  <2>4. DOMAIN Pipe' = 1..(Len(P) + 1) BY <2>3
  <2>5. CASE p \in 1..Len(P) BY <1>6, <2>3, <2>5
  <2>6. CASE p \notin 1..Len(P)
    <3>1. p = Len(P) + 1 BY <1>5, <2>4, <2>6
    <3>2. Pipe'[p] = Head(ctlq').msg BY <2>3, <3>1
    <3>3. \A q \in DOMAIN Pipe' : q # p => q < p BY <1>5, <2>4, <3>1
    <3>4. Len(fromModem') = Len(fromModem) - 1 BY <1>1, <1>2
    <3>5. ~(p <= Len(fromModem')) BY <1>2, <1>3, <1>5, <3>1, <3>4
    <3>. QED BY <1>8, <3>2, <3>3, <3>5
  <2>. QED BY <2>5, <2>6
<1>. QED BY <1>7, <1>8, HeadTaken

\* An answer of the control service keeps the session in order.
LEMMA RecvCtlCalm == ASSUME Calm, TypeOK', RecvCtl PROVE SessionInv'
<1>. DEFINE m == Head(fromModem)
            r == Head(ctlq).msg
<1>1. /\ main = "serve" /\ m = Pipe[1] /\ 1 \in DOMAIN Pipe
      /\ m.rsp /\ ctlq # <<>> /\ 1 \in DOMAIN ctlq /\ ctlq[1].msg = r
      /\ m.fd \in Fds /\ conn[m.fd] = "open" /\ OfCaller(r)
      /\ m.kind = r.kind /\ m.fd = r.fd /\ m.n = r.n /\ m.tid = r.tid
      /\ m.kind \in {"GET", "REL", "OTHER"}
      /\ m.kind # "GET" => m.id = r.id
      /\ m.kind = "REL" => m.id \in ids[m.fd] \ client[m.fd].has
  BY HeadAnswered
<1>2. /\ main' = "serve" /\ UNCHANGED <<loop, conn, inbox, alloc, present, calm>>
      /\ ids' = Registered(m.fd, m)
      /\ \A f \in Fds :
           \/ client'[f] = client[f]
           \/ /\ f = m.fd /\ Accepts(client[f], m) /\ inbox[f] = <<>>
              /\ client'[f].wait = {} /\ client'[f].tid = client[f].tid
              /\ client'[f].has = IF m.kind = "GET" THEN client[f].has \cup ({m.id} \ {0})
                                                    ELSE client[f].has
  BY HeadTaken
<1>. HIDE DEF m, r
<1>3. m.kind = "GET" => m.id = 0 \/ (m.id \in alloc /\ \A f \in Fds : m.id \notin ids[f])
  BY <1>1 DEF Calm, SessionInv, AllocInv
<1>4. /\ \A f \in Fds : f # m.fd => ids'[f] = ids[f]
      /\ m.kind = "GET" => ids'[m.fd] = ids[m.fd] \cup ({m.id} \ {0})
      /\ m.kind = "REL" => ids'[m.fd] = ids[m.fd] \ {m.id}
      /\ m.kind = "OTHER" => ids'[m.fd] = ids[m.fd]
  <2>1. ids \in [Fds -> SUBSET Ids] BY DEF Calm, TypeOK
  <2>2. m.kind = "GET" => ids' = IF m.id # 0 THEN [ids EXCEPT ![m.fd] = @ \cup {m.id}] ELSE ids
    BY <1>2 DEF Registered
  <2>3. m.kind = "REL" => ids' = [ids EXCEPT ![m.fd] = @ \ {m.id}]
    BY <1>2 DEF Registered
  <2>4. m.kind = "OTHER" => ids' = ids
    BY <1>2 DEF Registered
  <2>. QED BY <1>1, <2>1, <2>2, <2>3, <2>4
<1>5. \A g \in Fds : \A i \in ids[g] :
        i \in ids'[g] \/ (g = m.fd /\ m.kind = "REL" /\ i = m.id)
  BY <1>1, <1>4
<1>6. \A f \in Fds : /\ client'[f].tid = client[f].tid /\ client'[f].wait \subseteq client[f].wait
                     /\ client'[f].has \subseteq client[f].has \cup (IF m.kind = "GET" THEN {m.id} \ {0} ELSE {})
  BY <1>2
<1>7. \A x : OfCaller(x) => Belongs(x, conn', client', inbox')
  BY <1>2, <1>6 DEF OfCaller, Belongs
<1>8. InboxInv' BY <1>2 DEF Calm, SessionInv, InboxInv
<1>9. SyncInv' BY <1>2 DEF SyncInv
<1>10. IdsInv'
  <2>1. ASSUME NEW f \in Fds PROVE client'[f].has \subseteq ids'[f]
    <3>1. client[f].has \subseteq ids[f] BY DEF Calm, SessionInv, IdsInv
    <3>2. m.kind = "REL" => m.id \notin client[m.fd].has BY <1>1
    <3>3. \A i \in client[f].has : i \in ids'[f] BY <1>5, <3>1, <3>2
    <3>4. \A i \in client'[f].has :
            i \in client[f].has \/ (f = m.fd /\ m.kind = "GET" /\ i \in {m.id} \ {0})
      BY <1>2
    <3>. QED BY <1>4, <3>3, <3>4
  <2>2. ASSUME NEW f \in Fds, NEW g \in Fds, f # g, NEW i \in ids'[f], i \in ids'[g] PROVE FALSE
    <3>1. \A h \in Fds : \A j \in ids'[h] :
            j \in ids[h] \/ (h = m.fd /\ m.kind = "GET" /\ j = m.id /\ j # 0)
      BY <1>1, <1>4
    <3>2. ~(i \in ids[f] /\ i \in ids[g]) BY <2>2 DEF Calm, SessionInv, IdsInv
    <3>. QED BY <1>3, <2>2, <3>1, <3>2
  <2>. QED BY <2>1, <2>2 DEF IdsInv
<1>11. \A a \in DOMAIN ctlq' : /\ a \in Nat /\ a + 1 \in DOMAIN ctlq /\ a + 1 # 1
                               /\ ctlq'[a] = ctlq[a + 1]
  BY HeadQueue
<1>18. ctlq' # <<>> => /\ Head(ctlq').msg.kind \in {"GET", "REL", "OTHER"}
                       /\ ~Head(ctlq').msg.rsp
                       /\ Head(ctlq').msg.kind # "REL" => Head(ctlq').msg.id = 0
  <2>1. ctlq' # <<>> => 2 \in DOMAIN ctlq /\ Head(ctlq') = ctlq[2] BY HeadQueue
  <2>2. \A a \in DOMAIN ctlq : /\ ctlq[a].msg.kind \in {"GET", "REL", "OTHER"}
                               /\ ~ctlq[a].msg.rsp
                               /\ ctlq[a].msg.kind # "REL" => ctlq[a].msg.id = 0
    BY DEF Calm, SessionInv, QueueInv
  <2>. QED BY <2>1, <2>2
<1>19. \A p \in DOMAIN Pipe' :
         \/ /\ p + 1 \in DOMAIN Pipe /\ Pipe'[p] = Pipe[p + 1] /\ ~Control(Pipe'[p])
            /\ p <= Len(fromModem') <=> p + 1 <= Len(fromModem)
         \/ /\ ctlq' # <<>> /\ Pipe'[p] = Head(ctlq').msg /\ ~(p <= Len(fromModem'))
            /\ \A q \in DOMAIN Pipe' : q # p => q < p
  BY HeadPipe
<1>20. \A p \in DOMAIN Pipe' : Control(Pipe'[p]) =>
         /\ ctlq' # <<>> /\ Pipe'[p] = Head(ctlq').msg
         /\ \A q \in DOMAIN Pipe' : q # p => q < p
  BY <1>19 DEF Control
<1>12. QueueInv'
  <2>1. \A a \in DOMAIN ctlq' :
          LET q == ctlq'[a].msg
          IN /\ a + 1 \in DOMAIN ctlq /\ ctlq'[a] = ctlq[a + 1]
             /\ ctlq'[a].fd = q.fd /\ Belongs(q, conn', client', inbox') /\ q.fd \in Fds
             /\ q.kind \in {"GET", "REL", "OTHER"} /\ ~q.rsp
             /\ q.kind # "REL" => q.id = 0
             /\ q.kind = "REL" => q.id \in ids[q.fd] \ client[q.fd].has
    BY <1>7, <1>11 DEF Calm, SessionInv, QueueInv, OfCaller, Belongs
  <2>2. \A a \in DOMAIN ctlq' : ctlq'[a].msg.kind = "REL" =>
          ctlq'[a].msg.id \in ids'[ctlq'[a].msg.fd] \ client'[ctlq'[a].msg.fd].has
    <3>. SUFFICES ASSUME NEW a \in DOMAIN ctlq', ctlq'[a].msg.kind = "REL"
                  PROVE  ctlq'[a].msg.id \in ids'[ctlq'[a].msg.fd] \ client'[ctlq'[a].msg.fd].has
      OBVIOUS
    <3>. DEFINE q == ctlq'[a].msg
    <3>1. /\ q.fd \in Fds /\ q.id \in ids[q.fd] /\ q.id \notin client[q.fd].has
          /\ q = ctlq[a + 1].msg /\ a + 1 \in DOMAIN ctlq /\ a + 1 # 1 /\ q.kind = "REL"
      BY <1>11, <2>1
    <3>. HIDE DEF q
    <3>2. m.kind = "REL" => q.id # m.id
      <4>1. \A i, j \in DOMAIN ctlq :
              ctlq[i].msg.kind = "REL" /\ ctlq[j].msg.kind = "REL" /\ ctlq[i].msg.id = ctlq[j].msg.id
                => i = j
        BY DEF Calm, SessionInv, QueueInv
      <4>2. m.kind = "REL" =>
              1 \in DOMAIN ctlq /\ ctlq[1].msg.kind = "REL" /\ ctlq[1].msg.id = m.id
        BY <1>1
      <4>3. PICK b \in DOMAIN ctlq : b # 1 /\ ctlq[b].msg = q /\ q.kind = "REL"
        BY <3>1
      <4>. QED BY <4>1, <4>2, <4>3
    <3>3. q.id \in ids'[q.fd] BY <1>5, <3>1, <3>2
    <3>4. m.kind = "GET" => q.id \notin {m.id} \ {0} BY <1>3, <3>1
    <3>5. q.id \notin client'[q.fd].has BY <1>6, <3>1, <3>4
    <3>. QED BY <3>3, <3>5 DEF q
  <2>3. \A a, b \in DOMAIN ctlq' :
          ctlq'[a].msg.kind = "REL" /\ ctlq'[b].msg.kind = "REL"
          /\ ctlq'[a].msg.id = ctlq'[b].msg.id => a = b
    <3>. SUFFICES ASSUME NEW a \in DOMAIN ctlq', NEW b \in DOMAIN ctlq',
                         ctlq'[a].msg.kind = "REL", ctlq'[b].msg.kind = "REL",
                         ctlq'[a].msg.id = ctlq'[b].msg.id
                  PROVE  a = b
      OBVIOUS
    <3>1. a + 1 \in DOMAIN ctlq /\ b + 1 \in DOMAIN ctlq
          /\ ctlq'[a] = ctlq[a + 1] /\ ctlq'[b] = ctlq[b + 1]
      BY <1>11
    <3>3. \A i, j \in DOMAIN ctlq :
            ctlq[i].msg.kind = "REL" /\ ctlq[j].msg.kind = "REL" /\ ctlq[i].msg.id = ctlq[j].msg.id
              => i = j
      BY DEF Calm, SessionInv, QueueInv
    <3>4. a + 1 = b + 1 BY <3>1, <3>3
    <3>2. a \in Nat /\ b \in Nat BY <1>11
    <3>. QED BY <3>2, <3>4
  <2>4. \A f \in Fds : inbox'[f] # <<>> /\ inbox'[f][1].kind = "REL" =>
          /\ inbox'[f][1].id \in ids'[f]
          /\ \A a \in DOMAIN ctlq' : ctlq'[a].msg.kind = "REL" => ctlq'[a].msg.id # inbox'[f][1].id
    <3>. SUFFICES ASSUME NEW f \in Fds, inbox[f] # <<>>, inbox[f][1].kind = "REL"
                  PROVE  /\ inbox[f][1].id \in ids'[f]
                         /\ \A a \in DOMAIN ctlq' :
                              ctlq'[a].msg.kind = "REL" => ctlq'[a].msg.id # inbox[f][1].id
      BY <1>2
    <3>1. /\ inbox[f][1].id \in ids[f]
          /\ \A a \in DOMAIN ctlq : ctlq[a].msg.kind = "REL" => ctlq[a].msg.id # inbox[f][1].id
      BY DEF Calm, SessionInv, QueueInv
    <3>2. m.kind = "REL" => inbox[f][1].id # m.id BY <1>1, <3>1
    <3>. QED BY <1>5, <2>1, <3>1, <3>2
  <2>. QED BY <2>1, <2>2, <2>3, <2>4 DEF QueueInv, OfCaller
<1>14. ControlInv'
  <2>. SUFFICES ASSUME NEW p \in DOMAIN Pipe', Control(Pipe'[p])
                PROVE  /\ \A q \in DOMAIN Pipe' : Control(Pipe'[q]) => q = p
                       /\ ctlq' # <<>> /\ Pipe'[p] = Head(ctlq').msg
    BY <1>18 DEF ControlInv
  <2>1. ASSUME NEW q \in DOMAIN Pipe', Control(Pipe'[q]), q # p PROVE FALSE
    <3>1. q < p /\ p < q BY <1>20, <2>1
    <3>2. p \in Nat /\ q \in Nat BY PipeDomain
    <3>. QED BY <3>1, <3>2
  <2>. QED BY <1>20, <2>1
<1>15. DataInv'
  <2>. SUFFICES ASSUME NEW p \in DOMAIN Pipe', Pipe'[p].kind = "DATA"
                PROVE  /\ Belongs(Pipe'[p], conn', client', inbox')
                       /\ Pipe'[p].id \in ids'[Pipe'[p].fd]
                       /\ \A q \in DOMAIN Pipe' :
                            Pipe'[q].kind = "REL" /\ Pipe'[q].id = Pipe'[p].id => p < q
    BY DEF DataInv, Control, OfCaller
  <2>1. p + 1 \in DOMAIN Pipe /\ Pipe'[p] = Pipe[p + 1] BY <1>18, <1>19
  <2>2. /\ OfCaller(Pipe[p + 1]) /\ Pipe[p + 1].id \in ids[Pipe[p + 1].fd]
        /\ \A q \in DOMAIN Pipe : Pipe[q].kind = "REL" /\ Pipe[q].id = Pipe[p + 1].id => p + 1 < q
    BY <1>1, <2>1 DEF Calm, SessionInv, DataInv, Control
  <2>3. p \in Nat BY PipeDomain
  <2>4. ~(m.kind = "REL" /\ m.id = Pipe[p + 1].id) BY <1>1, <2>2, <2>3
  <2>5. Pipe[p + 1].fd \in Fds BY <2>2 DEF OfCaller, Belongs
  <2>6. Pipe'[p].id \in ids'[Pipe'[p].fd] BY <1>5, <2>1, <2>2, <2>4, <2>5
  <2>7. Belongs(Pipe'[p], conn', client', inbox') BY <1>7, <2>1, <2>2
  <2>8. \A q \in DOMAIN Pipe' : Pipe'[q].kind = "REL" => p < q
    <3>1. \A q \in DOMAIN Pipe' : Pipe'[q].kind = "REL" => q # p OBVIOUS
    <3>. QED BY <1>20, <3>1 DEF Control
  <2>. QED BY <2>6, <2>7, <2>8
<1>16. AnsweredInv'
  <2>. SUFFICES ASSUME NEW p \in DOMAIN Pipe'
                PROVE  IF Pipe'[p].kind = "IND" THEN ~Pipe'[p].rsp /\ p <= Len(fromModem')
                                                ELSE Pipe'[p].rsp <=> p <= Len(fromModem')
    BY DEF AnsweredInv
  <2>1. CASE p + 1 \in DOMAIN Pipe /\ Pipe'[p] = Pipe[p + 1]
             /\ (p <= Len(fromModem') <=> p + 1 <= Len(fromModem))
    <3>1. IF Pipe[p + 1].kind = "IND" THEN ~Pipe[p + 1].rsp /\ p + 1 <= Len(fromModem)
                                      ELSE Pipe[p + 1].rsp <=> p + 1 <= Len(fromModem)
      BY <2>1 DEF Calm, SessionInv, AnsweredInv
    <3>. QED BY <2>1, <3>1
  <2>2. CASE ctlq' # <<>> /\ Pipe'[p] = Head(ctlq').msg /\ ~(p <= Len(fromModem'))
    BY <1>18, <2>2
  <2>. QED BY <1>19, <2>1, <2>2
<1>17. AllocInv'
  <2>1. ASSUME present, NEW f \in Fds, NEW i \in ids'[f] PROVE i \in alloc
    <3>1. CASE i \in ids[f]
      <4>1. i \in alloc \/ \E p \in DOMAIN Pipe : Pipe[p].kind = "REL" /\ Pipe[p].id = i
        BY <2>1, <3>1 DEF Calm, SessionInv, AllocInv
      <4>2. \A p \in DOMAIN Pipe : Pipe[p].kind = "REL" => Pipe[p] = m
        BY <1>1, HeadAnswered DEF m, Control
      <4>3. ~(m.kind = "REL" /\ m.id = i)
        BY <1>1, <1>4, <2>1, <3>1 DEF Calm, SessionInv, IdsInv
      <4>. QED BY <4>1, <4>2, <4>3
    <3>2. CASE i \notin ids[f]
      BY <1>1, <1>3, <1>4, <2>1, <3>2
    <3>. QED BY <3>1, <3>2
  <2>2. ASSUME NEW p \in DOMAIN Pipe', Pipe'[p].kind = "GET" PROVE Pipe'[p].id = 0
    BY <1>18, <1>20, <2>2 DEF Control
  <2>. QED BY <1>2, <2>1, <2>2 DEF AllocInv
<1>. QED BY <1>8, <1>9, <1>10, <1>12, <1>14, <1>15, <1>16, <1>17 DEF SessionInv

\* Clients that are given answers, or give up, and otherwise stay as they are.
LEMMA ClientsServed ==
  ASSUME Calm, UNCHANGED <<conn, ids, inbox, ctlq>>,
         \A f \in Fds :
           \/ client'[f] = client[f]
           \/ /\ inbox[f] = <<>> /\ client'[f].wait = {}
              /\ client'[f].tid = client[f].tid /\ client'[f].has = client[f].has
  PROVE  /\ InboxInv' /\ QueueInv' /\ IdsInv'
         /\ \A x : OfCaller(x) => Belongs(x, conn', client', inbox')
<1>1. \A f \in Fds : /\ client'[f].tid = client[f].tid /\ client'[f].has = client[f].has
                     /\ client'[f].wait \subseteq client[f].wait
  OBVIOUS
<1>2. \A x : OfCaller(x) => Belongs(x, conn', client', inbox')
  BY <1>1 DEF OfCaller, Belongs
<1>3. InboxInv' BY DEF Calm, SessionInv, InboxInv
<1>4. IdsInv' BY <1>1 DEF Calm, SessionInv, IdsInv
<1>5. QueueInv'
  <2>1. \A a \in DOMAIN ctlq : LET r == ctlq[a].msg
                               IN /\ ctlq[a].fd = r.fd /\ OfCaller(r) /\ r.fd \in Fds
                                  /\ r.kind \in {"GET", "REL", "OTHER"} /\ ~r.rsp
                                  /\ r.kind # "REL" => r.id = 0
                                  /\ r.kind = "REL" => r.id \in ids[r.fd] \ client[r.fd].has
    BY DEF Calm, SessionInv, QueueInv, OfCaller, Belongs
  <2>2. \A a \in DOMAIN ctlq : LET r == ctlq[a].msg
                               IN /\ ctlq[a].fd = r.fd /\ Belongs(r, conn', client', inbox')
                                  /\ r.kind \in {"GET", "REL", "OTHER"} /\ ~r.rsp
                                  /\ r.kind # "REL" => r.id = 0
                                  /\ r.kind = "REL" => r.id \in ids[r.fd] \ client'[r.fd].has
    BY <1>1, <1>2, <2>1
  <2>. QED BY <2>2 DEF Calm, SessionInv, QueueInv, OfCaller
<1>. QED BY <1>2, <1>3, <1>4, <1>5

\* What is on its way when a message has been taken.
LEMMA PipeShift ==
  ASSUME TypeOK, fromModem # <<>>, fromModem' = Tail(fromModem), toModem' = toModem
  PROVE  /\ \A p \in DOMAIN Pipe' : /\ p \in Nat /\ p + 1 \in DOMAIN Pipe
                                    /\ Pipe'[p] = Pipe[p + 1]
                                    /\ p <= Len(fromModem') <=> p + 1 <= Len(fromModem)
         /\ \A p \in DOMAIN Pipe : /\ p \in Nat
                                   /\ p # 1 => p - 1 \in DOMAIN Pipe' /\ Pipe'[p - 1] = Pipe[p]
<1>. DEFINE P == Tail(fromModem) \o toModem
<1>1. /\ P \in Seq(Message) /\ Len(Pipe) = Len(P) + 1
      /\ \A i \in 1..Len(P) : P[i] = Pipe[i + 1]
      /\ Len(Tail(fromModem)) = Len(fromModem) - 1
  BY PipeTaken
<1>2. DOMAIN Pipe = 1..Len(Pipe) /\ Len(Pipe) \in Nat /\ Len(fromModem) \in Nat BY PipeType
<1>3. DOMAIN P = 1..Len(P) /\ Len(P) \in Nat BY <1>1
<1>4. Pipe' = P BY DEF Pipe
<1>. HIDE DEF P
<1>5. ASSUME NEW p \in DOMAIN Pipe'
      PROVE  /\ p \in Nat /\ p + 1 \in DOMAIN Pipe
             /\ Pipe'[p] = Pipe[p + 1]
             /\ p <= Len(fromModem') <=> p + 1 <= Len(fromModem)
  <2>1. p \in Nat /\ p + 1 \in DOMAIN Pipe /\ Pipe'[p] = Pipe[p + 1]
    BY <1>1, <1>2, <1>3, <1>4, <1>5
  <2>2. Len(fromModem') = Len(fromModem) - 1 BY <1>1
  <2>3. p <= Len(fromModem') <=> p + 1 <= Len(fromModem) BY <1>2, <2>1, <2>2
  <2>. QED BY <2>1, <2>3
<1>6. ASSUME NEW p \in DOMAIN Pipe
      PROVE  /\ p \in Nat
             /\ p # 1 => p - 1 \in DOMAIN Pipe' /\ Pipe'[p - 1] = Pipe[p]
  <2>1. p \in Nat /\ (p # 1 => p - 1 \in 1..Len(P)) BY <1>1, <1>2, <1>3, <1>6
  <2>. QED BY <1>1, <1>3, <1>4, <2>1
<1>. QED BY <1>5, <1>6

\* Data goes to the client it is for, and nothing else comes of it; an indication
\* is no client's answer, and kills the proxy if a client it goes to is gone.
LEMMA DataTaken ==
  ASSUME Calm, RecvData
  PROVE  LET m == Head(fromModem)
         IN /\ main = "serve" /\ fromModem # <<>> /\ fromModem' = Tail(fromModem)
            /\ \/ main' = "serve" /\ loop' = "run"
               \/ main' = "killed" /\ loop' = "killed" /\ m.kind = "IND"
            /\ UNCHANGED <<conn, ids, inbox, ctlq, toModem, alloc, present, calm>>
            /\ m \in Message /\ m = Pipe[1] /\ 1 \in DOMAIN Pipe /\ m.kind \in {"DATA", "IND"}
            /\ \A f \in Fds :
                 \/ client'[f] = client[f]
                 \/ /\ f = m.fd /\ Accepts(client[f], m) /\ inbox[f] = <<>> /\ OfCaller(m)
                    /\ client'[f].wait = {} /\ client'[f].tid = client[f].tid
                    /\ client'[f].has = client[f].has
<1>. DEFINE m == Head(fromModem)
<1>1. /\ main = "serve" /\ fromModem # <<>> /\ fromModem' = Tail(fromModem)
      /\ m.kind \in {"DATA", "IND"}
      /\ UNCHANGED <<sync, reset, conn, ids, inbox, ctlq, toModem, alloc, present, bounds>>
  BY DEF RecvData
<1>2. PICK F \in Addressed(m) : Forward(F, m) BY DEF RecvData
<1>3. m \in Message /\ m = Pipe[1] /\ 1 \in DOMAIN Pipe
  BY <1>1, QueueSteps, PipeTaken DEF Calm, TypeOK
<1>4. F \in SUBSET Fds BY <1>2 DEF Addressed
<1>5. TypeOK /\ loop = "run" BY DEF Calm
<1>6. m.kind = "IND" => ~m.rsp BY <1>3 DEF Calm, SessionInv, AnsweredInv
<1>7. m.kind = "DATA" => OfCaller(m) /\ m.id \in ids[m.fd]
  BY <1>1, <1>3 DEF Calm, SessionInv, DataInv
<1>8. m.kind = "DATA" => m.fd \in Fds /\ conn[m.fd] = "open" BY <1>7 DEF OfCaller, Belongs
<1>9. m.kind = "DATA" => \A f \in F : f = m.fd
  <2>1. ASSUME m.kind = "DATA", NEW f \in F PROVE f = m.fd
    <3>1. f \in Fds /\ m.id \in ids[f] BY <1>2, <2>1 DEF Addressed
    <3>. QED BY <1>7, <1>8, <2>1, <3>1 DEF Calm, SessionInv, IdsInv
  <2>. QED BY <2>1
<1>. HIDE DEF m
<1>10. /\ \A f \in Fds :
           \/ client'[f] = client[f]
           \/ /\ f \in F /\ Accepts(client[f], m) /\ main' = main
              /\ client'[f].wait = {} /\ client'[f].tid = client[f].tid
              /\ client'[f].has = IF m.kind = "GET" THEN client[f].has \cup ({m.id} \ {0})
                                                    ELSE client[f].has
      /\ \/ main' = main /\ loop' = loop
         \/ main' = "killed" /\ loop' = "killed" /\ \E f \in F : conn[f] = "hup"
  BY <1>2, <1>3, <1>4, <1>5, ForwardClients
<1>11. m.kind = "DATA" /\ Accepts(client[m.fd], m) => inbox[m.fd] = <<>>
  <2>1. ASSUME m.kind = "DATA", NEW w \in client[m.fd].wait, w.tid = m.tid PROVE inbox[m.fd] = <<>>
    <3>1. w.tid = client[m.fd].tid BY <1>8, <2>1 DEF Calm, BaseInv, ClientInv
    <3>2. client[m.fd].tid \in Nat BY <1>8, <2>1 DEF Calm, TypeOK
    <3>. QED BY <1>7, <2>1, <3>1, <3>2 DEF OfCaller, Belongs
  <2>. QED BY <2>1 DEF Accepts
<1>12. m.kind = "IND" => \A f \in Fds : client'[f] = client[f]
  BY <1>6, <1>10 DEF Accepts
<1>13. \/ main' = "serve" /\ loop' = "run"
       \/ main' = "killed" /\ loop' = "killed" /\ m.kind = "IND"
  BY <1>1, <1>5, <1>8, <1>9, <1>10
<1>14. \A f \in Fds :
         \/ client'[f] = client[f]
         \/ /\ f = m.fd /\ Accepts(client[f], m) /\ inbox[f] = <<>> /\ OfCaller(m)
            /\ client'[f].wait = {} /\ client'[f].tid = client[f].tid
            /\ client'[f].has = client[f].has
  <2>1. CASE m.kind = "IND" BY <1>12, <2>1
  <2>2. CASE m.kind = "DATA" BY <1>7, <1>9, <1>10, <1>11, <2>2
  <2>. QED BY <1>1, <2>1, <2>2
<1>. QED BY <1>1, <1>3, <1>13, <1>14 DEF m, bounds

\* Data keeps the session in order.
LEMMA RecvDataCalm == ASSUME Calm, RecvData PROVE SessionInv'
<1>1. /\ main = "serve" /\ main' \in {"serve", "killed"}
      /\ fromModem # <<>> /\ fromModem' = Tail(fromModem)
      /\ UNCHANGED <<conn, ids, inbox, ctlq, toModem, alloc, present>>
      /\ 1 \in DOMAIN Pipe /\ Pipe[1].kind \in {"DATA", "IND"}
      /\ \A f \in Fds :
           \/ client'[f] = client[f]
           \/ /\ inbox[f] = <<>> /\ client'[f].wait = {}
              /\ client'[f].tid = client[f].tid /\ client'[f].has = client[f].has
  BY DataTaken
<1>2. /\ InboxInv' /\ QueueInv' /\ IdsInv'
      /\ \A x : OfCaller(x) => Belongs(x, conn', client', inbox')
  BY <1>1, ClientsServed
<1>3. /\ \A p \in DOMAIN Pipe' : /\ p \in Nat /\ p + 1 \in DOMAIN Pipe
                                 /\ Pipe'[p] = Pipe[p + 1]
                                 /\ p <= Len(fromModem') <=> p + 1 <= Len(fromModem)
      /\ \A p \in DOMAIN Pipe : /\ p \in Nat
                                /\ p # 1 => p - 1 \in DOMAIN Pipe' /\ Pipe'[p - 1] = Pipe[p]
  BY <1>1, PipeShift DEF Calm
<1>4. SyncInv' BY <1>1 DEF SyncInv
<1>5. AnsweredInv' BY <1>3 DEF Calm, SessionInv, AnsweredInv
<1>6. ControlInv'
  <2>. SUFFICES ASSUME NEW p \in DOMAIN Pipe', Control(Pipe'[p])
                PROVE  /\ \A q \in DOMAIN Pipe' : Control(Pipe'[q]) => q = p
                       /\ ctlq # <<>>
                       /\ LET r == Head(ctlq).msg
                          IN /\ Pipe'[p].kind = r.kind /\ Pipe'[p].fd = r.fd
                             /\ Pipe'[p].n = r.n /\ Pipe'[p].tid = r.tid
                             /\ (r.kind = "GET" /\ Pipe'[p].rsp) \/ Pipe'[p].id = r.id
    BY <1>1 DEF ControlInv, Control
  <2>1. p \in Nat /\ p + 1 \in DOMAIN Pipe /\ Pipe'[p] = Pipe[p + 1] BY <1>3
  <2>2. /\ \A q \in DOMAIN Pipe : Control(Pipe[q]) => q = p + 1
        /\ ctlq # <<>>
        /\ LET r == Head(ctlq).msg
           IN /\ Pipe[p + 1].kind = r.kind /\ Pipe[p + 1].fd = r.fd
              /\ Pipe[p + 1].n = r.n /\ Pipe[p + 1].tid = r.tid
              /\ (r.kind = "GET" /\ Pipe[p + 1].rsp) \/ Pipe[p + 1].id = r.id
    BY <1>1, <2>1 DEF Calm, SessionInv, ControlInv
  <2>3. ASSUME NEW q \in DOMAIN Pipe', Control(Pipe'[q]) PROVE q = p
    <3>1. q \in Nat /\ q + 1 = p + 1 BY <1>3, <2>2, <2>3
    <3>. QED BY <2>1, <3>1
  <2>. QED BY <2>1, <2>2, <2>3
<1>7. DataInv'
  <2>. SUFFICES ASSUME NEW p \in DOMAIN Pipe', Pipe'[p].kind = "DATA"
                PROVE  /\ Belongs(Pipe'[p], conn', client', inbox')
                       /\ Pipe'[p].id \in ids[Pipe'[p].fd]
                       /\ \A q \in DOMAIN Pipe' :
                            Pipe'[q].kind = "REL" /\ Pipe'[q].id = Pipe'[p].id => p < q
    BY <1>1 DEF DataInv, Control, OfCaller
  <2>1. p \in Nat /\ p + 1 \in DOMAIN Pipe /\ Pipe'[p] = Pipe[p + 1] BY <1>3
  <2>2. /\ OfCaller(Pipe[p + 1]) /\ Pipe[p + 1].id \in ids[Pipe[p + 1].fd]
        /\ \A q \in DOMAIN Pipe : Pipe[q].kind = "REL" /\ Pipe[q].id = Pipe[p + 1].id => p + 1 < q
    BY <1>1, <2>1 DEF Calm, SessionInv, DataInv
  <2>3. ASSUME NEW q \in DOMAIN Pipe', Pipe'[q].kind = "REL" /\ Pipe'[q].id = Pipe'[p].id
        PROVE  p < q
    <3>1. q \in Nat /\ p + 1 < q + 1 BY <1>3, <2>1, <2>2, <2>3
    <3>. QED BY <2>1, <3>1
  <2>. QED BY <1>2, <2>1, <2>2, <2>3
<1>8. AllocInv'
  <2>1. ASSUME present, NEW f \in Fds, NEW i \in ids[f], i \notin alloc
        PROVE  \E p \in DOMAIN Pipe' : Pipe'[p].rsp /\ Pipe'[p].kind = "REL" /\ Pipe'[p].id = i
    <3>1. PICK p \in DOMAIN Pipe : Pipe[p].rsp /\ Pipe[p].kind = "REL" /\ Pipe[p].id = i
      BY <2>1 DEF Calm, SessionInv, AllocInv
    <3>2. p - 1 \in DOMAIN Pipe' /\ Pipe'[p - 1] = Pipe[p] BY <1>1, <1>3, <3>1
    <3>. QED BY <3>1, <3>2
  <2>2. \A p \in DOMAIN Pipe' : Pipe'[p].kind = "GET" =>
          Pipe'[p].id = 0 \/ (Pipe'[p].id \in alloc /\ \A f \in Fds : Pipe'[p].id \notin ids[f])
    BY <1>3 DEF Calm, SessionInv, AllocInv
  <2>. QED BY <1>1, <2>1, <2>2 DEF AllocInv
<1>. QED BY <1>2, <1>4, <1>5, <1>6, <1>7, <1>8 DEF SessionInv

\* What is read before there are clients leaves the rest as it is.
LEMMA RecvSyncCalm == ASSUME Calm, RecvSync PROVE SessionInv'
<1>1. /\ main \in {"init", "sync"} /\ main' = main /\ fromModem # <<>>
      /\ fromModem' = Tail(fromModem) /\ toModem' = toModem /\ UNCHANGED <<links, ctlq>>
  BY DEF RecvSync
<1>2. \A p \in DOMAIN Pipe' : /\ p + 1 \in DOMAIN Pipe /\ Pipe'[p] = Pipe[p + 1]
                              /\ p <= Len(fromModem') <=> p + 1 <= Len(fromModem)
  BY <1>1, PipeShift DEF Calm
<1>3. AnsweredInv' BY <1>2 DEF Calm, SessionInv, AnsweredInv
<1>4. \A p \in DOMAIN Pipe' : Pipe'[p].kind \in {"SYNC", "IND"}
  BY <1>1, <1>2 DEF Calm, SessionInv, SyncInv
<1>. QED BY <1>1, <1>3, <1>4, NoClients

\* The modem answers the first message that goes to it.
LEMMA AnswerPipe ==
  ASSUME TypeOK, NEW y \in Message, toModem # <<>>, toModem' = Tail(toModem),
         fromModem' = Append(fromModem, y)
  PROVE  LET k == Len(fromModem) + 1
         IN /\ k \in DOMAIN Pipe /\ Pipe[k] = Head(toModem) /\ Pipe'[k] = y
            /\ DOMAIN Pipe' = DOMAIN Pipe /\ Len(Pipe') = Len(Pipe)
            /\ Len(fromModem') = k
            /\ \A p \in DOMAIN Pipe : p # k => /\ Pipe'[p] = Pipe[p]
                                               /\ p <= Len(fromModem') <=> p <= Len(fromModem)
<1>1. fromModem \in Seq(Message) /\ toModem \in Seq(Message) BY DEF TypeOK
<1>2. Pipe' = Append(fromModem, y) \o Tail(toModem) BY DEF Pipe
<1>3. DOMAIN Pipe = 1..Len(Pipe) /\ Len(Pipe) \in Nat /\ Len(fromModem) \in Nat
  BY PipeType
<1>4. /\ Len(fromModem) + 1 \in 1..Len(Pipe) /\ Pipe[Len(fromModem) + 1] = Head(toModem)
  BY <1>1 DEF Pipe
<1>5. Len(Pipe') = Len(Pipe) /\ DOMAIN Pipe' = 1..Len(Pipe)
  BY <1>1, <1>2 DEF Pipe
<1>6. Len(fromModem') = Len(fromModem) + 1 BY <1>1
<1>7. Pipe'[Len(fromModem) + 1] = y BY <1>1, <1>2
<1>8. ASSUME NEW p \in 1..Len(Pipe), p # Len(fromModem) + 1 PROVE Pipe'[p] = Pipe[p]
  BY <1>1, <1>2, <1>8 DEF Pipe
<1>9. \A p \in 1..Len(Pipe) : p # Len(fromModem) + 1 =>
        (p <= Len(fromModem') <=> p <= Len(fromModem))
  BY <1>3, <1>6
<1>. QED BY <1>3, <1>4, <1>5, <1>6, <1>7, <1>8, <1>9

\* An answer repeats its request; the one to a GET may bring a client id.
LEMMA AnswerGiven ==
  ASSUME TypeOK, Answer
  PROVE  LET x == Head(toModem)
         IN \E y \in Message :
              /\ fromModem' = Append(fromModem, y)
              /\ y.kind = x.kind /\ y.fd = x.fd /\ y.n = x.n /\ y.tid = x.tid /\ y.rsp
              /\ \/ x.kind = "GET" /\ y.id \in Ids \ alloc /\ alloc' = alloc \cup {y.id}
                 \/ /\ y.id = x.id
                    /\ x.kind = "SYNC" => alloc' = {}
                    /\ x.kind = "REL" => alloc' = alloc \ {x.id}
                    /\ x.kind \notin {"SYNC", "REL"} => alloc' = alloc
<1>. DEFINE x == Head(toModem)
            r == [x EXCEPT !.rsp = TRUE]
<1>1. x \in Message BY QueueSteps DEF Answer, TypeOK
<1>2. r \in Message /\ r.kind = x.kind /\ r.fd = x.fd /\ r.n = x.n /\ r.tid = x.tid /\ r.rsp
      /\ r.id = x.id
  BY <1>1 DEF Message
<1>3. CASE r.kind = "GET" /\ alloc # Ids
  <2>1. PICK i \in Ids \ alloc : /\ alloc' = alloc \cup {i}
                                /\ fromModem' = Append(fromModem, [r EXCEPT !.id = i])
    BY <1>3 DEF Answer
  <2>. DEFINE y == [r EXCEPT !.id = i]
  <2>. HIDE DEF r, x
  <2>2. y \in Message /\ y.kind = r.kind /\ y.fd = r.fd /\ y.n = r.n /\ y.tid = r.tid
        /\ y.rsp = r.rsp /\ y.id = i
    BY <1>2 DEF Message
  <2>3. fromModem' = Append(fromModem, y) BY <2>1
  <2>. HIDE DEF y
  <2>. QED BY <1>2, <1>3, <2>1, <2>2, <2>3 DEF x
<1>4. CASE ~(r.kind = "GET" /\ alloc # Ids)
  <2>1. /\ alloc' = CASE r.kind = "SYNC" -> {}
                      [] r.kind = "REL" -> alloc \ {r.id}
                      [] OTHER -> alloc
        /\ fromModem' = Append(fromModem, r)
    BY <1>4 DEF Answer
  <2>. HIDE DEF r, x
  <2>2. /\ r.kind = "SYNC" => alloc' = {}
        /\ r.kind = "REL" => alloc' = alloc \ {r.id}
        /\ r.kind \notin {"SYNC", "REL"} => alloc' = alloc
    BY <2>1
  <2>. QED BY <1>2, <2>1, <2>2 DEF x
<1>. QED BY <1>3, <1>4

\* An answer of the modem keeps the session in order.
LEMMA AnswerCalm == ASSUME Calm, Answer PROVE SessionInv'
<1>. DEFINE x == Head(toModem)
            k == Len(fromModem) + 1
<1>1. /\ toModem # <<>> /\ toModem' = Tail(toModem)
      /\ UNCHANGED <<main, sync, conn, ids, inbox, client, ctlq, present>>
  BY DEF Answer, proxy, links
<1>2. PICK y \in Message :
        /\ fromModem' = Append(fromModem, y)
        /\ y.kind = x.kind /\ y.fd = x.fd /\ y.n = x.n /\ y.tid = x.tid /\ y.rsp
        /\ \/ x.kind = "GET" /\ y.id \in Ids \ alloc /\ alloc' = alloc \cup {y.id}
           \/ /\ y.id = x.id
              /\ x.kind = "SYNC" => alloc' = {}
              /\ x.kind = "REL" => alloc' = alloc \ {x.id}
              /\ x.kind \notin {"SYNC", "REL"} => alloc' = alloc
  BY AnswerGiven DEF Calm
<1>3. /\ k \in DOMAIN Pipe /\ Pipe[k] = x /\ Pipe'[k] = y
      /\ DOMAIN Pipe' = DOMAIN Pipe /\ Len(Pipe') = Len(Pipe)
      /\ Len(fromModem') = k
      /\ \A p \in DOMAIN Pipe : p # k => /\ Pipe'[p] = Pipe[p]
                                         /\ p <= Len(fromModem') <=> p <= Len(fromModem)
  BY <1>1, <1>2, AnswerPipe DEF Calm
<1>4. Len(fromModem) \in Nat /\ DOMAIN Pipe = 1..Len(Pipe) /\ Len(Pipe) \in Nat
  BY PipeType DEF Calm
<1>5. k \in Nat /\ k > Len(fromModem) /\ (Len(Pipe) = 1 => k = 1) BY <1>3, <1>4
<1>. HIDE DEF x, k
<1>6. ~x.rsp /\ x.kind # "IND" BY <1>3, <1>4, <1>5 DEF Calm, SessionInv, AnsweredInv
<1>7. \A p \in DOMAIN Pipe : /\ Pipe'[p].kind = Pipe[p].kind /\ Pipe'[p].fd = Pipe[p].fd
                             /\ Pipe'[p].n = Pipe[p].n /\ Pipe'[p].tid = Pipe[p].tid
                             /\ Pipe[p].rsp => Pipe'[p].rsp /\ Pipe'[p] = Pipe[p]
                             /\ \/ Pipe'[p].id = Pipe[p].id
                                \/ p = k /\ Pipe[p].kind = "GET" /\ Pipe'[p].rsp
  BY <1>2, <1>3, <1>6
<1>8. InboxInv' /\ QueueInv' /\ IdsInv'
  BY <1>1, ClientsServed
<1>9. SyncInv' BY <1>1, <1>3, <1>7 DEF Calm, SessionInv, SyncInv
<1>10. ControlInv'
  <2>. SUFFICES ASSUME main = "serve", NEW p \in DOMAIN Pipe, Control(Pipe'[p])
                PROVE  /\ \A q \in DOMAIN Pipe : Control(Pipe'[q]) => q = p
                       /\ ctlq # <<>>
                       /\ LET r == Head(ctlq).msg
                          IN /\ Pipe'[p].kind = r.kind /\ Pipe'[p].fd = r.fd
                             /\ Pipe'[p].n = r.n /\ Pipe'[p].tid = r.tid
                             /\ (r.kind = "GET" /\ Pipe'[p].rsp) \/ Pipe'[p].id = r.id
    BY <1>1, <1>3 DEF ControlInv, Control
  <2>1. /\ \A q \in DOMAIN Pipe : Control(Pipe[q]) => q = p
        /\ ctlq # <<>>
        /\ LET r == Head(ctlq).msg
           IN /\ Pipe[p].kind = r.kind /\ Pipe[p].fd = r.fd
              /\ Pipe[p].n = r.n /\ Pipe[p].tid = r.tid
              /\ (r.kind = "GET" /\ Pipe[p].rsp) \/ Pipe[p].id = r.id
    BY <1>7 DEF Calm, SessionInv, ControlInv, Control
  <2>2. \A q \in DOMAIN Pipe : Control(Pipe'[q]) => q = p BY <1>7, <2>1 DEF Control
  <2>3. LET r == Head(ctlq).msg
        IN (r.kind = "GET" /\ Pipe'[p].rsp) \/ Pipe'[p].id = r.id
    BY <1>7, <2>1
  <2>. QED BY <1>7, <2>1, <2>2, <2>3
<1>11. DataInv'
  <2>. SUFFICES ASSUME main = "serve", NEW p \in DOMAIN Pipe, Pipe'[p].kind = "DATA"
                PROVE  /\ Belongs(Pipe'[p], conn, client, inbox)
                       /\ Pipe'[p].id \in ids[Pipe'[p].fd]
                       /\ \A q \in DOMAIN Pipe :
                            Pipe'[q].kind = "REL" /\ Pipe'[q].id = Pipe'[p].id => p < q
    BY <1>1, <1>3 DEF DataInv, Control, OfCaller
  <2>1. Pipe[p].kind = "DATA" BY <1>7
  <2>2. /\ Belongs(Pipe[p], conn, client, inbox) /\ Pipe[p].id \in ids[Pipe[p].fd]
        /\ \A q \in DOMAIN Pipe : Pipe[q].kind = "REL" /\ Pipe[q].id = Pipe[p].id => p < q
    BY <2>1 DEF Calm, SessionInv, DataInv, OfCaller
  <2>3. Belongs(Pipe'[p], conn, client, inbox) BY <1>7, <2>2 DEF Belongs
  <2>4. Pipe'[p].id = Pipe[p].id BY <1>7, <2>1 DEF Control
  <2>. QED BY <1>7, <2>2, <2>3, <2>4
<1>12. AnsweredInv'
  <2>. SUFFICES ASSUME NEW p \in DOMAIN Pipe
                PROVE  IF Pipe'[p].kind = "IND" THEN ~Pipe'[p].rsp /\ p <= Len(fromModem')
                                                ELSE Pipe'[p].rsp <=> p <= Len(fromModem')
    BY <1>3 DEF AnsweredInv
  <2>1. CASE p = k BY <1>2, <1>3, <1>5, <1>6, <2>1
  <2>2. CASE p # k BY <1>3, <2>2 DEF Calm, SessionInv, AnsweredInv
  <2>. QED BY <2>1, <2>2
<1>13. AllocInv'
  <2>1. ASSUME Control(x), main = "serve", NEW q \in DOMAIN Pipe, Control(Pipe[q]) PROVE q = k
    BY <1>3, <2>1 DEF Calm, SessionInv, ControlInv
  <2>2. x.kind = "SYNC" => \A f \in Fds : ids[f] = {}
    <3>1. CASE main = "serve"
      <4>1. Control(x) => ctlq # <<>> /\ x.kind = Head(ctlq).msg.kind
        BY <1>3, <3>1 DEF Calm, SessionInv, ControlInv
      <4>2. ctlq \in Seq(QueueEntry) BY DEF Calm, TypeOK, QueueEntry
      <4>3. ctlq # <<>> => 1 \in DOMAIN ctlq /\ Head(ctlq) = ctlq[1] BY <4>2
      <4>4. ctlq # <<>> => Head(ctlq).msg.kind # "SYNC" BY <4>3 DEF Calm, SessionInv, QueueInv
      <4>. QED BY <4>1, <4>4 DEF Control
    <3>2. CASE main # "serve"
      BY <3>2 DEF Calm, BaseInv, ThreadsInv, ConnInv, Listed, TypeOK
    <3>. QED BY <3>1, <3>2
  <2>3. present
    <3>1. Pipe # <<>> BY <1>3
    <3>. QED BY <3>1 DEF Calm, BaseInv, AbsentInv
  <2>4. ASSUME NEW f \in Fds, NEW i \in ids[f]
        PROVE  i \in alloc \/ \E p \in DOMAIN Pipe :
                                Pipe[p].rsp /\ Pipe[p].kind = "REL" /\ Pipe[p].id = i
    BY <2>3 DEF Calm, SessionInv, AllocInv
  <2>5. ASSUME NEW f \in Fds, NEW i \in ids[f]
        PROVE  i \in alloc' \/ \E p \in DOMAIN Pipe :
                                 Pipe'[p].rsp /\ Pipe'[p].kind = "REL" /\ Pipe'[p].id = i
    <3>1. CASE i \in alloc
      <4>1. x.kind # "SYNC" BY <2>2
      <4>2. x.kind = "REL" /\ i = x.id => Pipe'[k].rsp /\ Pipe'[k].kind = "REL" /\ Pipe'[k].id = i
        BY <1>2, <1>3
      <4>3. ~(x.kind = "REL" /\ i = x.id) => i \in alloc' BY <1>2, <3>1, <4>1
      <4>. QED BY <1>3, <4>2, <4>3
    <3>2. CASE i \notin alloc BY <1>7, <2>4, <3>2
    <3>. QED BY <3>1, <3>2
  <2>6. ASSUME NEW p \in DOMAIN Pipe, Pipe'[p].kind = "GET"
        PROVE  Pipe'[p].id = 0 \/ (Pipe'[p].id \in alloc' /\ \A f \in Fds : Pipe'[p].id \notin ids[f])
    <3>1. Pipe[p].kind = "GET" /\ Control(Pipe[p]) BY <1>7, <2>6 DEF Control
    <3>6. main = "serve"
      <4>1. main \notin {"init", "sync"} BY <3>1 DEF Calm, SessionInv, SyncInv
      <4>. QED BY <4>1 DEF Calm, BaseInv, ThreadsInv, TypeOK
    <3>2. Pipe[p].id = 0 \/ (Pipe[p].id \in alloc /\ \A f \in Fds : Pipe[p].id \notin ids[f])
      BY <3>1 DEF Calm, SessionInv, AllocInv
    <3>3. CASE p = k /\ y.id \in Ids \ alloc /\ alloc' = alloc \cup {y.id}
      <4>1. ASSUME NEW f \in Fds, y.id \in ids[f] PROVE FALSE
        <5>1. PICK q \in DOMAIN Pipe : Pipe[q].kind = "REL" BY <2>4, <3>3, <4>1
        <5>2. Control(x) /\ x.kind = "GET" BY <1>3, <3>1, <3>3
        <5>3. q = k BY <2>1, <3>6, <5>1, <5>2 DEF Control
        <5>. QED BY <1>3, <5>1, <5>2, <5>3
      <4>. QED BY <1>3, <3>3, <4>1
    <3>4. CASE p = k /\ y.id = x.id
      <4>1. alloc \subseteq alloc' BY <1>2, <1>3, <3>1, <3>4
      <4>. QED BY <1>3, <3>2, <3>4, <4>1
    <3>5. CASE p # k
      <4>1. x.kind = "DATA" BY <1>6, <2>1, <3>1, <3>5, <3>6 DEF Control
      <4>. QED BY <1>2, <1>3, <3>2, <3>5, <4>1
    <3>. QED BY <1>2, <3>3, <3>4, <3>5
  <2>. QED BY <1>1, <1>3, <2>5, <2>6 DEF AllocInv
<1>. QED BY <1>8, <1>9, <1>10, <1>11, <1>12, <1>13 DEF SessionInv

\* Only a SYNC can be ignored without disturbing the queue.
LEMMA IgnoreCalm == ASSUME Calm, Ignore, calm' PROVE SessionInv'
<1>1. /\ toModem # <<>> /\ Head(toModem).kind = "SYNC" /\ toModem' = Tail(toModem)
      /\ UNCHANGED <<main, sync, links, ctlq, fromModem, alloc, present>>
  BY DEF Ignore, proxy, Disturbed
<1>2. /\ Len(fromModem) + 1 \in DOMAIN Pipe /\ Pipe[Len(fromModem) + 1] = Head(toModem)
  BY <1>1 DEF Pipe, Calm, TypeOK
<1>3. main \in {"init", "sync"}
  <2>1. ASSUME main = "serve" PROVE FALSE
    <3>1. /\ ctlq # <<>> /\ Head(ctlq).msg.kind = "SYNC"
      BY <1>1, <1>2, <2>1 DEF Calm, SessionInv, ControlInv, Control
    <3>2. ctlq \in Seq(QueueEntry) BY DEF Calm, TypeOK, QueueEntry
    <3>3. 1 \in DOMAIN ctlq /\ Head(ctlq) = ctlq[1] BY <3>1, <3>2
    <3>. QED BY <3>1, <3>3 DEF Calm, SessionInv, QueueInv
  <2>. QED BY <2>1 DEF Calm, BaseInv, ThreadsInv, TypeOK
<1>4. \A p \in DOMAIN Pipe' : \/ /\ p \in DOMAIN Pipe /\ Pipe'[p] = Pipe[p]
                                 /\ p <= Len(fromModem)
                              \/ /\ p + 1 \in DOMAIN Pipe /\ Pipe'[p] = Pipe[p + 1]
                                 /\ ~(p <= Len(fromModem)) /\ ~(p + 1 <= Len(fromModem))
  <2>1. fromModem \in Seq(Message) /\ toModem \in Seq(Message) BY DEF Calm, TypeOK
  <2>. QED BY <1>1, <2>1, PutBack DEF Pipe
<1>5. AnsweredInv' BY <1>1, <1>4 DEF Calm, SessionInv, AnsweredInv
<1>6. \A p \in DOMAIN Pipe' : Pipe'[p].kind \in {"SYNC", "IND"}
  BY <1>3, <1>4 DEF Calm, SessionInv, SyncInv
<1>. QED BY <1>1, <1>3, <1>5, <1>6, NoClients

\* An indication comes behind what the modem has sent and before what it has not read.
LEMMA IndicateCalm == ASSUME Calm, Indicate PROVE SessionInv'
<1>. DEFINE m == [kind |-> "IND", rsp |-> FALSE, fd |-> 0, n |-> 0, tid |-> 0, id |-> 0]
            k == Len(fromModem) + 1
            old(p) == IF p < k THEN p ELSE p - 1
<1>1. /\ fromModem' = Append(fromModem, m)
      /\ UNCHANGED <<main, sync, conn, ids, inbox, client, ctlq, toModem, alloc, present>>
  BY DEF Indicate, proxy, links
<1>2. /\ fromModem \in Seq(Message) /\ toModem \in Seq(Message) /\ m \in Message
  BY DEF Calm, TypeOK, Message, Kinds, Requests
<1>. HIDE DEF m
<1>3. /\ k \in Nat /\ Len(fromModem') = k /\ k \in DOMAIN Pipe' /\ Pipe'[k] = m
      /\ \A p \in DOMAIN Pipe' : p \in Nat
      /\ \A p \in DOMAIN Pipe' : p # k => old(p) \in DOMAIN Pipe /\ Pipe'[p] = Pipe[old(p)]
      /\ \A p \in DOMAIN Pipe : \E q \in DOMAIN Pipe' : Pipe'[q] = Pipe[p]
  <2>1. PutIn(Append(fromModem, m) \o toModem, fromModem \o toModem, k, m) BY <1>2, PutBetween
  <2>2. Pipe' = Append(fromModem, m) \o toModem /\ Pipe = fromModem \o toModem BY <1>1 DEF Pipe
  <2>3. PutIn(Pipe', Pipe, k, m) BY <2>1, <2>2
  <2>4. Len(fromModem') = k BY <1>1, <1>2
  <2>. HIDE DEF k
  <2>. QED BY <2>3, <2>4 DEF PutIn
<1>4. m.kind = "IND" /\ ~m.rsp BY DEF m
<1>. HIDE DEF k
<1>5. \A p \in DOMAIN Pipe' : p # k => (p <= k <=> old(p) <= k - 1) BY <1>3
<1>6. /\ \A p, q \in DOMAIN Pipe' : p # k /\ q # k /\ old(p) < old(q) => p < q
      /\ \A p, q \in DOMAIN Pipe' : p # k /\ q # k /\ old(p) = old(q) => p = q
  BY <1>3
<1>. HIDE DEF old
<1>7. InboxInv' /\ QueueInv' /\ IdsInv' /\ \A x : OfCaller(x) => Belongs(x, conn', client', inbox')
  BY <1>1, ClientsServed
<1>8. SyncInv' BY <1>1, <1>3, <1>4 DEF Calm, SessionInv, SyncInv
<1>9. AnsweredInv'
  <2>1. Len(fromModem) = k - 1 BY <1>2 DEF k
  <2>. QED BY <1>3, <1>4, <1>5, <2>1 DEF Calm, SessionInv, AnsweredInv
<1>10. ControlInv'
  <2>. SUFFICES ASSUME main = "serve", NEW p \in DOMAIN Pipe', Control(Pipe'[p])
                PROVE  /\ \A q \in DOMAIN Pipe' : Control(Pipe'[q]) => q = p
                       /\ ctlq # <<>>
                       /\ LET r == Head(ctlq).msg
                          IN /\ Pipe'[p].kind = r.kind /\ Pipe'[p].fd = r.fd
                             /\ Pipe'[p].n = r.n /\ Pipe'[p].tid = r.tid
                             /\ (r.kind = "GET" /\ Pipe'[p].rsp) \/ Pipe'[p].id = r.id
    BY <1>1 DEF ControlInv, Control
  <2>1. p # k BY <1>3, <1>4 DEF Control
  <2>2. old(p) \in DOMAIN Pipe /\ Pipe'[p] = Pipe[old(p)] BY <1>3, <2>1
  <2>3. /\ \A q \in DOMAIN Pipe : Control(Pipe[q]) => q = old(p)
        /\ ctlq # <<>>
        /\ LET r == Head(ctlq).msg
           IN /\ Pipe'[p].kind = r.kind /\ Pipe'[p].fd = r.fd
              /\ Pipe'[p].n = r.n /\ Pipe'[p].tid = r.tid
              /\ (r.kind = "GET" /\ Pipe'[p].rsp) \/ Pipe'[p].id = r.id
    BY <2>2 DEF Calm, SessionInv, ControlInv
  <2>4. ASSUME NEW q \in DOMAIN Pipe', Control(Pipe'[q]) PROVE q = p
    <3>1. q # k BY <1>3, <1>4, <2>4 DEF Control
    <3>2. old(q) = old(p) BY <1>3, <2>3, <2>4, <3>1
    <3>. QED BY <1>6, <2>1, <3>1, <3>2
  <2>. QED BY <2>3, <2>4
<1>11. DataInv'
  <2>. SUFFICES ASSUME main = "serve", NEW p \in DOMAIN Pipe', Pipe'[p].kind = "DATA"
                PROVE  /\ Belongs(Pipe'[p], conn', client', inbox')
                       /\ Pipe'[p].id \in ids[Pipe'[p].fd]
                       /\ \A q \in DOMAIN Pipe' :
                            Pipe'[q].kind = "REL" /\ Pipe'[q].id = Pipe'[p].id => p < q
    BY <1>1 DEF DataInv, OfCaller
  <2>1. p # k BY <1>3, <1>4
  <2>2. old(p) \in DOMAIN Pipe /\ Pipe'[p] = Pipe[old(p)] BY <1>3, <2>1
  <2>3. /\ OfCaller(Pipe'[p]) /\ Pipe'[p].id \in ids[Pipe'[p].fd]
        /\ \A q \in DOMAIN Pipe :
             Pipe[q].kind = "REL" /\ Pipe[q].id = Pipe'[p].id => old(p) < q
    BY <2>2 DEF Calm, SessionInv, DataInv
  <2>4. ASSUME NEW q \in DOMAIN Pipe', Pipe'[q].kind = "REL", Pipe'[q].id = Pipe'[p].id PROVE p < q
    <3>1. q # k BY <1>3, <1>4, <2>4
    <3>2. old(p) < old(q) BY <1>3, <2>3, <2>4, <3>1
    <3>. QED BY <1>6, <2>1, <3>1, <3>2
  <2>. QED BY <1>7, <2>3, <2>4
<1>12. AllocInv' BY <1>1, <1>3, <1>4 DEF Calm, SessionInv, AllocInv
<1>. QED BY <1>7, <1>8, <1>9, <1>10, <1>11, <1>12 DEF SessionInv

\* A device that is pulled takes with it all that was on its way.
LEMMA UnplugCalm == ASSUME Calm, Unplug PROVE SessionInv'
<1>1. Pipe' = <<>> /\ ~present' /\ UNCHANGED <<main, sync, conn, ids, inbox, client, ctlq>>
  BY DEF Unplug, Pipe, proxy, links
<1>2. InboxInv' /\ QueueInv' /\ IdsInv' BY <1>1, ClientsServed
<1>. QED BY <1>1, <1>2 DEF SessionInv, SyncInv, ControlInv, DataInv, AnsweredInv, AllocInv

\* What is on its way stays in order when the step touches neither it nor the
\* queue, and takes no client id from a connection.
LEMMA PipeKept ==
  ASSUME Calm, UNCHANGED <<main, sync, ctlq, fromModem, toModem, alloc, present>>,
         \A p \in DOMAIN Pipe : OfCaller(Pipe[p]) => Belongs(Pipe[p], conn', client', inbox'),
         \A f \in Fds : ids'[f] = ids[f] \/ (conn[f] # "open" /\ ids'[f] = {})
  PROVE  SyncInv' /\ ControlInv' /\ DataInv' /\ AnsweredInv' /\ AllocInv'
<1>1. Pipe' = Pipe BY DEF Pipe
<1>2. SyncInv' BY <1>1 DEF Calm, SessionInv, SyncInv
<1>3. ControlInv' BY <1>1 DEF Calm, SessionInv, ControlInv, Control
<1>4. AnsweredInv' BY <1>1 DEF Calm, SessionInv, AnsweredInv
<1>5. AllocInv'
  <2>1. \A f \in Fds : \A i \in ids'[f] : i \in ids[f] OBVIOUS
  <2>. QED BY <1>1, <2>1 DEF Calm, SessionInv, AllocInv
<1>6. DataInv'
  <2>. SUFFICES ASSUME main = "serve", NEW p \in DOMAIN Pipe, Pipe[p].kind = "DATA"
                PROVE  /\ Belongs(Pipe[p], conn', client', inbox')
                       /\ Pipe[p].id \in ids'[Pipe[p].fd]
                       /\ \A q \in DOMAIN Pipe :
                            Pipe[q].kind = "REL" /\ Pipe[q].id = Pipe[p].id => p < q
    BY <1>1 DEF DataInv, Control, OfCaller
  <2>1. /\ OfCaller(Pipe[p]) /\ Pipe[p].id \in ids[Pipe[p].fd]
        /\ \A q \in DOMAIN Pipe : Pipe[q].kind = "REL" /\ Pipe[q].id = Pipe[p].id => p < q
    BY DEF Calm, SessionInv, DataInv
  <2>2. Pipe[p].fd \in Fds /\ conn[Pipe[p].fd] = "open" BY <2>1 DEF OfCaller, Belongs
  <2>. QED BY <2>1, <2>2
<1>. QED BY <1>2, <1>3, <1>4, <1>5, <1>6

\* The queue stays in order when the step leaves it and those with a request in it
\* alone, and what is new to be read does not release what is being released.
LEMMA QueueKept ==
  ASSUME Calm, UNCHANGED ctlq,
         \A x : OfCaller(x) /\ (\E a \in DOMAIN ctlq : x = ctlq[a].msg)
                  => /\ Belongs(x, conn', client', inbox') /\ ids'[x.fd] = ids[x.fd]
                     /\ client'[x.fd].has \subseteq client[x.fd].has,
         \A f \in Fds : inbox'[f] # <<>> =>
           \/ inbox'[f] = inbox[f] /\ ids'[f] = ids[f]
           \/ inbox'[f][1].kind = "REL" =>
                /\ inbox'[f][1].id \in ids'[f]
                /\ \A a \in DOMAIN ctlq : ctlq[a].msg.kind = "REL" => ctlq[a].msg.id # inbox'[f][1].id
  PROVE  QueueInv'
<1>1. \A a \in DOMAIN ctlq : LET r == ctlq[a].msg
                             IN /\ ctlq[a].fd = r.fd /\ OfCaller(r)
                                /\ r.kind \in {"GET", "REL", "OTHER"} /\ ~r.rsp
                                /\ r.kind # "REL" => r.id = 0
                                /\ r.kind = "REL" => r.id \in ids[r.fd] \ client[r.fd].has
  BY DEF Calm, SessionInv, QueueInv
<1>2. \A a \in DOMAIN ctlq : LET r == ctlq[a].msg
                             IN /\ ctlq[a].fd = r.fd /\ Belongs(r, conn', client', inbox')
                                /\ r.kind \in {"GET", "REL", "OTHER"} /\ ~r.rsp
                                /\ r.kind # "REL" => r.id = 0
                                /\ r.kind = "REL" => r.id \in ids'[r.fd] \ client'[r.fd].has
  BY <1>1
<1>3. \A f \in Fds : inbox'[f] # <<>> /\ inbox'[f][1].kind = "REL" =>
        /\ inbox'[f][1].id \in ids'[f]
        /\ \A a \in DOMAIN ctlq : ctlq[a].msg.kind = "REL" => ctlq[a].msg.id # inbox'[f][1].id
  BY DEF Calm, SessionInv, QueueInv
<1>. QED BY <1>2, <1>3 DEF Calm, SessionInv, QueueInv, OfCaller

\* A connection without clients, and one that is accepted.
LEMMA ConnectCalm ==
  ASSUME Calm, NEW f \in Fds, Connect(f) \/ Accept(f) PROVE SessionInv'
<1>1. /\ conn[f] \in {"none", "backlog"} /\ conn'[f] \in {"backlog", "open"}
      /\ \A g \in Fds : g # f => conn'[g] = conn[g]
      /\ UNCHANGED <<main, sync, ctlq, fromModem, toModem, alloc, present, inbox, client>>
  <2>1. CASE Connect(f) BY <2>1 DEF Connect, Calm, TypeOK, proxy, modem
  <2>2. CASE Accept(f) BY <2>2 DEF Accept, Calm, TypeOK, proxy, modem
  <2>. QED BY <2>1, <2>2
<1>2. ids[f] = {} BY <1>1 DEF Calm, BaseInv, ConnInv, Listed
<1>3. ids' = ids
  <2>1. ids \in [Fds -> SUBSET Ids] BY DEF Calm, TypeOK
  <2>2. CASE Connect(f) BY <2>2 DEF Connect
  <2>3. CASE Accept(f) BY <1>2, <2>1, <2>3 DEF Accept
  <2>. QED BY <2>2, <2>3
<1>4. \A x : OfCaller(x) => Belongs(x, conn', client', inbox') BY <1>1 DEF OfCaller, Belongs
<1>5. SyncInv' /\ ControlInv' /\ DataInv' /\ AnsweredInv' /\ AllocInv'
  BY <1>1, <1>3, <1>4, PipeKept
<1>6. inbox[f] # <<>> => conn[f] = "backlog" /\ conn'[f] = "open"
  <2>1. CASE Connect(f) BY <2>1 DEF Connect, Calm, BaseInv, ConnInv
  <2>2. CASE Accept(f) BY <2>2 DEF Accept, Calm, TypeOK
  <2>. QED BY <2>1, <2>2
<1>7. InboxInv' BY <1>1, <1>6 DEF Calm, SessionInv, InboxInv
<1>8. QueueInv' BY <1>1, <1>3, <1>4, QueueKept
<1>9. IdsInv' BY <1>1, <1>3 DEF Calm, SessionInv, IdsInv
<1>. QED BY <1>5, <1>7, <1>8, <1>9 DEF SessionInv

\* Clients that go on to their next request.
LEMMA GiveUpCalm ==
  ASSUME Calm, NEW f \in Fds, GiveUp(f), calm' PROVE SessionInv'
<1>1. /\ inbox[f] = <<>> /\ client' = [client EXCEPT ![f].wait = {}]
      /\ UNCHANGED <<main, sync, conn, ids, inbox, ctlq, fromModem, toModem, alloc, present>>
  BY DEF GiveUp, Disturbed, proxy, modem
<1>2. /\ client'[f].wait = {} /\ client'[f].tid = client[f].tid /\ client'[f].has = client[f].has
      /\ \A g \in Fds : g # f => client'[g] = client[g]
  BY <1>1 DEF Calm, TypeOK
<1>3. /\ InboxInv' /\ QueueInv' /\ IdsInv'
      /\ \A x : OfCaller(x) => Belongs(x, conn', client', inbox')
  BY <1>1, <1>2, ClientsServed
<1>4. SyncInv' /\ ControlInv' /\ DataInv' /\ AnsweredInv' /\ AllocInv'
  BY <1>1, <1>3, PipeKept
<1>. QED BY <1>3, <1>4 DEF SessionInv

\* What is on its way is where Busy looks for it.
LEMMA MessageSeen ==
  ASSUME TypeOK, NEW p \in DOMAIN Pipe
  PROVE  \E q \in {toModem, fromModem} : \E i \in DOMAIN q : q[i] = Pipe[p]
<1>1. CASE p <= Len(fromModem)
  <2>1. p \in DOMAIN fromModem /\ fromModem[p] = Pipe[p] BY <1>1, PipeType DEF TypeOK, Pipe
  <2>. QED BY <2>1
<1>2. CASE p > Len(fromModem)
  <2>1. /\ p - Len(fromModem) \in DOMAIN toModem
        /\ toModem[p - Len(fromModem)] = Pipe[p]
    BY <1>2, PipeType DEF TypeOK, Pipe
  <2>. QED BY <2>1
<1>. QED BY <1>1, <1>2, PipeType

\* A client that closes its connection has nothing on its way.
LEMMA CloseCalm ==
  ASSUME Calm, NEW f \in Fds, Close(f), calm' PROVE SessionInv'
<1>1. /\ ~Busy(f) /\ conn' = [conn EXCEPT ![f] = "hup"]
      /\ UNCHANGED <<main, sync, ids, inbox, client, ctlq, fromModem, toModem, alloc, present>>
  BY DEF Close, Disturbed, proxy, modem
<1>2. \A g \in Fds : g # f => conn'[g] = conn[g] BY <1>1 DEF Calm, TypeOK
<1>3. inbox[f] = <<>> /\ \A a \in DOMAIN ctlq : ctlq[a].fd # f BY <1>1 DEF Busy
<1>4. ASSUME NEW p \in DOMAIN Pipe PROVE Pipe[p].fd # f
  <2>1. \E q \in {toModem, fromModem} : \E i \in DOMAIN q : q[i] = Pipe[p]
    BY MessageSeen DEF Calm
  <2>. QED BY <1>1, <2>1 DEF Busy
<1>5. \A x : OfCaller(x) /\ x.fd # f => Belongs(x, conn', client', inbox')
  BY <1>1, <1>2 DEF OfCaller, Belongs
<1>6. SyncInv' /\ ControlInv' /\ DataInv' /\ AnsweredInv' /\ AllocInv'
  BY <1>1, <1>4, <1>5, PipeKept
<1>7. InboxInv' BY <1>1, <1>2, <1>3 DEF Calm, SessionInv, InboxInv
<1>8. QueueInv'
  <2>1. \A a \in DOMAIN ctlq : ctlq[a].msg.fd # f
    BY <1>3 DEF Calm, SessionInv, QueueInv
  <2>. QED BY <1>1, <1>5, <2>1, QueueKept
<1>9. IdsInv' BY <1>1 DEF Calm, SessionInv, IdsInv
<1>. QED BY <1>6, <1>7, <1>8, <1>9 DEF SessionInv

\* A connection that the client has closed is forgotten.
LEMMA CleanupCalm ==
  ASSUME Calm, NEW f \in Fds, Cleanup(f) PROVE SessionInv'
<1>1. /\ conn[f] = "hup" /\ conn' = [conn EXCEPT ![f] = "none"]
      /\ ids' = [ids EXCEPT ![f] = {}] /\ inbox' = [inbox EXCEPT ![f] = <<>>]
      /\ client' = [client EXCEPT ![f] = NoClient] /\ ctlq' = Unqueued(ctlq, f)
      /\ UNCHANGED <<main, sync, fromModem, toModem, alloc, present>>
  BY DEF Cleanup, proxy, modem
<1>2. /\ \A g \in Fds : g # f => /\ conn'[g] = conn[g] /\ ids'[g] = ids[g]
                                 /\ inbox'[g] = inbox[g] /\ client'[g] = client[g]
      /\ ids'[f] = {} /\ inbox'[f] = <<>> /\ client'[f] = NoClient
  BY <1>1 DEF Calm, TypeOK
<1>3. \A a \in DOMAIN ctlq : ctlq[a].fd # f /\ ctlq[a].msg.fd # f
  BY <1>1 DEF Calm, SessionInv, QueueInv, OfCaller, Belongs
<1>4. ctlq' = ctlq
  <2>1. ctlq \in Seq(QueueEntry) BY DEF Calm, TypeOK, QueueEntry
  <2>2. DOMAIN ctlq = 1..Len(ctlq) BY <2>1
  <2>. QED BY <1>1, <1>3, <2>2, RemoveNothing
<1>5. \A x : OfCaller(x) => /\ x.fd \in Fds /\ x.fd # f
                            /\ Belongs(x, conn', client', inbox')
  BY <1>1, <1>2 DEF OfCaller, Belongs
<1>6. SyncInv' /\ ControlInv' /\ DataInv' /\ AnsweredInv' /\ AllocInv'
  BY <1>1, <1>2, <1>4, <1>5, PipeKept
<1>7. InboxInv' BY <1>2 DEF Calm, SessionInv, InboxInv
<1>8. QueueInv' BY <1>2, <1>4, <1>5, QueueKept
<1>9. IdsInv' BY <1>2 DEF Calm, SessionInv, IdsInv, NoClient
<1>. QED BY <1>6, <1>7, <1>8, <1>9 DEF SessionInv

\* A client asks: for a release, its client id is not being released yet.
LEMMA RequestCalm ==
  ASSUME Calm, NEW f \in Fds, NEW k \in Requests, NEW i \in Ids \cup {0},
         Request(f, k, i)
  PROVE  SessionInv'
<1>. DEFINE r == [kind |-> k, rsp |-> FALSE, fd |-> f, n |-> sent + 1,
                  tid |-> client[f].tid + 1, id |-> i]
            c == [wait |-> {r}, tid |-> r.tid,
                  has |-> IF k = "REL" THEN client[f].has \ {i} ELSE client[f].has]
<1>1. /\ conn[f] \in {"backlog", "open"} /\ client[f].wait = {}
      /\ i \in (IF k \in {"REL", "DATA"} THEN client[f].has ELSE {0})
      /\ client' = [client EXCEPT ![f] = c]
      /\ inbox' = [inbox EXCEPT ![f] = Append(inbox[f], r)]
      /\ UNCHANGED <<main, sync, conn, ids, ctlq, fromModem, toModem, alloc, present>>
  BY DEF Request, proxy, modem
<1>2. inbox[f] = <<>> BY <1>1 DEF Calm, SessionInv, InboxInv
<1>3. inbox'[f] = <<r>>
  <2>1. inbox'[f] = Append(inbox[f], r) BY <1>1 DEF Calm, TypeOK
  <2>. HIDE DEF r
  <2>. QED BY <1>2, <2>1
<1>4. client[f].tid \in Nat BY DEF Calm, TypeOK
<1>5. /\ r.kind = k /\ r.id = i /\ r.tid = client[f].tid + 1
      /\ client'[f].wait = {r} /\ client'[f].tid = r.tid
      /\ client'[f].has \subseteq client[f].has
      /\ \A g \in Fds : g # f => client'[g] = client[g] /\ inbox'[g] = inbox[g]
  BY <1>1 DEF Calm, TypeOK
<1>. HIDE DEF r, c
<1>6. \A x \in Message : OfCaller(x) => Belongs(x, conn', client', inbox')
  <2>. SUFFICES ASSUME NEW x \in Message, OfCaller(x) PROVE Belongs(x, conn', client', inbox')
    OBVIOUS
  <2>1. CASE x.fd = f
    <3>1. x.tid <= client[f].tid /\ conn[f] = "open" BY <2>1 DEF OfCaller, Belongs
    <3>2. conn'[f] = "open" BY <1>1, <3>1
    <3>3. x.tid \in Nat BY DEF Message
    <3>4. x.tid < client'[f].tid /\ x.tid <= client'[f].tid BY <1>4, <1>5, <3>1, <3>3
    <3>5. \A w \in client'[f].wait : x.tid # w.tid BY <1>4, <1>5, <3>1, <3>3
    <3>. QED BY <2>1, <3>2, <3>4, <3>5 DEF Belongs
  <2>2. CASE x.fd # f BY <1>1, <1>5, <2>2 DEF OfCaller, Belongs
  <2>. QED BY <2>1, <2>2
<1>7. SyncInv' /\ ControlInv' /\ DataInv' /\ AnsweredInv' /\ AllocInv'
  <2>1. \A p \in DOMAIN Pipe : Pipe[p] \in Message BY PipeType DEF Calm
  <2>. QED BY <1>1, <1>6, <2>1, PipeKept
<1>8. InboxInv'
  <2>1. ASSUME NEW g \in Fds, inbox'[g] # <<>>
        PROVE  /\ conn'[g] \in {"backlog", "open"} /\ client'[g].wait # {}
               /\ \A w \in client'[g].wait : inbox'[g] = <<w>>
    <3>1. CASE g = f BY <1>1, <1>3, <1>5, <3>1
    <3>2. CASE g # f BY <1>1, <1>5, <2>1, <3>2 DEF Calm, SessionInv, InboxInv
    <3>. QED BY <3>1, <3>2
  <2>. QED BY <2>1 DEF InboxInv
<1>9. IdsInv' BY <1>1, <1>5 DEF Calm, SessionInv, IdsInv
<1>10. QueueInv'
  <2>1. \A x : OfCaller(x) => client'[x.fd].has \subseteq client[x.fd].has
    BY <1>5 DEF OfCaller, Belongs
  <2>2. ASSUME r.kind = "REL"
        PROVE  /\ r.id \in ids[f]
               /\ \A a \in DOMAIN ctlq : ctlq[a].msg.kind = "REL" => ctlq[a].msg.id # r.id
    <3>1. i \in client[f].has /\ i \in ids[f]
      BY <1>1, <1>5, <2>2 DEF Calm, SessionInv, IdsInv
    <3>2. ASSUME NEW a \in DOMAIN ctlq, ctlq[a].msg.kind = "REL" PROVE ctlq[a].msg.id # i
      <4>1. /\ ctlq[a].msg.fd \in Fds
            /\ ctlq[a].msg.id \in ids[ctlq[a].msg.fd] \ client[ctlq[a].msg.fd].has
        BY <3>2 DEF Calm, SessionInv, QueueInv, OfCaller, Belongs
      <4>2. \A g \in Fds : g # f => ids[g] \cap ids[f] = {}
        BY DEF Calm, SessionInv, IdsInv
      <4>. QED BY <3>1, <4>1, <4>2
    <3>. QED BY <1>5, <3>1, <3>2
  <2>3. inbox'[f][1] = r BY <1>3
  <2>4. \A g \in Fds : inbox'[g] # <<>> =>
           \/ inbox'[g] = inbox[g] /\ ids'[g] = ids[g]
           \/ inbox'[g][1].kind = "REL" =>
                /\ inbox'[g][1].id \in ids'[g]
                /\ \A a \in DOMAIN ctlq : ctlq[a].msg.kind = "REL" => ctlq[a].msg.id # inbox'[g][1].id
    BY <1>1, <1>5, <2>2, <2>3
  <2>5. \A a \in DOMAIN ctlq : ctlq[a].msg \in Message
    <3>1. ctlq \in Seq(QueueEntry) BY DEF Calm, TypeOK, QueueEntry
    <3>2. \A a \in DOMAIN ctlq : ctlq[a] \in QueueEntry BY <3>1
    <3>. QED BY <3>2 DEF QueueEntry
  <2>. QED BY <1>1, <1>6, <2>1, <2>4, <2>5, QueueKept
<1>. QED BY <1>7, <1>8, <1>9, <1>10 DEF SessionInv

\* What is on its way when a message has been put behind it.
LEMMA PipeExtended ==
  ASSUME TypeOK, NEW r \in Message, fromModem' = fromModem, toModem' = toModem \o <<r>>
  PROVE  LET e == Len(Pipe) + 1
         IN /\ e \in DOMAIN Pipe' /\ Pipe'[e] = r /\ e \in Nat /\ ~(e <= Len(fromModem))
            /\ \A p \in DOMAIN Pipe : p \in DOMAIN Pipe' /\ Pipe'[p] = Pipe[p] /\ p < e
            /\ \A p \in DOMAIN Pipe' : p \in DOMAIN Pipe \/ p = e
<1>1. fromModem \in Seq(Message) /\ toModem \in Seq(Message) BY DEF TypeOK
<1>2. Pipe' = fromModem \o (toModem \o <<r>>) BY DEF Pipe
<1>3. /\ Pipe' \in Seq(Message) /\ Len(Pipe') = Len(Pipe) + 1 /\ Pipe'[Len(Pipe')] = r
      /\ \A p \in 1..Len(Pipe) : Pipe'[p] = Pipe[p]
  BY <1>1, <1>2, PipePut DEF Pipe
<1>4. DOMAIN Pipe = 1..Len(Pipe) /\ Len(Pipe) \in Nat /\ Len(fromModem) \in Nat
      /\ Len(fromModem) <= Len(Pipe)
  BY PipeType
<1>5. DOMAIN Pipe' = 1..(Len(Pipe) + 1) BY <1>3
<1>. QED BY <1>3, <1>4, <1>5

\* What the proxy reads is the request its client waits for.
LEMMA RequestRead ==
  ASSUME Calm, NEW f \in Fds, ReadClient(f)
  PROVE  LET r == inbox[f][1]
         IN /\ main = "serve" /\ conn[f] = "open" /\ inbox[f] # <<>> /\ client[f].wait = {r}
            /\ r \in Message /\ r.fd = f /\ ~r.rsp /\ r.tid = client[f].tid
            /\ r.kind \in {"SYNC", "GET", "REL", "OTHER", "DATA"}
            /\ r.kind = "DATA" => r.id \in client[f].has
            /\ r.kind = "REL" => r.id \notin client[f].has
            /\ r.kind \notin {"DATA", "REL"} => r.id = 0
            /\ FromClient(f, r)
            /\ inbox'[f] = <<>> /\ \A g \in Fds : g # f => inbox'[g] = inbox[g]
            /\ UNCHANGED <<main, sync, conn, ids, client, fromModem, alloc, present>>
<1>. DEFINE r == inbox[f][1]
<1>1. /\ conn[f] = "open" /\ inbox[f] # <<>> /\ inbox' = [inbox EXCEPT ![f] = <<>>]
      /\ Len(inbox[f]) = 1 => FromClient(f, r)
      /\ UNCHANGED <<main, sync, conn, ids, client, fromModem, alloc, present>>
  BY DEF ReadClient, proxy
<1>2. /\ client[f].wait # {} /\ \A w \in client[f].wait : inbox[f] = <<w>>
  BY <1>1 DEF Calm, SessionInv, InboxInv
<1>3. PICK w \in client[f].wait : inbox[f] = <<w>> BY <1>2
<1>4. r = w /\ Len(inbox[f]) = 1 BY <1>3
<1>5. /\ client[f].wait = {w} /\ w.fd = f /\ ~w.rsp /\ w.tid = client[f].tid
      /\ w.kind \in {"SYNC", "GET", "REL", "OTHER", "DATA"}
      /\ w.kind = "DATA" => w.id \in client[f].has
      /\ w.kind = "REL" => w.id \notin client[f].has
      /\ w.kind \notin {"DATA", "REL"} => w.id = 0
  BY <1>3 DEF Calm, BaseInv, ClientInv
<1>6. w \in Message BY <1>3 DEF Calm, TypeOK
<1>7. main = "serve" BY <1>1 DEF Calm, BaseInv, ThreadsInv, ConnInv, TypeOK
<1>8. inbox'[f] = <<>> /\ \A g \in Fds : g # f => inbox'[g] = inbox[g]
  BY <1>1 DEF Calm, TypeOK
<1>. HIDE DEF r
<1>. QED BY <1>1, <1>4, <1>5, <1>6, <1>7, <1>8 DEF r

\* A request is sent, or put in the queue, or both.
LEMMA ReadClientCalm ==
  ASSUME Calm, NEW f \in Fds, ReadClient(f) PROVE SessionInv'
<1>. DEFINE r == inbox[f][1]
            e == Len(Pipe) + 1
            entry == [fd |-> f, msg |-> r]
<1>1. /\ main = "serve" /\ conn[f] = "open" /\ inbox[f] # <<>> /\ client[f].wait = {r}
      /\ r \in Message /\ r.fd = f /\ ~r.rsp /\ r.tid = client[f].tid
      /\ r.kind \in {"SYNC", "GET", "REL", "OTHER", "DATA"}
      /\ r.kind = "DATA" => r.id \in client[f].has
      /\ r.kind = "REL" => r.id \notin client[f].has
      /\ r.kind \notin {"DATA", "REL"} => r.id = 0
      /\ FromClient(f, r)
      /\ inbox'[f] = <<>> /\ \A g \in Fds : g # f => inbox'[g] = inbox[g]
      /\ UNCHANGED <<main, sync, conn, ids, client, fromModem, alloc, present>>
  BY RequestRead
<1>2. entry.fd = f /\ entry.msg = r OBVIOUS
<1>3. ctlq \in Seq(QueueEntry) /\ entry \in QueueEntry
  BY <1>1 DEF Calm, TypeOK, QueueEntry
<1>. HIDE DEF r, e, entry
<1>4. /\ r.kind \in {"SYNC", "DATA"} => ctlq' = ctlq
      /\ r.kind \notin {"SYNC", "DATA"} => ctlq' = Append(ctlq, entry)
      /\ \/ toModem' = toModem
         \/ toModem' = toModem \o <<r>> /\ r.kind # "SYNC" /\ (r.kind = "DATA" \/ ctlq = <<>>)
  BY <1>1 DEF FromClient, Written, entry
<1>5. \A x : OfCaller(x) => Belongs(x, conn', client', inbox')
  BY <1>1 DEF OfCaller, Belongs
<1>6. Belongs(r, conn', client', inbox')
  <2>1. client[f].tid \in Nat BY DEF Calm, TypeOK
  <2>. QED BY <1>1, <2>1 DEF Belongs
<1>7. \/ Pipe' = Pipe
      \/ /\ r.kind # "SYNC" /\ (r.kind = "DATA" \/ ctlq = <<>>)
         /\ e \in DOMAIN Pipe' /\ Pipe'[e] = r /\ e \in Nat /\ ~(e <= Len(fromModem))
         /\ \A p \in DOMAIN Pipe : p \in DOMAIN Pipe' /\ Pipe'[p] = Pipe[p] /\ p < e
         /\ \A p \in DOMAIN Pipe' : p \in DOMAIN Pipe \/ p = e
  <2>1. toModem' = toModem => Pipe' = Pipe BY <1>1 DEF Pipe
  <2>2. TypeOK BY DEF Calm
  <2>3. CASE toModem' = toModem \o <<r>>
    <3>1. /\ e \in DOMAIN Pipe' /\ Pipe'[e] = r /\ e \in Nat /\ ~(e <= Len(fromModem))
          /\ \A p \in DOMAIN Pipe : p \in DOMAIN Pipe' /\ Pipe'[p] = Pipe[p] /\ p < e
          /\ \A p \in DOMAIN Pipe' : p \in DOMAIN Pipe \/ p = e
      BY <1>1, <2>2, <2>3, PipeExtended DEF e
    <3>. QED BY <1>4, <2>1, <3>1
  <2>. QED BY <1>4, <2>1, <2>3
<1>8. /\ \A p \in DOMAIN Pipe : p \in DOMAIN Pipe' /\ Pipe'[p] = Pipe[p]
      /\ \A p \in DOMAIN Pipe' : \/ p \in DOMAIN Pipe /\ Pipe'[p] = Pipe[p]
                                 \/ /\ p = e /\ Pipe'[p] = r /\ ~(p <= Len(fromModem))
                                    /\ r.kind # "SYNC" /\ (r.kind = "DATA" \/ ctlq = <<>>)
                                    /\ \A q \in DOMAIN Pipe : q < e
  BY <1>7
<1>9. SyncInv' BY <1>1 DEF SyncInv
<1>10. InboxInv' BY <1>1 DEF Calm, SessionInv, InboxInv
<1>11. IdsInv' BY <1>1 DEF Calm, SessionInv, IdsInv
<1>12. AnsweredInv' BY <1>1, <1>8 DEF Calm, SessionInv, AnsweredInv
<1>13. AllocInv'
  <2>1. r.kind = "GET" => r.id = 0 BY <1>1
  <2>. QED BY <1>1, <1>8, <2>1 DEF Calm, SessionInv, AllocInv
<1>14. ASSUME r.kind \in {"DATA", "REL"}
       PROVE  /\ r.id \in ids[f]
              /\ \A a \in DOMAIN ctlq : ctlq[a].msg.kind = "REL" => ctlq[a].msg.id # r.id
  <2>1. CASE r.kind = "REL"
    BY <1>1, <2>1 DEF Calm, SessionInv, QueueInv, r
  <2>2. CASE r.kind = "DATA"
    <3>1. r.id \in client[f].has /\ r.id \in ids[f]
      BY <1>1, <2>2 DEF Calm, SessionInv, IdsInv
    <3>2. ASSUME NEW a \in DOMAIN ctlq, ctlq[a].msg.kind = "REL" PROVE ctlq[a].msg.id # r.id
      <4>1. /\ ctlq[a].msg.fd \in Fds
            /\ ctlq[a].msg.id \in ids[ctlq[a].msg.fd] \ client[ctlq[a].msg.fd].has
        BY <3>2 DEF Calm, SessionInv, QueueInv, OfCaller, Belongs
      <4>2. \A g \in Fds : g # f => ids[g] \cap ids[f] = {}
        BY DEF Calm, SessionInv, IdsInv
      <4>. QED BY <3>1, <4>1, <4>2
    <3>. QED BY <3>1, <3>2
  <2>. QED BY <1>14, <2>1, <2>2
<1>15. /\ ctlq # <<>> => 1 \in DOMAIN ctlq /\ Head(ctlq) = ctlq[1]
       /\ ctlq # <<>> => ctlq' # <<>> /\ Head(ctlq') = Head(ctlq)
       /\ r.kind \notin {"SYNC", "DATA"} /\ ctlq = <<>> => ctlq' # <<>> /\ Head(ctlq') = entry
  <2>1. ctlq # <<>> => 1 \in DOMAIN ctlq /\ Head(ctlq) = ctlq[1] BY <1>3
  <2>2. LET q == Append(ctlq, entry)
        IN /\ ctlq # <<>> => q # <<>> /\ Head(q) = Head(ctlq)
           /\ ctlq = <<>> => q # <<>> /\ Head(q) = entry
    BY <1>3
  <2>. QED BY <1>4, <2>1, <2>2
<1>16. DataInv'
  <2>. SUFFICES ASSUME NEW p \in DOMAIN Pipe', Pipe'[p].kind = "DATA"
                PROVE  /\ Belongs(Pipe'[p], conn', client', inbox')
                       /\ Pipe'[p].id \in ids[Pipe'[p].fd]
                       /\ \A q \in DOMAIN Pipe' :
                            Pipe'[q].kind = "REL" /\ Pipe'[q].id = Pipe'[p].id => p < q
    BY <1>1 DEF DataInv, Control, OfCaller
  <2>1. CASE p \in DOMAIN Pipe /\ Pipe'[p] = Pipe[p]
    <3>1. /\ OfCaller(Pipe[p]) /\ Pipe[p].id \in ids[Pipe[p].fd]
          /\ \A q \in DOMAIN Pipe : Pipe[q].kind = "REL" /\ Pipe[q].id = Pipe[p].id => p < q
      BY <1>1, <2>1 DEF Calm, SessionInv, DataInv
    <3>2. \A q \in DOMAIN Pipe' :
            Pipe'[q].kind = "REL" /\ Pipe'[q].id = Pipe'[p].id => p < q
      BY <1>8, <2>1, <3>1
    <3>. QED BY <1>5, <2>1, <3>1, <3>2
  <2>2. CASE p = e /\ Pipe'[p] = r
    <3>1. r.kind = "DATA" BY <2>2 DEF Control
    <3>2. ASSUME NEW q \in DOMAIN Pipe, Pipe[q].kind = "REL" PROVE Pipe[q].id # r.id
      <4>1. /\ ctlq # <<>> /\ Head(ctlq).msg.kind = "REL" /\ Pipe[q].id = Head(ctlq).msg.id
        BY <1>1, <3>2 DEF Calm, SessionInv, ControlInv, Control
      <4>. QED BY <1>14, <1>15, <3>1, <4>1
    <3>. QED BY <1>1, <1>6, <1>8, <1>14, <2>2, <3>1, <3>2
  <2>. QED BY <1>8, <2>1, <2>2
<1>17. ControlInv'
  <2>. SUFFICES ASSUME NEW p \in DOMAIN Pipe', Control(Pipe'[p])
                PROVE  /\ \A q \in DOMAIN Pipe' : Control(Pipe'[q]) => q = p
                       /\ ctlq' # <<>>
                       /\ LET h == Head(ctlq').msg
                          IN /\ Pipe'[p].kind = h.kind /\ Pipe'[p].fd = h.fd
                             /\ Pipe'[p].n = h.n /\ Pipe'[p].tid = h.tid
                             /\ (h.kind = "GET" /\ Pipe'[p].rsp) \/ Pipe'[p].id = h.id
    BY DEF ControlInv, Control
  <2>1. CASE p \in DOMAIN Pipe /\ Pipe'[p] = Pipe[p]
    <3>1. /\ \A q \in DOMAIN Pipe : Control(Pipe[q]) => q = p
          /\ ctlq # <<>>
          /\ LET h == Head(ctlq).msg
             IN /\ Pipe[p].kind = h.kind /\ Pipe[p].fd = h.fd
                /\ Pipe[p].n = h.n /\ Pipe[p].tid = h.tid
                /\ (h.kind = "GET" /\ Pipe[p].rsp) \/ Pipe[p].id = h.id
      BY <1>1, <2>1 DEF Calm, SessionInv, ControlInv
    <3>2. \A q \in DOMAIN Pipe' : Control(Pipe'[q]) => q = p
      BY <1>8, <3>1 DEF Control
    <3>. QED BY <1>15, <2>1, <3>1, <3>2
  <2>2. CASE p = e /\ Pipe'[p] = r /\ r.kind # "SYNC" /\ (r.kind = "DATA" \/ ctlq = <<>>)
    <3>1. r.kind # "DATA" BY <2>2 DEF Control
    <3>2. Head(ctlq') = entry /\ ctlq' # <<>> /\ ctlq = <<>> BY <1>15, <2>2, <3>1
    <3>3. \A q \in DOMAIN Pipe : ~Control(Pipe[q])
      BY <1>1, <3>2 DEF Calm, SessionInv, ControlInv
    <3>4. \A q \in DOMAIN Pipe' : Control(Pipe'[q]) => q = p BY <1>8, <2>2, <3>3
    <3>. QED BY <1>2, <2>2, <3>2, <3>4
  <2>. QED BY <1>8, <2>1, <2>2
<1>18. QueueInv'
  <2>1. CASE ctlq' = ctlq
    <3>1. \A g \in Fds : inbox'[g] # <<>> => inbox'[g] = inbox[g] BY <1>1
    <3>. QED BY <1>1, <1>5, <2>1, <3>1, QueueKept
  <2>2. CASE ctlq' = Append(ctlq, entry) /\ r.kind \notin {"SYNC", "DATA"}
    <3>1. \A a \in DOMAIN ctlq' : \/ a \in DOMAIN ctlq /\ ctlq'[a] = ctlq[a]
                                  \/ a = Len(ctlq) + 1 /\ ctlq'[a] = entry
      BY <1>3, <2>2
    <3>2. \A a \in DOMAIN ctlq : LET x == ctlq[a].msg
                                 IN /\ ctlq[a].fd = x.fd /\ OfCaller(x)
                                    /\ x.kind \in {"GET", "REL", "OTHER"} /\ ~x.rsp
                                    /\ x.kind # "REL" => x.id = 0
                                    /\ x.kind = "REL" => x.id \in ids[x.fd] \ client[x.fd].has
      BY DEF Calm, SessionInv, QueueInv
    <3>3. \A a \in DOMAIN ctlq' : LET x == ctlq'[a].msg
                                  IN /\ ctlq'[a].fd = x.fd /\ Belongs(x, conn', client', inbox')
                                     /\ x.kind \in {"GET", "REL", "OTHER"} /\ ~x.rsp
                                     /\ x.kind # "REL" => x.id = 0
                                     /\ x.kind = "REL" => x.id \in ids'[x.fd] \ client'[x.fd].has
      BY <1>1, <1>2, <1>5, <1>6, <1>14, <2>2, <3>1, <3>2
    <3>4. \A a, b \in DOMAIN ctlq :
            ctlq[a].msg.kind = "REL" /\ ctlq[b].msg.kind = "REL" /\ ctlq[a].msg.id = ctlq[b].msg.id
              => a = b
      BY DEF Calm, SessionInv, QueueInv
    <3>5. \A a, b \in DOMAIN ctlq' :
            ctlq'[a].msg.kind = "REL" /\ ctlq'[b].msg.kind = "REL"
            /\ ctlq'[a].msg.id = ctlq'[b].msg.id => a = b
      BY <1>2, <1>14, <3>1, <3>4
    <3>6. ASSUME NEW g \in Fds, inbox'[g] # <<>>, inbox'[g][1].kind = "REL"
          PROVE  /\ inbox'[g][1].id \in ids'[g]
                 /\ \A a \in DOMAIN ctlq' : ctlq'[a].msg.kind = "REL" =>
                                              ctlq'[a].msg.id # inbox'[g][1].id
      <4>1. g # f /\ inbox'[g] = inbox[g] BY <1>1, <3>6
      <4>2. /\ inbox[g][1].id \in ids[g]
            /\ \A a \in DOMAIN ctlq : ctlq[a].msg.kind = "REL" => ctlq[a].msg.id # inbox[g][1].id
        BY <3>6, <4>1 DEF Calm, SessionInv, QueueInv
      <4>3. ids[f] \cap ids[g] = {} BY <4>1 DEF Calm, SessionInv, IdsInv
      <4>4. r.kind = "REL" => r.id # inbox[g][1].id BY <1>14, <4>2, <4>3
      <4>. QED BY <1>1, <1>2, <3>1, <4>1, <4>2, <4>4
    <3>. QED BY <3>3, <3>5, <3>6 DEF QueueInv, OfCaller
  <2>. QED BY <1>4, <2>1, <2>2
<1>. QED BY <1>9, <1>10, <1>11, <1>12, <1>13, <1>16, <1>17, <1>18 DEF SessionInv

\* A session starts when the device is opened; SIGPIPE is raised by what is
\* handed on only.
LEMMA SessionStarts ==
  ASSUME [Next]_vars, ~Open, ~RecvCtl, ~RecvData
  PROVE  /\ calm' => calm
         /\ loop' = "run" => loop = "run"
         /\ loop' = "killed" => loop = "killed"
<1>. USE DEF vars, proxy, bounds, Disturbed, Undisturbed
<1>1. CASE UNCHANGED vars BY <1>1
<1>2. CASE Main BY <1>2 DEF Main, SendSync, StartServer, CloseServer
<1>3. CASE Loop BY <1>3 DEF Loop, Recv, RecvSync, LoopExits, Accept, ReadClient, Cleanup
<1>4. CASE Clients
  <2>1. ASSUME NEW f \in Fds, Connect(f) \/ GiveUp(f) \/ Close(f)
        PROVE  UNCHANGED proxy /\ (calm' => calm)
    BY <2>1 DEF Connect, GiveUp, Close
  <2>2. ASSUME NEW f \in Fds, NEW k \in Requests, NEW i \in Ids \cup {0}, Request(f, k, i)
        PROVE  UNCHANGED proxy /\ (calm' => calm)
    BY <2>2 DEF Request
  <2>. QED BY <1>4, <2>1, <2>2 DEF Clients
<1>5. CASE Modem
  <2>1. CASE Answer BY <2>1 DEF Answer
  <2>2. CASE Ignore BY <2>2 DEF Ignore
  <2>3. CASE Revoke BY <2>3 DEF Revoke
  <2>4. CASE Unplug \/ Replug \/ Indicate BY <2>4 DEF Unplug, Replug, Indicate
  <2>. QED BY <1>5, <2>1, <2>2, <2>3, <2>4 DEF Modem
<1>. QED BY <1>1, <1>2, <1>3, <1>4, <1>5 DEF Next

\* What clients of a proxy that has died still do gives them no client id.
LEMMA KilledStep ==
  ASSUME TypeOK, BaseInv, loop = "killed", IdsInv, [Next]_vars
  PROVE  IdsInv' /\ loop' = "killed" /\ (calm' => calm)
<1>. USE DEF vars, proxy, links, modem, bounds
<1>1. main = "killed" BY DEF BaseInv, ThreadsInv
<1>2. ~Main /\ ~Loop
  BY <1>1 DEF Main, Open, SendSync, StartServer, CloseServer, Loop, Recv, RecvSync, RecvCtl,
              RecvData, LoopExits, Accept, ReadClient, Cleanup
<1>3. CASE UNCHANGED vars BY <1>3 DEF IdsInv
<1>4. CASE Clients
  <2>1. PICK f \in Fds : GiveUp(f) \/ Close(f)
    BY <1>1, <1>4 DEF Clients, Connect, Request
  <2>2. UNCHANGED <<ids, loop>> BY <2>1 DEF GiveUp, Close
  <2>3. \A g \in Fds : client'[g].has = client[g].has
    <3>1. CASE Close(f) BY <3>1 DEF Close
    <3>2. CASE GiveUp(f)
      <4>1. client' = [client EXCEPT ![f].wait = {}] BY <3>2 DEF GiveUp
      <4>2. client'[f].has = client[f].has BY <4>1 DEF TypeOK
      <4>3. \A g \in Fds \ {f} : client'[g] = client[g] BY <4>1 DEF TypeOK
      <4>. QED BY <4>2, <4>3
    <3>. QED BY <2>1, <3>1, <3>2
  <2>4. calm' => calm BY <2>1 DEF GiveUp, Close, Disturbed, Undisturbed
  <2>. QED BY <2>2, <2>3, <2>4 DEF IdsInv
<1>5. CASE Modem
  <2>1. UNCHANGED <<proxy, links>>
    <3>1. CASE Answer BY <3>1, Zenon DEF Answer
    <3>2. CASE Ignore \/ Revoke \/ Unplug BY <3>2 DEF Ignore, Revoke, Unplug
    <3>3. CASE Replug \/ Indicate BY <3>3 DEF Replug, Indicate
    <3>. QED BY <1>5, <3>1, <3>2, <3>3 DEF Modem
  <2>2. calm' => calm
    <3>1. CASE Answer BY <3>1, Zenon DEF Answer
    <3>2. CASE Ignore \/ Revoke \/ Unplug BY <3>2 DEF Ignore, Revoke, Unplug, Disturbed
    <3>3. CASE Replug \/ Indicate BY <3>3 DEF Replug, Indicate
    <3>. QED BY <1>5, <3>1, <3>2, <3>3 DEF Modem
  <2>. QED BY <2>1, <2>2 DEF IdsInv
<1>. QED BY <1>2, <1>3, <1>4, <1>5 DEF Next

\* Every step that does not disturb the queue keeps the session in order.
LEMMA SessionStep ==
  ASSUME Calm, TypeOK', [Next]_vars, ~Open, calm', loop' = "run" PROVE SessionInv'
<1>1. CASE UNCHANGED vars
  <2>1. UNCHANGED <<main, sync, conn, ids, inbox, client, ctlq, fromModem, toModem, alloc, present>>
    BY <1>1 DEF vars, proxy, links, modem
  <2>2. InboxInv' /\ QueueInv' /\ IdsInv'
        /\ \A x : OfCaller(x) => Belongs(x, conn', client', inbox')
    BY <2>1, ClientsServed
  <2>3. SyncInv' /\ ControlInv' /\ DataInv' /\ AnsweredInv' /\ AllocInv'
    BY <2>1, <2>2, PipeKept
  <2>. QED BY <2>2, <2>3 DEF SessionInv
<1>2. CASE Main
  <2>1. ~CloseServer BY DEF CloseServer
  <2>. QED BY <1>2, <2>1, SendSyncCalm, StartServerCalm DEF Main
<1>3. CASE Loop
  <2>1. ~LoopExits BY DEF LoopExits
  <2>. QED BY <1>3, <2>1, RecvSyncCalm, RecvCtlCalm, RecvDataCalm, ConnectCalm,
              ReadClientCalm, CleanupCalm DEF Loop, Recv
<1>4. CASE Clients
  BY <1>4, ConnectCalm, GiveUpCalm, CloseCalm, RequestCalm DEF Clients
<1>5. CASE Modem
  <2>1. ~Revoke BY DEF Revoke, Disturbed
  <2>2. ~Replug BY DEF Replug, Calm
  <2>. QED BY <1>5, <2>1, <2>2, AnswerCalm, IgnoreCalm, IndicateCalm, UnplugCalm DEF Modem
<1>. QED BY <1>1, <1>2, <1>3, <1>4, <1>5 DEF Next

\* The invariant is inductive.
LEMMA InvInit == Init => IInv
BY TypeInit, BaseInit DEF IInv, CalmInv, Init

\* Every step of the proxy, its clients and the modem keeps the invariant.
LEMMA InvStep == IInv /\ [Next]_vars => IInv'
<1>. SUFFICES ASSUME IInv, [Next]_vars PROVE IInv'
  OBVIOUS
<1>1. TypeOK' /\ BaseInv' BY TypeStep, BaseStep DEF IInv
<1>2. CalmInv'
  <2>1. CASE Open
    <3>1. SessionInv' BY <2>1, OpenCalm DEF IInv
    <3>. QED BY <2>1, <3>1 DEF CalmInv, Open
  <2>2. CASE loop = "run" /\ (RecvCtl \/ RecvData)
    <3>1. calm' = calm BY <2>2 DEF RecvCtl, RecvData, bounds
    <3>2. ASSUME calm PROVE SessionInv'
      <4>1. Calm BY <2>2, <3>2, <1>1 DEF IInv, BaseInv, ThreadsInv, CalmInv, Calm
      <4>. QED BY <1>1, <2>2, <4>1, RecvCtlCalm, RecvDataCalm
    <3>. QED BY <3>1, <3>2 DEF CalmInv, SessionInv
  <2>3. CASE loop = "killed"
    <3>1. calm => IdsInv BY <2>3 DEF IInv, CalmInv
    <3>2. calm => IdsInv' /\ loop' = "killed" BY <2>3, <3>1, KilledStep DEF IInv
    <3>3. ~Open /\ ~RecvCtl /\ ~RecvData
      BY <2>3 DEF IInv, BaseInv, ThreadsInv, Open, RecvCtl, RecvData
    <3>4. calm' => calm BY <3>3, SessionStarts
    <3>. QED BY <3>2, <3>4 DEF CalmInv
  <2>4. CASE ~Open /\ ~RecvCtl /\ ~RecvData /\ loop # "killed"
    <3>1. /\ calm' => calm
          /\ loop' = "run" => loop = "run"
          /\ loop' = "killed" => loop = "killed"
      BY <2>4, SessionStarts
    <3>2. ASSUME calm', loop' = "run" PROVE SessionInv'
      <4>1. Calm BY <3>1, <3>2 DEF IInv, BaseInv, ThreadsInv, CalmInv, Calm
      <4>. QED BY <1>1, <2>4, <3>2, <4>1, SessionStep
    <3>. QED BY <2>4, <3>1, <3>2 DEF CalmInv
  <2>5. RecvCtl \/ RecvData => loop = "run" BY DEF RecvCtl, RecvData
  <2>. QED BY <2>1, <2>2, <2>3, <2>4, <2>5
<1>. QED BY <1>1, <1>2 DEF IInv

\* It holds in every state of the proxy.
THEOREM Invariance == Spec => []IInv
BY InvInit, InvStep, PTL DEF Spec

-----------------------------------------------------------------------------
(* What it is for                                                          *)

\* Client ids that a client holds are noted for its connection and for no other,
\* in every session without disturbances (get_client_id, release_client_id).
THEOREM IdsRouted == Spec => []HeldIdsRouted
<1>1. IInv => HeldIdsRouted
  <2>. SUFFICES ASSUME IInv, calm, NEW f \in Fds, conn[f] = "open"
                PROVE  /\ client[f].has \subseteq ids[f]
                       /\ \A g \in Fds \ {f} : ids[f] \cap ids[g] = {}
    BY DEF HeldIdsRouted
  <2>1. loop \in {"run", "killed"}
    BY DEF IInv, BaseInv, ConnInv, Listed, TypeOK
  <2>. QED BY <2>1 DEF IInv, CalmInv, SessionInv, IdsInv
<1>. QED BY <1>1, Invariance, PTL

\* As long as nothing disturbs the control queue, no answer makes the proxy die of
\* SIGPIPE (send_qmi_to_client): whoever is answered is there.  What kills it is an
\* indication, which recv_qmi_from_dev writes to every connection with a client of
\* its service, one that has just been closed included.
THEOREM KilledByIndication ==
  Spec => [][calm /\ loop # "killed" /\ loop' = "killed" =>
               Head(fromModem).kind = "IND" /\ \E f \in Fds : conn[f] = "hup"]_vars
<1>. DEFINE A == calm /\ loop # "killed" /\ loop' = "killed" =>
                   Head(fromModem).kind = "IND" /\ \E f \in Fds : conn[f] = "hup"
<1>1. IInv /\ [Next]_vars => A
  <2>. SUFFICES ASSUME IInv, [Next]_vars, calm, loop # "killed", loop' = "killed"
                PROVE  Head(fromModem).kind = "IND" /\ \E f \in Fds : conn[f] = "hup"
    OBVIOUS
  <2>1. ~Open BY DEF Open
  <2>2. RecvCtl \/ RecvData BY <2>1, SessionStarts
  <2>3. Calm BY <2>2 DEF RecvCtl, RecvData, IInv, BaseInv, ThreadsInv, CalmInv, Calm
  <2>4. ~RecvCtl BY <2>3, HeadTaken
  <2>5. Head(fromModem).kind = "IND" BY <2>2, <2>3, <2>4, DataTaken
  <2>6. PICK F \in Addressed(Head(fromModem)) : Forward(F, Head(fromModem)) BY <2>2, <2>4 DEF RecvData
  <2>7. F \subseteq Fds BY <2>6 DEF Addressed
  <2>8. \E f \in F : conn[f] = "hup" BY <2>6 DEF Forward
  <2>. QED BY <2>5, <2>7, <2>8
<1>. QED BY <1>1, Invariance, PTL DEF Spec

\* At most one message of the control service is on its way, and it is the one at
\* the head of qmi_proxy_ctl_msg or the answer to it: recv_qmi_from_dev, which
\* looks at no transaction id, gives the answer to the client that asked.
THEOREM OneAtATime == Spec => [](calm /\ loop = "run" => ControlInv)
<1>1. IInv => (calm /\ loop = "run" => ControlInv)
  BY DEF IInv, CalmInv, SessionInv
<1>. QED BY <1>1, Invariance, PTL

\* What a step other than an answer leaves of a client that stays connected.
LEMMA StillWaiting ==
  ASSUME TypeOK, [Next]_vars, ~RecvCtl, ~RecvData,
         fromModem # <<>>, fromModem' = Tail(fromModem),
         NEW f \in Fds, client[f].wait # {}, conn'[f] = "open"
  PROVE  client'[f].wait # {}
<1>. USE DEF vars, proxy, links, modem, bounds
<1>1. Tail(fromModem) # fromModem BY DEF TypeOK
<1>2. CASE UNCHANGED vars BY <1>2
<1>3. CASE Main BY <1>1, <1>3 DEF Main, Open, SendSync, StartServer, CloseServer
<1>4. CASE Loop
  <2>1. CASE LoopExits
    <3>1. ~Listed(f) BY <2>1 DEF LoopExits
    <3>. QED BY <2>1, <3>1 DEF LoopExits
  <2>2. ASSUME NEW g \in Fds, Cleanup(g) PROVE client'[f].wait # {}
    <3>1. f # g BY <2>2 DEF Cleanup, TypeOK
    <3>. QED BY <2>2, <3>1 DEF Cleanup, TypeOK
  <2>3. ASSUME NEW g \in Fds, Accept(g) \/ ReadClient(g) PROVE client'[f].wait # {}
    BY <2>3 DEF Accept, ReadClient
  <2>4. CASE Recv BY <2>4 DEF Recv, RecvSync
  <2>. QED BY <1>4, <2>1, <2>2, <2>3, <2>4 DEF Loop
<1>5. CASE Clients
  <2>1. PICK g \in Fds :
          \/ Connect(g) \/ GiveUp(g) \/ Close(g)
          \/ \E k \in Requests, i \in Ids \cup {0} : Request(g, k, i)
    BY <1>5 DEF Clients
  <2>2. UNCHANGED modem
    BY <2>1 DEF Connect, GiveUp, Close, Request
  <2>. QED BY <1>1, <2>2
<1>6. CASE Modem
  <2>1. CASE Answer
    <3>1. UNCHANGED links BY <2>1, Zenon DEF Answer
    <3>. QED BY <3>1
  <2>2. CASE Ignore BY <2>2 DEF Ignore
  <2>3. CASE Revoke BY <2>3 DEF Revoke
  <2>4. CASE Unplug \/ Replug \/ Indicate BY <2>4 DEF Unplug, Replug, Indicate
  <2>. QED BY <1>6, <2>1, <2>2, <2>3, <2>4 DEF Modem
<1>. QED BY <1>2, <1>3, <1>4, <1>5, <1>6 DEF Next

\* A client that takes an answer for its own is right, although it compares
\* transaction ids only (is_response) and clients' transaction ids coincide.
THEOREM AnswersAreForCallers == Spec => AnswerIsForCaller
<1>. DEFINE A == calm /\ fromModem # <<>> /\ fromModem' = Tail(fromModem) =>
                   \A f \in Fds : \A r \in client[f].wait :
                     client'[f].wait = {} /\ conn'[f] = "open" => Head(fromModem).n = r.n
<1>1. IInv /\ [Next]_vars => A
  <2>. SUFFICES ASSUME IInv, [Next]_vars, calm, fromModem # <<>>, fromModem' = Tail(fromModem),
                       NEW f \in Fds, NEW r \in client[f].wait,
                       client'[f].wait = {}, conn'[f] = "open"
                PROVE  Head(fromModem).n = r.n
    OBVIOUS
  <2>. DEFINE m == Head(fromModem)
  <2>1. RecvCtl \/ RecvData BY StillWaiting DEF IInv
  <2>2. Calm BY <2>1 DEF RecvCtl, RecvData, IInv, BaseInv, ThreadsInv, CalmInv, Calm
  <2>3. f = m.fd /\ Accepts(client[f], m)
    BY <2>1, <2>2, HeadTaken, DataTaken
  <2>4. r.tid = m.tid BY <2>2, <2>3 DEF Accepts, Calm, BaseInv, ClientInv
  <2>5. CASE RecvCtl
    <3>1. /\ OfCaller(Head(ctlq).msg) /\ m.fd = Head(ctlq).msg.fd
          /\ m.n = Head(ctlq).msg.n /\ m.tid = Head(ctlq).msg.tid
      BY <2>2, <2>5, HeadAnswered
    <3>. QED BY <2>3, <2>4, <3>1 DEF OfCaller, Belongs
  <2>6. CASE RecvData
    <3>1. OfCaller(m) BY <2>2, <2>6, DataTaken DEF Calm, BaseInv, ClientInv
    <3>. QED BY <2>3, <2>4, <3>1 DEF OfCaller, Belongs
  <2>. QED BY <2>1, <2>5, <2>6
<1>. QED BY <1>1, Invariance, PTL DEF Spec, AnswerIsForCaller
=============================================================================
