------------------------------ MODULE QmiProxy ------------------------------
(***************************************************************************)
(* quectel-qmi-proxy: one QMI device shared by several connection managers *)
(* (quectel_cm_5G/src/quectel-qmi-proxy.c).                                *)
(*                                                                         *)
(* Requests to the control service carry no client id, so the proxy sends  *)
(* one at a time: qmi_proxy_ctl_msg queues them, its head is the one at    *)
(* the modem, and whatever response the control service gives next is the  *)
(* head's.  Everything else is routed by the client ids that a connection  *)
(* was given.  The main thread opens the device, synchronises with the     *)
(* modem, opens the server socket, and starts over when the loop thread    *)
(* has left.                                                               *)
(*                                                                         *)
(* Transaction ids mean nothing to the proxy.  They are per client, so     *)
(* that two clients' control requests often carry the same one, and a      *)
(* client takes any control answer with its transaction id for its own.    *)
(***************************************************************************)
EXTENDS Naturals, Sequences, FiniteSets, SequencesExt

CONSTANTS
  Fds,          \* descriptors for connections; a closed one is used again
  Ids,          \* client ids the modem can give out
  MaxRequests,  \* bound on requests of all clients
  MaxFaults     \* bound on what modem, device and clients may do wrong

ASSUME BoundsAssumption == MaxRequests \in Nat /\ MaxFaults \in Nat
ASSUME IdsAssumption == 0 \notin Ids

VARIABLES
  main,      \* main thread: "closed" (no device), "init" and "sync" (in
             \* qmi_proxy_init), "serve" (server socket open, joining the loop)
  loop,      \* loop thread: "none", "run", "ended"; both are "killed" by SIGPIPE
  sync,      \* qmi_sync_done
  reset,     \* modem_reset_flag
  conn,      \* "none", "backlog", "open", or "hup": closed by the client
  ids,       \* client ids of a connection (client_qnode)
  ctlq,      \* qmi_proxy_ctl_msg
  inbox,     \* what a client has written and the proxy not yet read
  client,    \* a client: the request it waits for, its transaction ids, its client ids
  toModem, fromModem,
  alloc,     \* client ids given out by the modem
  present,   \* the device exists
  sent,      \* requests so far
  faults,    \* faults left
  calm       \* history: nothing has disturbed the control queue since the device
             \* was opened (see Disturbed)

proxy == <<main, loop, sync, reset>>
links == <<conn, ids, inbox, client>>
modem == <<toModem, fromModem, alloc, present>>
bounds == <<sent, faults, calm>>

vars == <<proxy, links, ctlq, modem, bounds>>

Requests == {"SYNC", "GET", "REL", "OTHER", "DATA"}
Kinds == Requests \cup {"REVOKE", "IND"}
Message == [kind : Kinds, rsp : BOOLEAN, fd : Fds \cup {0}, n : Nat, tid : Nat,
            id : Ids \cup {0}]

NoClient == [wait |-> {}, tid |-> 0, has |-> {}]

Init ==
  /\ main = "closed" /\ loop = "none" /\ sync = FALSE /\ reset = FALSE
  /\ conn = [f \in Fds |-> "none"] /\ ids = [f \in Fds |-> {}]
  /\ inbox = [f \in Fds |-> <<>>] /\ client = [f \in Fds |-> NoClient]
  /\ ctlq = <<>> /\ toModem = <<>> /\ fromModem = <<>>
  /\ alloc = {} /\ present = TRUE
  /\ sent = 0 /\ faults = MaxFaults /\ calm = TRUE

Fault == faults > 0 /\ faults' = faults - 1

\* A fault the control queue is not made for.
Disturbed == Fault /\ calm' = FALSE

Undisturbed == UNCHANGED <<faults, calm>>

AtModem == {m.n : m \in ToSet(toModem \o fromModem)}

SyncPending == \E q \in {toModem, fromModem} : \E i \in DOMAIN q : q[i].kind = "SYNC"

\* send_qmi_to_cdc_wdm; what is written to a device that is gone is lost.
Written(s) == IF present THEN toModem \o s ELSE toModem

-----------------------------------------------------------------------------
(* Main thread                                                             *)

Open ==
  /\ main = "closed" /\ present
  /\ main' = "init" /\ loop' = "run" /\ sync' = FALSE
  /\ ctlq' = <<>> /\ toModem' = <<>> /\ fromModem' = <<>>
  /\ calm' = TRUE
  /\ UNCHANGED <<reset, links, alloc, present, sent, faults>>

\* SYNC, again after a second without an answer.  To overtake an answer that
\* is on its way is a disturbance: it may arrive when clients have connected.
SendSync ==
  /\ main \in {"init", "sync"} /\ ~sync /\ loop = "run"
  /\ main' = "sync"
  /\ toModem' = Written(<<[kind |-> "SYNC", rsp |-> FALSE, fd |-> 0, n |-> 0,
                           tid |-> 0, id |-> 0]>>)
  /\ IF SyncPending THEN Disturbed ELSE Undisturbed
  /\ UNCHANGED <<loop, sync, reset, links, ctlq, fromModem, alloc, present, sent>>

\* The server starts when the modem has answered or said anything else, and also
\* when it has not for six times ten seconds or the device is gone.  The answer
\* to SYNC that comes after that is a disturbance.
StartServer ==
  /\ main = "sync" \/ (main = "init" /\ loop = "ended")
  /\ main' = "serve"
  /\ IF SyncPending THEN Disturbed ELSE Undisturbed
  /\ UNCHANGED <<loop, sync, reset, links, ctlq, modem, sent>>

CloseServer ==
  /\ main = "serve" /\ loop = "ended"
  /\ main' = "closed" /\ loop' = "none" /\ reset' = FALSE
  /\ conn' = [f \in Fds |-> "none"]
  /\ inbox' = [f \in Fds |-> <<>>] /\ client' = [f \in Fds |-> NoClient]
  /\ UNCHANGED <<sync, ids, ctlq, modem, bounds>>

-----------------------------------------------------------------------------
(* Loop thread                                                             *)

Listed(f) == conn[f] \in {"open", "hup"}

\* accept_qmi_connection
Accept(f) ==
  /\ loop = "run" /\ conn[f] = "backlog"
  /\ conn' = [conn EXCEPT ![f] = "open"]
  /\ ids' = [ids EXCEPT ![f] = {}]
  /\ UNCHANGED <<proxy, inbox, client, ctlq, modem, bounds>>

\* Faulty variant: control requests are not held back.
FromClientEager(f, r) ==
  CASE r.kind = "SYNC" -> UNCHANGED <<ctlq, toModem>>
    [] r.kind = "DATA" -> toModem' = Written(<<r>>) /\ UNCHANGED ctlq
    [] OTHER -> /\ ctlq' = Append(ctlq, [fd |-> f, msg |-> r])
                /\ toModem' = Written(<<r>>)

\* recv_qmi_from_client
FromClient(f, r) ==
  CASE r.kind = "SYNC" -> UNCHANGED <<ctlq, toModem>>
    [] r.kind = "DATA" -> toModem' = Written(<<r>>) /\ UNCHANGED ctlq
    [] OTHER -> /\ ctlq' = Append(ctlq, [fd |-> f, msg |-> r])
                /\ toModem' = IF ctlq = <<>> THEN Written(<<r>>) ELSE toModem

\* One read takes all a client has written; more than one message is dropped.
ReadClient(f) ==
  /\ loop = "run" /\ conn[f] = "open" /\ inbox[f] # <<>>
  /\ inbox' = [inbox EXCEPT ![f] = <<>>]
  /\ IF Len(inbox[f]) = 1 THEN FromClient(f, inbox[f][1]) ELSE UNCHANGED <<ctlq, toModem>>
  /\ UNCHANGED <<proxy, conn, ids, client, fromModem, alloc, present, bounds>>

\* What a client makes of a message: QMIThread.c, is_response.
Accepts(c, m) ==
  \E r \in c.wait : /\ m.rsp /\ r.tid = m.tid
                    /\ (r.kind = "DATA") = (m.kind = "DATA")
                    /\ r.kind = "DATA" => r.id = m.id

Told(c, m) ==
  IF Accepts(c, m)
    THEN [c EXCEPT !.wait = {},
                   !.has = IF m.kind = "GET" THEN @ \cup ({m.id} \ {0}) ELSE @]
    ELSE c

\* send_qmi_to_client.  The peer of a connection in "hup" is gone: the write
\* raises SIGPIPE, which nobody handles.
Forward(F, m) ==
  IF \E f \in F : conn[f] = "hup"
    THEN main' = "killed" /\ loop' = "killed" /\ UNCHANGED client
    ELSE /\ client' = [f \in Fds |-> IF f \in F THEN Told(client[f], m) ELSE client[f]]
         /\ UNCHANGED <<main, loop>>

\* Faulty variants: a refused request counts as well, a new client id is noted
\* for every connection, or a release clears all ids of the connection.
RegisteredUnchecked(f, m) ==
  CASE m.kind = "GET" -> [ids EXCEPT ![f] = @ \cup {m.id}]
    [] m.kind \in {"REL", "REVOKE"} -> [ids EXCEPT ![f] = @ \ {m.id}]
    [] OTHER -> ids

RegisteredOnce(f, m) ==
  CASE m.kind = "GET" /\ m.id # 0 -> [ids EXCEPT ![f] = @ \cup {m.id}]
    [] m.kind \in {"REL", "REVOKE"} -> [ids EXCEPT ![f] = {}]
    [] OTHER -> ids

\* get_client_id, release_client_id
Registered(f, m) ==
  CASE m.kind = "GET" /\ m.id # 0 -> [ids EXCEPT ![f] = @ \cup {m.id}]
    [] m.kind \in {"REL", "REVOKE"} -> [ids EXCEPT ![f] = @ \ {m.id}]
    [] OTHER -> ids

\* Before the server runs, any message says that the modem is there.
RecvSync ==
  /\ loop = "run" /\ main \in {"init", "sync"} /\ fromModem # <<>>
  /\ fromModem' = Tail(fromModem)
  /\ sync' = TRUE
  /\ UNCHANGED <<main, loop, reset, links, ctlq, toModem, alloc, present, bounds>>

\* Faulty variant: the next request is not sent when the head is answered.
HeadSentNever(q) == UNCHANGED toModem

\* After any message of the control service the queue's head is sent, which
\* for an indication is for the second time.
HeadSent(q) ==
  toModem' = IF q # <<>> /\ Listed(Head(q).fd) THEN Written(<<Head(q).msg>>) ELSE toModem

\* recv_qmi_from_dev, for the control service
RecvCtl ==
  /\ loop = "run" /\ main = "serve" /\ fromModem # <<>>
  /\ Head(fromModem).kind \notin {"DATA", "IND"}
  /\ fromModem' = Tail(fromModem)
  /\ LET m == Head(fromModem)
     IN IF m.rsp /\ ctlq # <<>>
          THEN LET f == Head(ctlq).fd
               IN /\ Forward({f} \cap {g \in Fds : Listed(g)}, m)
                  /\ ids' = IF Listed(f) THEN Registered(f, m) ELSE ids
                  /\ reset' = (reset \/ (Listed(f) /\ m.kind = "REVOKE"))
                  /\ ctlq' = Tail(ctlq)
                  /\ HeadSent(Tail(ctlq))
          ELSE /\ HeadSent(ctlq)
               /\ UNCHANGED <<main, loop, client, ids, reset, ctlq>>
  /\ UNCHANGED <<sync, conn, inbox, alloc, present, bounds>>

\* Whom a message of another service is for: the connection with its client id;
\* an indication (client id 0) every one that has a client of its service.
Addressed(m) ==
  IF m.kind = "IND"
    THEN SUBSET {f \in Fds : Listed(f) /\ ids[f] # {}}
    ELSE {{f \in Fds : Listed(f) /\ m.id \in ids[f]}}

\* recv_qmi_from_dev, for the other services
RecvData ==
  /\ loop = "run" /\ main = "serve" /\ fromModem # <<>>
  /\ Head(fromModem).kind \in {"DATA", "IND"}
  /\ fromModem' = Tail(fromModem)
  /\ \E F \in Addressed(Head(fromModem)) : Forward(F, Head(fromModem))
  /\ UNCHANGED <<sync, reset, conn, ids, inbox, ctlq, toModem, alloc, present, bounds>>

\* Of a client's control requests only the first is taken off the queue.
Unqueued(q, f) == RemoveFirstMatch(q, LAMBDA e : e.fd = f)

\* cleanup_qmi_connection
Cleanup(f) ==
  /\ loop = "run" /\ conn[f] = "hup"
  /\ conn' = [conn EXCEPT ![f] = "none"]
  /\ ids' = [ids EXCEPT ![f] = {}]
  /\ inbox' = [inbox EXCEPT ![f] = <<>>] /\ client' = [client EXCEPT ![f] = NoClient]
  /\ ctlq' = Unqueued(ctlq, f)
  /\ UNCHANGED <<proxy, modem, bounds>>

\* The device hangs up, or the modem has reported a reset.  The queue is
\* discarded when the next loop starts.
LoopExits ==
  /\ loop = "run" /\ (~present \/ reset)
  /\ loop' = "ended"
  /\ conn' = [f \in Fds |-> IF Listed(f) THEN "none" ELSE conn[f]]
  /\ ids' = [f \in Fds |-> {}]
  /\ inbox' = [f \in Fds |-> IF Listed(f) THEN <<>> ELSE inbox[f]]
  /\ client' = [f \in Fds |-> IF Listed(f) THEN NoClient ELSE client[f]]
  /\ ctlq' = <<>>
  /\ UNCHANGED <<main, sync, reset, modem, bounds>>

-----------------------------------------------------------------------------
(* Clients: connection managers, each with one request at a time           *)

Connect(f) ==
  /\ main = "serve" /\ conn[f] = "none"
  /\ conn' = [conn EXCEPT ![f] = "backlog"]
  /\ UNCHANGED <<proxy, ids, inbox, client, ctlq, modem, bounds>>

\* A client id is given up when its release is sent.
Request(f, k, i) ==
  /\ main = "serve" /\ conn[f] \in {"backlog", "open"} /\ client[f].wait = {}
  /\ sent < MaxRequests /\ sent' = sent + 1
  /\ i \in IF k \in {"REL", "DATA"} THEN client[f].has ELSE {0}
  /\ LET r == [kind |-> k, rsp |-> FALSE, fd |-> f, n |-> sent + 1,
               tid |-> client[f].tid + 1, id |-> i]
     IN /\ client' = [client EXCEPT ![f] =
                        [wait |-> {r}, tid |-> r.tid,
                         has |-> IF k = "REL" THEN @.has \ {i} ELSE @.has]]
        /\ inbox' = [inbox EXCEPT ![f] = Append(@, r)]
  /\ UNCHANGED <<proxy, conn, ids, ctlq, modem, faults, calm>>

\* After 30 seconds the client goes on to its next request.
GiveUp(f) ==
  /\ client[f].wait # {}
  /\ client' = [client EXCEPT ![f].wait = {}]
  /\ IF inbox[f] = <<>> THEN Fault /\ UNCHANGED calm ELSE Disturbed
  /\ UNCHANGED <<proxy, conn, ids, inbox, ctlq, modem, sent>>

\* Something of the client's is not answered yet.
Busy(f) ==
  \/ inbox[f] # <<>> \/ \E i \in DOMAIN ctlq : ctlq[i].fd = f
  \/ \E q \in {toModem, fromModem} : \E i \in DOMAIN q : q[i].fd = f

\* A client closes its connection, or dies.
Close(f) ==
  /\ conn[f] = "open"
  /\ conn' = [conn EXCEPT ![f] = "hup"]
  /\ IF Busy(f) THEN Disturbed ELSE Undisturbed
  /\ UNCHANGED <<proxy, ids, inbox, client, ctlq, modem, sent>>

-----------------------------------------------------------------------------
(* Modem                                                                   *)

\* Requests are answered in order.  SYNC takes back all client ids.
Answer ==
  /\ toModem # <<>> /\ toModem' = Tail(toModem)
  /\ LET r == [Head(toModem) EXCEPT !.rsp = TRUE]
     IN IF r.kind = "GET" /\ alloc # Ids
          THEN \E i \in Ids \ alloc : /\ alloc' = alloc \cup {i}
                                      /\ fromModem' = Append(fromModem, [r EXCEPT !.id = i])
          ELSE /\ alloc' = CASE r.kind = "SYNC" -> {}
                              [] r.kind = "REL" -> alloc \ {r.id}
                              [] OTHER -> alloc
               /\ fromModem' = Append(fromModem, r)
  /\ UNCHANGED <<proxy, links, ctlq, present, bounds>>

\* A modem that is still starting ignores SYNC; to ignore a client's control
\* request stops the queue.
Ignore ==
  /\ toModem # <<>> /\ Head(toModem).kind # "DATA"
  /\ toModem' = Tail(toModem)
  /\ IF Head(toModem).kind = "SYNC" THEN Fault /\ UNCHANGED calm ELSE Disturbed
  /\ UNCHANGED <<proxy, links, ctlq, fromModem, alloc, present, sent>>

\* The modem restarts behind the open device: an indication (MPQCTL.h:234).
Revoke ==
  /\ present /\ Disturbed
  /\ alloc' = {}
  /\ fromModem' = Append(fromModem, [kind |-> "REVOKE", rsp |-> FALSE, fd |-> 0, n |-> 0,
                                     tid |-> 0, id |-> 0])
  /\ UNCHANGED <<proxy, links, ctlq, toModem, present, sent>>

\* An unsolicited message of another service, for all its clients; bounded to one
\* on its way at a time.
Indicate ==
  /\ present /\ loop = "run" /\ ~\E i \in DOMAIN fromModem : fromModem[i].kind = "IND"
  /\ fromModem' = Append(fromModem, [kind |-> "IND", rsp |-> FALSE, fd |-> 0, n |-> 0,
                                     tid |-> 0, id |-> 0])
  /\ UNCHANGED <<proxy, links, ctlq, toModem, alloc, present, bounds>>

Unplug ==
  /\ present /\ present' = FALSE
  /\ Fault /\ UNCHANGED calm
  /\ alloc' = {} /\ toModem' = <<>> /\ fromModem' = <<>>
  /\ UNCHANGED <<proxy, links, ctlq, sent>>

Replug ==
  /\ ~present /\ loop # "run" /\ present' = TRUE
  /\ UNCHANGED <<proxy, links, ctlq, toModem, fromModem, alloc, bounds>>

-----------------------------------------------------------------------------
Main == Open \/ SendSync \/ StartServer \/ CloseServer
Recv == RecvSync \/ RecvCtl \/ RecvData
Loop == Recv \/ LoopExits \/ \E f \in Fds : Accept(f) \/ ReadClient(f) \/ Cleanup(f)
Clients ==
  \E f \in Fds :
    \/ Connect(f) \/ GiveUp(f) \/ Close(f)
    \/ \E k \in Requests, i \in Ids \cup {0} : Request(f, k, i)
Modem == Answer \/ Ignore \/ Revoke \/ Indicate \/ Unplug \/ Replug

Next == Main \/ Loop \/ Clients \/ Modem

Spec == Init /\ [][Next]_vars

\* Both threads are scheduled, poll() serves every descriptor that is ready,
\* and the modem answers what it does not ignore.
Fairness ==
  /\ WF_vars(Open) /\ WF_vars(StartServer) /\ WF_vars(CloseServer)
  /\ WF_vars(Recv) /\ WF_vars(LoopExits) /\ WF_vars(Answer)
  /\ \A f \in Fds : WF_vars(Accept(f)) /\ WF_vars(ReadClient(f)) /\ WF_vars(Cleanup(f))

LiveSpec == Spec /\ Fairness

-----------------------------------------------------------------------------
TypeOK ==
  /\ main \in {"closed", "init", "sync", "serve", "killed"}
  /\ loop \in {"none", "run", "ended", "killed"}
  /\ sync \in BOOLEAN /\ reset \in BOOLEAN /\ present \in BOOLEAN /\ calm \in BOOLEAN
  /\ conn \in [Fds -> {"none", "backlog", "open", "hup"}]
  /\ ids \in [Fds -> SUBSET Ids] /\ alloc \in SUBSET Ids
  /\ ctlq \in Seq([fd : Fds, msg : Message])
  /\ inbox \in [Fds -> Seq(Message)]
  /\ client \in [Fds -> [wait : SUBSET Message, tid : Nat, has : SUBSET Ids]]
  /\ toModem \in Seq(Message) /\ fromModem \in Seq(Message)
  /\ sent \in 0..MaxRequests /\ faults \in 0..MaxFaults

\* As long as nothing disturbs the control queue, a client that takes an answer
\* for its own is right, although transaction ids of clients coincide and the
\* proxy looks at none (recv_qmi_from_dev gives every response to the head).
AnswerIsForCaller ==
  [][calm /\ fromModem # <<>> /\ fromModem' = Tail(fromModem) =>
       \A f \in Fds : \A r \in client[f].wait :
         client'[f].wait = {} /\ conn'[f] = "open" => Head(fromModem).n = r.n]_vars

\* Every client id a client has been given is noted for its connection, so that
\* answers to it find their way, and for no other connection.
HeldIdsRouted ==
  calm => \A f \in Fds : conn[f] = "open" =>
            /\ client[f].has \subseteq ids[f]
            /\ \A g \in Fds \ {f} : ids[f] \cap ids[g] = {}

\* A client's request is answered as long as nothing disturbs the control queue,
\* and one of another service that is with the modem whatever does: a control
\* queue that is blocked holds nothing else up.  The proxy's death by SIGPIPE is
\* let through: an indication for a client that has just gone brings it.
RequestsServed ==
  \A f \in Fds :
    /\ (calm /\ \E r \in client[f].wait : r.kind # "SYNC")
         ~> (client[f].wait = {} \/ loop = "killed" \/ ~calm)
    /\ \A i \in Ids :
         (\E r \in client[f].wait : r.kind = "DATA" /\ r.id = i /\ r.n \in AtModem /\ i \in ids[f])
           ~> (client[f].wait = {} \/ loop = "killed" \/ i \notin ids[f])
=============================================================================
