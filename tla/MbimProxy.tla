----------------------------- MODULE MbimProxy -----------------------------
(***************************************************************************)
(* quectel-mbim-proxy: one MBIM device shared by several connection        *)
(* managers (quectel_cm_5G/src/quectel-mbim-proxy.c, and mbim-cm.c for     *)
(* what a manager sends and takes).                                        *)
(*                                                                         *)
(* Each client has a slot of a fixed table.  The proxy writes the slot's   *)
(* number into the upper bits of a request's transaction id, and finds the *)
(* client of an answer by them.  It keeps no list of requests: an answer   *)
(* goes to whoever has the slot when it comes.                             *)
(***************************************************************************)
EXTENDS Naturals, Sequences, FiniteSets, FiniteSetsExt

CONSTANTS
  Conns,       \* connections to the local socket; a closed one is used again
  Slots,       \* CM_MAX_CLIENT
  MaxTid,      \* TID_MASK: the last transaction id before the counter wraps
  MaxRequests, \* bound on requests of all clients
  MaxFaults    \* bound on what modem, device and clients may do wrong

ASSUME ConnsAssumption == 0 \notin Conns
ASSUME SlotsAssumption == Slots \in Nat \ {0}
ASSUME MaxTidAssumption == MaxTid \in Nat \ {0}
ASSUME BoundsAssumption == {MaxRequests, MaxFaults} \subseteq Nat

VARIABLES
  pc,        \* "closed" (no device), "opening" (until the modem's OPEN_DONE),
             \* "serving", or "killed" by SIGPIPE
  bound,     \* a socket of this process has the proxy's name
  slot,      \* cm_clients: the connection that has a slot, 0 for none
  conn,      \* "none", "backlog", "open", or "hup": closed by the client
  inbox,     \* what a client has written and the proxy not yet read
  counter,   \* mbim-cm: TransactionId, of the client at this connection
  wait,      \* mbim-cm: mbim_pRequest, at most one
  opened,    \* the proxy's own OPEN is at the modem
  atModem,   \* requests the modem has not answered
  pending,   \* an indication the proxy has not read
  present,   \* the device exists
  sent,      \* requests so far
  faults,    \* faults left
  calm       \* history: no slot was given away, and no transaction id used again,
             \* while a request of the former owner or use was outstanding

proxy == <<pc, bound, slot>>
links == <<conn, inbox>>
clients == <<counter, wait>>
modem == <<opened, atModem, pending, present>>
bounds == <<sent, faults, calm>>

vars == <<proxy, links, clients, modem, bounds>>

Message == [kind : {"OPEN", "CMD"}, conn : Conns, n : Nat, bits : 0..Slots, tid : 1..MaxTid]

Init ==
  /\ pc = "closed" /\ bound = FALSE
  /\ slot = [i \in 1..Slots |-> 0]
  /\ conn = [c \in Conns |-> "none"] /\ inbox = [c \in Conns |-> <<>>]
  /\ counter = [c \in Conns |-> 1] /\ wait = [c \in Conns |-> {}]
  /\ opened = FALSE /\ atModem = {} /\ pending = FALSE /\ present = TRUE
  /\ sent = 0 /\ faults = MaxFaults /\ calm = TRUE

Fault == faults > 0 /\ faults' = faults - 1

Listed(c) == c \in {slot[i] : i \in 1..Slots}

\* What the connections in C look like once they are closed on both sides.
Closed(C) ==
  /\ conn' = [c \in Conns |-> IF c \in C THEN "none" ELSE conn[c]]
  /\ inbox' = [c \in Conns |-> IF c \in C THEN <<>> ELSE inbox[c]]
  /\ wait' = [c \in Conns |-> IF c \in C THEN {} ELSE wait[c]]
  /\ counter' = [c \in Conns |-> IF c \in C THEN 1 ELSE counter[c]]

-----------------------------------------------------------------------------
(* The proxy: main                                                         *)

\* open, memset of the table, mbim_send_open_msg
Open ==
  /\ pc = "closed" /\ present
  /\ pc' = "opening"
  /\ slot' = [i \in 1..Slots |-> 0]
  /\ opened' = TRUE /\ atModem' = {} /\ pending' = FALSE
  /\ UNCHANGED <<bound, links, clients, present, bounds>>

\* OPEN_DONE; with a bad status the loop is left.
OpenDone ==
  /\ pc = "opening" /\ opened /\ opened' = FALSE
  /\ \/ pc' = (IF bound THEN "opening" ELSE "serving") /\ bound' = TRUE /\ UNCHANGED faults
     \/ pc' = "closed" /\ Fault /\ UNCHANGED bound
  /\ UNCHANGED <<slot, links, clients, atModem, pending, present, sent, calm>>

\* Faulty variant: the server socket is not closed.
CleanupClientsOnly ==
  /\ pc' = "closed" /\ UNCHANGED bound
  /\ slot' = [i \in 1..Slots |-> 0]
  /\ Closed({c \in Conns : Listed(c)})

\* The loop's end.  Without a server socket the connections that wait to be
\* accepted go as well.
Cleanup ==
  /\ pc' = "closed" /\ bound' = FALSE
  /\ slot' = [i \in 1..Slots |-> 0]
  /\ Closed({c \in Conns : Listed(c) \/ conn[c] = "backlog"})

\* The device hangs up, or poll() has waited ten seconds for OPEN_DONE.
LoopExits ==
  /\ \/ pc \in {"opening", "serving"} /\ ~present
     \/ pc = "opening" /\ ~opened
  /\ Cleanup
  /\ UNCHANGED <<modem, bounds>>

-----------------------------------------------------------------------------
(* The proxy: clients                                                      *)

FreeSlots == {i \in 1..Slots : slot[i] = 0}

Outstanding(i) == \E m \in atModem : m.bits = i

\* handle_client_connect: the first free slot, whoever had it before.
Accept(c) ==
  /\ pc = "serving" /\ conn[c] = "backlog" /\ FreeSlots # {}
  /\ LET i == Min(FreeSlots)
     IN slot' = [slot EXCEPT ![i] = c] /\ calm' = (calm /\ ~Outstanding(i))
  /\ conn' = [conn EXCEPT ![c] = "open"]
  /\ UNCHANGED <<pc, bound, inbox, clients, modem, sent, faults>>

\* No slot is left: the connection is closed at once.
Reject(c) ==
  /\ pc = "serving" /\ conn[c] = "backlog" /\ FreeSlots = {}
  /\ Closed({c})
  /\ UNCHANGED <<proxy, modem, bounds>>

\* Faulty variant: the slot of a client that has gone is not emptied.
DisconnectOnly(c) ==
  /\ pc = "serving" /\ conn[c] = "hup"
  /\ Closed({c})
  /\ UNCHANGED <<proxy, modem, bounds>>

\* handle_client_disconnect
Disconnect(c) ==
  /\ pc = "serving" /\ conn[c] = "hup"
  /\ slot' = [i \in 1..Slots |-> IF slot[i] = c THEN 0 ELSE slot[i]]
  /\ Closed({c})
  /\ UNCHANGED <<pc, bound, modem, bounds>>

\* SIGPIPE, which nobody handles: all the process has open is closed.
Killed == pc' = "killed" /\ bound' = FALSE /\ UNCHANGED slot /\ Closed(Conns)

\* Faulty variant: a client takes any answer.
TakenUnseen(c, m) == wait' = [wait EXCEPT ![c] = {}]

\* mbim_recv_command: a client takes what has its request's transaction id.
Taken(c, m) ==
  wait' = IF \E r \in wait[c] : r.tid = m.tid THEN [wait EXCEPT ![c] = {}] ELSE wait

\* Faulty variant: the client's bits are left out.
MarkedZero(c, r) == r

\* The slot's number goes into the upper bits of the transaction id.
Marked(c, r) == [r EXCEPT !.bits = CHOOSE i \in 1..Slots : slot[i] = c]

\* handle_client_request: OPEN is answered by the proxy, and so is CLOSE, which OPEN
\* stands for.  A read takes all the client has written; the modem takes one message of what is passed on.
\* poll() may have reported a request of a client that has gone since.
ReadClient(c) ==
  /\ pc = "serving" /\ Listed(c) /\ inbox[c] # <<>>
  /\ LET r == Head(inbox[c])
     IN IF r.kind = "OPEN"
          THEN /\ IF conn[c] = "hup"
                    THEN Killed
                    ELSE Taken(c, r) /\ inbox' = [inbox EXCEPT ![c] = <<>>]
                         /\ UNCHANGED <<proxy, conn, counter>>
               /\ UNCHANGED atModem
          ELSE /\ atModem' = IF present THEN atModem \cup {Marked(c, r)} ELSE atModem
               /\ inbox' = [inbox EXCEPT ![c] = <<>>]
               /\ UNCHANGED <<proxy, conn, clients>>
  /\ UNCHANGED <<opened, pending, present, bounds>>

-----------------------------------------------------------------------------
(* The proxy: messages of the device                                       *)

\* handle_device_response.  Nobody has the slot: the answer is dropped.
RecvAnswer(m) ==
  /\ pc = "serving" /\ present /\ m \in atModem
  /\ atModem' = atModem \ {m}
  /\ LET c == IF m.bits \in 1..Slots THEN slot[m.bits] ELSE 0
     IN IF c = 0 THEN UNCHANGED <<proxy, links, clients>>
        ELSE IF conn[c] = "hup" THEN Killed
        ELSE Taken(c, m) /\ UNCHANGED <<proxy, links, counter>>
  /\ UNCHANGED <<opened, pending, present, bounds>>

\* Whom the loop over all slots reaches before it meets a client that is gone.
Gone == {i \in 1..Slots : slot[i] # 0 /\ conn[slot[i]] = "hup"}
Reached == {slot[i] : i \in {j \in 1..Slots : \A k \in Gone : j < k}} \ {0}

\* handle_device_response, transaction id 0; to a client it is only an event.
RecvIndication ==
  /\ pc = "serving" /\ present /\ pending /\ pending' = FALSE
  /\ IF Gone # {} THEN Killed ELSE UNCHANGED <<proxy, links, clients>>
  /\ UNCHANGED <<opened, atModem, present, bounds>>

-----------------------------------------------------------------------------
(* Clients: connection managers, each with one request at a time           *)

\* The counter belongs to a process, which may be new or have had sessions before:
\* 1, and just before it wraps, stand for all values.  Connections are alike, and
\* the first unused one stands for any.
Connect(c) ==
  /\ bound /\ c = Min({d \in Conns : conn[d] = "none"} \cup {c}) /\ conn[c] = "none"
  /\ conn' = [conn EXCEPT ![c] = "backlog"]
  /\ \E t \in {1, MaxTid + 1} : counter' = [counter EXCEPT ![c] = t]
  /\ UNCHANGED <<proxy, inbox, wait, modem, bounds>>

\* A counter that has reached the client bits is set back to 1.
NextTid(t) == IF t = MaxTid + 1 THEN 1 ELSE t

\* compose_*_command, mbim_send_command.  To use a transaction id while an
\* older request with it is outstanding is a whole cycle of the counter late.
Request(c, k) ==
  /\ conn[c] \in {"backlog", "open"} /\ wait[c] = {}
  /\ sent < MaxRequests /\ sent' = sent + 1
  /\ LET t == NextTid(counter[c])
         r == [kind |-> k, conn |-> c, n |-> sent + 1, bits |-> 0, tid |-> t]
     IN /\ wait' = [wait EXCEPT ![c] = {r}]
        /\ inbox' = [inbox EXCEPT ![c] = Append(@, r)]
        /\ counter' = [counter EXCEPT ![c] = t + 1]
        /\ calm' = (calm /\ \A m \in atModem : m.conn = c => m.tid # t)
  /\ UNCHANGED <<proxy, conn, modem, faults>>

\* mbim_send_command's timeout.  A second request before the proxy has read
\* the first would be lost with it.
GiveUp(c) ==
  /\ wait[c] # {} /\ wait' = [wait EXCEPT ![c] = {}]
  /\ Fault /\ calm' = (calm /\ inbox[c] = <<>>)
  /\ UNCHANGED <<proxy, links, counter, modem, sent>>

\* A client closes its connection, or dies.
Close(c) ==
  /\ conn[c] = "open" /\ conn' = [conn EXCEPT ![c] = "hup"]
  /\ wait' = [wait EXCEPT ![c] = {}] /\ counter' = [counter EXCEPT ![c] = 1]
  /\ UNCHANGED <<proxy, inbox, modem, bounds>>

-----------------------------------------------------------------------------
(* Modem                                                                   *)

\* The modem ignores OPEN, or a request.
Ignore ==
  /\ Fault
  /\ \/ opened /\ opened' = FALSE /\ UNCHANGED <<atModem, calm>>
     \/ \E m \in atModem : atModem' = atModem \ {m} /\ calm' = FALSE /\ UNCHANGED opened
  /\ UNCHANGED <<proxy, links, clients, pending, present, sent>>

Indicate ==
  /\ pc = "serving" /\ present /\ ~pending /\ pending' = TRUE
  /\ UNCHANGED <<proxy, links, clients, opened, atModem, present, bounds>>

Unplug ==
  /\ present /\ present' = FALSE /\ Fault
  /\ opened' = FALSE /\ atModem' = {} /\ pending' = FALSE
  /\ UNCHANGED <<proxy, links, clients, sent, calm>>

Replug ==
  /\ ~present /\ pc = "closed" /\ present' = TRUE
  /\ UNCHANGED <<proxy, links, clients, opened, atModem, pending, bounds>>

-----------------------------------------------------------------------------
Recv == RecvIndication \/ \E m \in atModem : RecvAnswer(m)

Proxy ==
  \/ Open \/ OpenDone \/ LoopExits \/ Recv
  \/ \E c \in Conns : Accept(c) \/ Reject(c) \/ Disconnect(c) \/ ReadClient(c)

Clients ==
  \E c \in Conns :
    Connect(c) \/ GiveUp(c) \/ Close(c) \/ \E k \in {"OPEN", "CMD"} : Request(c, k)

Modem == Ignore \/ Indicate \/ Unplug \/ Replug

Next == Proxy \/ Clients \/ Modem

Spec == Init /\ [][Next]_vars

\* The proxy runs and poll() serves every descriptor that is ready; the modem
\* answers what it does not ignore, and a device that is gone comes back.
Fairness ==
  /\ WF_vars(Open) /\ WF_vars(OpenDone) /\ WF_vars(LoopExits) /\ WF_vars(Replug)
  /\ \A c \in Conns :
       /\ WF_vars(Accept(c) \/ Reject(c)) /\ WF_vars(Disconnect(c))
       /\ WF_vars(ReadClient(c))
       /\ WF_vars(\E m \in atModem : m.conn = c /\ RecvAnswer(m))

LiveSpec == Spec /\ Fairness

-----------------------------------------------------------------------------
\* Types; every accepted connection has one slot, and no slot is kept by one that
\* has gone (handle_client_connect, handle_client_disconnect).
TypeOK ==
  /\ pc \in {"closed", "opening", "serving", "killed"}
  /\ slot \in [1..Slots -> Conns \cup {0}]
  /\ conn \in [Conns -> {"none", "backlog", "open", "hup"}]
  /\ inbox \in [Conns -> Seq(Message)] /\ wait \in [Conns -> SUBSET Message]
  /\ counter \in [Conns -> 1..MaxTid + 1]
  /\ atModem \in SUBSET Message
  /\ sent \in 0..MaxRequests /\ faults \in 0..MaxFaults
  /\ {bound, opened, pending, present, calm} \subseteq BOOLEAN
  /\ pc = "serving" =>
       \A c \in Conns :
         Cardinality({i \in 1..Slots : slot[i] = c}) = IF conn[c] \in {"open", "hup"} THEN 1 ELSE 0

\* An answer that a client takes for its own is its own, although the proxy
\* keeps no list of requests and clients' transaction ids coincide ("try to find
\* the sender", quectel-mbim-proxy.c:259): unless the slot or the id was used again.
AnswerIsForCaller ==
  [][\A m \in atModem :
       calm /\ m \notin atModem' /\ faults' = faults =>
         \A c \in Conns : \A r \in wait[c] :
           wait'[c] = {} /\ pc' # "killed" => m.n = r.n]_vars

\* A request is answered, or its connection ends, or slot or id were used again.
RequestsServed ==
  \A c \in Conns : (calm /\ wait[c] # {}) ~> (wait[c] = {} \/ ~calm)

\* After the device has gone the proxy serves again when it is back: nothing of
\* the last session keeps it from opening device and socket.
ServesAgain == []<>(pc \in {"serving", "killed"})
=============================================================================
