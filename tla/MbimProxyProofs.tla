--------------------------- MODULE MbimProxyProofs ---------------------------
(***************************************************************************)
(* Proofs about MbimProxy: for any connections, number of slots, width of  *)
(* the transaction counter and number of requests and faults.              *)
(***************************************************************************)
EXTENDS MbimProxy, FiniteSetTheorems, WellFoundedInduction, TLAPS

-----------------------------------------------------------------------------
(* The inductive invariant                                                 *)

\* TypeOK without its last part.
Types ==
  /\ pc \in {"closed", "opening", "serving", "killed"}
  /\ slot \in [1..Slots -> Conns \cup {0}]
  /\ conn \in [Conns -> {"none", "backlog", "open", "hup"}]
  /\ inbox \in [Conns -> Seq(Message)] /\ wait \in [Conns -> SUBSET Message]
  /\ counter \in [Conns -> 1..MaxTid + 1]
  /\ atModem \in SUBSET Message
  /\ sent \in 0..MaxRequests /\ faults \in 0..MaxFaults
  /\ {bound, opened, pending, present, calm} \subseteq BOOLEAN

Accepted(c) == conn[c] \in {"open", "hup"}

\* The socket is there while the proxy serves, and only then are there
\* connections; whoever is accepted has one slot, and no one else has any.
SlotInv ==
  /\ bound <=> pc = "serving"
  /\ pc # "serving" => \A c \in Conns : conn[c] = "none"
  /\ pc = "opening" => \A i \in 1..Slots : slot[i] = 0
  /\ pc = "serving" =>
       /\ \A c \in Conns : Accepted(c) <=> Listed(c)
       /\ \A i, j \in 1..Slots : slot[i] = slot[j] /\ slot[i] # 0 => i = j

\* A request is its client's, and the only one the client waits for; a
\* connection that is not there has left nothing behind, and nobody waits any
\* more at one that was closed.
ClientInv ==
  \A c \in Conns :
    /\ conn[c] = "none" => inbox[c] = <<>>
    /\ conn[c] \in {"none", "hup"} => wait[c] = {}
    /\ \A i \in DOMAIN inbox[c] : inbox[c][i].conn = c
    /\ \A r \in wait[c] : wait[c] = {r} /\ r.conn = c

\* What a client that is there has written is the request it waits for.
InboxInv ==
  \A c \in Conns : inbox[c] # <<>> /\ conn[c] # "hup" =>
    wait[c] # {} /\ \A r \in wait[c] : inbox[c] = <<r>>

\* The slot that a request carries is its client's until the client goes, and
\* nobody's afterwards; its transaction id is not used again meanwhile, not even
\* for a request that the proxy has not read.
RouteInv ==
  \A m \in atModem :
    /\ m.bits \in 1..Slots /\ slot[m.bits] \in {m.conn, 0}
    /\ slot[m.bits] = m.conn => \A r \in wait[m.conn] : r.tid = m.tid =>
         r.n = m.n /\ inbox[m.conn] = <<>>

IInv ==
  /\ Types /\ SlotInv /\ ClientInv
  /\ calm => InboxInv /\ RouteInv

-----------------------------------------------------------------------------
(* Operators                                                               *)

\* The least of a set of slots.
LEMMA MinOfNats ==
  ASSUME NEW T \in SUBSET Nat, T # {}
  PROVE  Min(T) \in T
<1>1. PICK x \in T : \A y \in T : ~ (<<y, x>> \in OpToRel(<, Nat))
  BY NatLessThanWellFounded, WFMin
<1>2. \A y \in T : ~ (y < x) BY <1>1, Zenon DEF OpToRel
<1>3. \A y \in T : x =< y BY <1>2
<1>. QED BY <1>3 DEF Min

\* handle_client_connect finds a slot that is free.
LEMMA FirstFree ==
  ASSUME FreeSlots # {}
  PROVE  Min(FreeSlots) \in 1..Slots /\ slot[Min(FreeSlots)] = 0
<1>1. FreeSlots \in SUBSET Nat BY SlotsAssumption DEF FreeSlots
<1>2. Min(FreeSlots) \in FreeSlots BY <1>1, MinOfNats, Zenon
<1>. QED BY <1>2 DEF FreeSlots

\* The slot that handle_client_request writes into a message is the client's.
LEMMA MarkedSlot ==
  ASSUME NEW c \in Conns, NEW r \in Message, Listed(c)
  PROVE  /\ Marked(c, r) \in Message /\ Marked(c, r).bits \in 1..Slots
         /\ slot[Marked(c, r).bits] = c
         /\ Marked(c, r).conn = r.conn /\ Marked(c, r).tid = r.tid /\ Marked(c, r).n = r.n
<1>. DEFINE i == CHOOSE j \in 1..Slots : slot[j] = c
<1>1. i \in 1..Slots /\ slot[i] = c BY DEF Listed
<1>2. i \in 0..Slots BY <1>1, SlotsAssumption
<1>3. Marked(c, r) = [r EXCEPT !.bits = i] BY DEF Marked
<1>. HIDE DEF i
<1>. QED BY <1>1, <1>2, <1>3 DEF Message

\* The ids that are left when a counter wraps.
LEMMA NextTidType ==
  ASSUME NEW t \in 1..MaxTid + 1
  PROVE  NextTid(t) \in 1..MaxTid /\ NextTid(t) + 1 \in 1..MaxTid + 1
BY MaxTidAssumption DEF NextTid

\* Connections that are closed leave the others as they are.
LEMMA ClosedConns ==
  ASSUME Types, NEW C, Closed(C)
  PROVE  /\ \A c \in Conns : c \in C => conn'[c] = "none" /\ inbox'[c] = <<>> /\ wait'[c] = {}
         /\ \A c \in Conns : c \notin C =>
              conn'[c] = conn[c] /\ inbox'[c] = inbox[c] /\ wait'[c] = wait[c]
         /\ conn' \in [Conns -> {"none", "backlog", "open", "hup"}]
         /\ inbox' \in [Conns -> Seq(Message)] /\ wait' \in [Conns -> SUBSET Message]
         /\ counter' \in [Conns -> 1..MaxTid + 1]
<1>1. <<>> \in Seq(Message) /\ 1 \in 1..MaxTid + 1 BY MaxTidAssumption
<1>2. /\ inbox' = [c \in Conns |-> IF c \in C THEN <<>> ELSE inbox[c]]
      /\ conn' = [c \in Conns |-> IF c \in C THEN "none" ELSE conn[c]]
      /\ wait' = [c \in Conns |-> IF c \in C THEN {} ELSE wait[c]]
      /\ counter' = [c \in Conns |-> IF c \in C THEN 1 ELSE counter[c]]
  BY DEF Closed
<1>3. inbox' \in [Conns -> Seq(Message)] BY <1>1, <1>2 DEF Types
<1>4. counter' \in [Conns -> 1..MaxTid + 1] BY <1>1, <1>2 DEF Types
<1>. QED BY <1>2, <1>3, <1>4 DEF Types

-----------------------------------------------------------------------------
(* The invariant is inductive                                              *)

\* Nothing is there when the proxy starts.
LEMMA InvInit == Init => IInv
<1>. SUFFICES ASSUME Init PROVE IInv
  OBVIOUS
<1>1. 1 \in 1..MaxTid + 1 /\ sent \in 0..MaxRequests /\ faults \in 0..MaxFaults
  BY MaxTidAssumption, BoundsAssumption DEF Init
<1>2. inbox \in [Conns -> Seq(Message)]
  <2>1. <<>> \in Seq(Message) OBVIOUS
  <2>. QED BY <2>1 DEF Init
<1>3. Types BY <1>1, <1>2 DEF Init, Types
<1>. QED BY <1>3 DEF Init, IInv, SlotInv, ClientInv, InboxInv, RouteInv

\* A step of the modem or the device leaves the clients, and what is routed to
\* them, as they are.
LEMMA SameClients ==
  ASSUME IInv, UNCHANGED <<proxy, links, clients>>, atModem' \subseteq atModem,
         sent' = sent, faults' \in 0..MaxFaults, calm' \in BOOLEAN, calm' => calm,
         opened' \in BOOLEAN, pending' \in BOOLEAN, present' \in BOOLEAN
  PROVE  IInv'
<1>1. UNCHANGED <<pc, bound, slot, conn, inbox, counter, wait>>
  BY DEF proxy, links, clients
<1>2. Types' BY <1>1 DEF IInv, Types
<1>3. SlotInv' BY <1>1 DEF IInv, SlotInv, Accepted, Listed
<1>4. ClientInv' BY <1>1 DEF IInv, ClientInv
<1>5. calm => InboxInv' BY <1>1 DEF IInv, InboxInv
<1>6. calm => RouteInv' BY <1>1 DEF IInv, RouteInv
<1>. QED BY <1>2, <1>3, <1>4, <1>5, <1>6 DEF IInv

\* A session starts, or the modem opens.
LEMMA OpenStep == ASSUME IInv, Open \/ OpenDone PROVE IInv'
<1>. USE DEF IInv, links, clients, modem, bounds, proxy
<1>1. CASE Open
  <2>1. Types' BY <1>1 DEF Open, Types
  <2>2. SlotInv' BY <1>1 DEF Open, SlotInv, Listed, Accepted, Types
  <2>3. ClientInv' /\ (calm => InboxInv' /\ RouteInv')
    BY <1>1 DEF Open, ClientInv, InboxInv, RouteInv
  <2>. QED BY <1>1, <2>1, <2>2, <2>3 DEF Open
<1>2. CASE OpenDone
  <2>1. faults' \in 0..MaxFaults BY <1>2, BoundsAssumption DEF OpenDone, Fault, Types
  <2>2. Types' BY <1>2, <2>1 DEF OpenDone, Types
  <2>3. SlotInv'
    <3>1. ~bound /\ \A c \in Conns : conn[c] = "none" BY <1>2 DEF OpenDone, SlotInv
    <3>2. \A i \in 1..Slots : slot[i] = 0 BY <1>2 DEF OpenDone, SlotInv
    <3>3. \A c \in Conns : c # 0 BY ConnsAssumption
    <3>. QED BY <1>2, <3>1, <3>2, <3>3 DEF OpenDone, SlotInv, Listed, Accepted
  <2>4. ClientInv' /\ (calm => InboxInv' /\ RouteInv')
    BY <1>2 DEF OpenDone, ClientInv, InboxInv, RouteInv
  <2>. QED BY <1>2, <2>2, <2>3, <2>4 DEF OpenDone
<1>. QED BY <1>1, <1>2

\* A session ends, or the proxy dies: no connection is left.
LEMMA EndStep ==
  ASSUME IInv, NEW C, Closed(C), bound' = FALSE,
         pc' \in {"closed", "killed"}, \A c \in Conns : c \notin C => conn[c] = "none",
         slot' \in [1..Slots -> Conns \cup {0}], atModem' \subseteq atModem,
         \A i \in 1..Slots : slot'[i] \in {slot[i], 0},
         UNCHANGED <<opened, present, bounds>>, pending' \in BOOLEAN
  PROVE  IInv'
<1>. USE DEF IInv, bounds
<1>0. /\ \A c \in Conns : c \in C => conn'[c] = "none" /\ inbox'[c] = <<>> /\ wait'[c] = {}
      /\ \A c \in Conns : c \notin C =>
           conn'[c] = conn[c] /\ inbox'[c] = inbox[c] /\ wait'[c] = wait[c]
      /\ conn' \in [Conns -> {"none", "backlog", "open", "hup"}]
      /\ inbox' \in [Conns -> Seq(Message)] /\ wait' \in [Conns -> SUBSET Message]
      /\ counter' \in [Conns -> 1..MaxTid + 1]
  <2>1. Types OBVIOUS
  <2>. QED BY <2>1, ClosedConns
<1>1. \A c \in Conns : conn'[c] = "none" /\ inbox'[c] = <<>> /\ wait'[c] = {}
  BY <1>0 DEF ClientInv
<1>2. Types' BY <1>0 DEF Types
<1>3. SlotInv' BY <1>1 DEF SlotInv
<1>4. ClientInv' BY <1>1 DEF ClientInv
<1>5. calm => InboxInv' BY <1>1 DEF InboxInv
<1>6. calm => RouteInv'
  <2>. SUFFICES ASSUME calm, NEW m \in atModem'
                PROVE  /\ m.bits \in 1..Slots /\ slot'[m.bits] \in {m.conn, 0}
                       /\ wait'[m.conn] = {}
    BY DEF RouteInv
  <2>1. m.bits \in 1..Slots /\ slot[m.bits] \in {m.conn, 0} BY DEF RouteInv
  <2>2. m.conn \in Conns BY DEF Types, Message
  <2>. QED BY <1>1, <2>1, <2>2
<1>. QED BY <1>2, <1>3, <1>4, <1>5, <1>6

\* The device is gone, or has not opened in time.
LEMMA LoopExitsStep == ASSUME IInv, LoopExits PROVE IInv'
<1>. DEFINE C == {c \in Conns : Listed(c) \/ conn[c] = "backlog"}
<1>1. /\ pc' = "closed" /\ bound' = FALSE /\ Closed(C)
      /\ slot' = [i \in 1..Slots |-> 0]
      /\ UNCHANGED <<modem, bounds>>
  BY DEF LoopExits, Cleanup
<1>2. \A c \in Conns : c \notin C => conn[c] = "none"
  BY DEF IInv, SlotInv, Accepted, Types
<1>3. slot' \in [1..Slots -> Conns \cup {0}] /\ \A i \in 1..Slots : slot'[i] \in {slot[i], 0}
  BY <1>1
<1>4. pending' \in BOOLEAN /\ atModem' \subseteq atModem /\ UNCHANGED <<opened, present>>
  BY <1>1 DEF modem, IInv, Types
<1>. HIDE DEF C
<1>. QED BY <1>1, <1>2, <1>3, <1>4, EndStep

\* SIGPIPE.
LEMMA KilledStep ==
  ASSUME IInv, Killed, atModem' \subseteq atModem,
         UNCHANGED <<opened, present, bounds>>, pending' \in BOOLEAN
  PROVE  IInv'
<1>1. slot' \in [1..Slots -> Conns \cup {0}] /\ \A i \in 1..Slots : slot'[i] \in {slot[i], 0}
  BY DEF Killed, IInv, Types
<1>2. \A c \in Conns : c \notin Conns => conn[c] = "none" OBVIOUS
<1>. QED BY <1>1, <1>2, EndStep DEF Killed

\* One connection is closed, and its slot is free.
LEMMA ClosedStep ==
  ASSUME IInv, NEW c \in Conns, Reject(c) \/ Disconnect(c)
  PROVE  IInv'
<1>. USE DEF IInv
<1>1. /\ pc = "serving" /\ conn[c] \in {"backlog", "hup"} /\ Closed({c})
      /\ UNCHANGED <<pc, bound, modem, bounds>>
  BY DEF Reject, Disconnect, proxy
<1>2. /\ conn'[c] = "none" /\ inbox'[c] = <<>> /\ wait'[c] = {}
      /\ \A d \in Conns : d # c =>
           conn'[d] = conn[d] /\ inbox'[d] = inbox[d] /\ wait'[d] = wait[d]
      /\ conn' \in [Conns -> {"none", "backlog", "open", "hup"}]
      /\ inbox' \in [Conns -> Seq(Message)] /\ wait' \in [Conns -> SUBSET Message]
      /\ counter' \in [Conns -> 1..MaxTid + 1]
  <2>1. Types OBVIOUS
  <2>. QED BY <1>1, <2>1, ClosedConns
<1>3. /\ \A i \in 1..Slots : slot'[i] = IF slot[i] = c THEN 0 ELSE slot[i]
      /\ slot' \in [1..Slots -> Conns \cup {0}]
  <2>1. CASE Reject(c)
    <3>1. ~Listed(c) BY <2>1 DEF Reject, SlotInv, Accepted
    <3>. QED BY <2>1, <3>1 DEF Reject, proxy, Listed, Types
  <2>2. CASE Disconnect(c) BY <2>2 DEF Disconnect, Types
  <2>. QED BY <2>1, <2>2
<1>4. Types' BY <1>1, <1>2, <1>3 DEF Types, modem, bounds
<1>5. c # 0 /\ \A d \in Conns : d # 0 BY ConnsAssumption
<1>6. SlotInv'
  <2>1. ASSUME NEW d \in Conns PROVE Accepted(d)' <=> Listed(d)'
    <3>1. Accepted(d) <=> \E i \in 1..Slots : slot[i] = d BY <1>1 DEF SlotInv, Listed
    <3>2. CASE d = c
      <4>1. ~Accepted(d)' BY <1>2, <3>2 DEF Accepted
      <4>2. \A i \in 1..Slots : slot'[i] # d BY <1>3, <1>5, <3>2
      <4>. QED BY <4>1, <4>2 DEF Listed
    <3>3. CASE d # c
      <4>1. \A i \in 1..Slots : slot'[i] = d <=> slot[i] = d BY <1>3, <1>5, <3>3
      <4>2. (\E i \in 1..Slots : slot'[i] = d) <=> Accepted(d) BY <3>1, <4>1
      <4>. QED BY <1>2, <3>3, <4>2 DEF Accepted, Listed
    <3>. QED BY <3>2, <3>3
  <2>2. \A i, j \in 1..Slots : slot'[i] = slot'[j] /\ slot'[i] # 0 => i = j
    BY <1>1, <1>3 DEF SlotInv
  <2>. QED BY <1>1, <2>1, <2>2 DEF SlotInv
<1>7. ClientInv'
  <2>1. ASSUME NEW d \in Conns
        PROVE  /\ conn'[d] = "none" => inbox'[d] = <<>>
               /\ conn'[d] \in {"none", "hup"} => wait'[d] = {}
               /\ \A i \in DOMAIN inbox'[d] : inbox'[d][i].conn = d
               /\ \A r \in wait'[d] : wait'[d] = {r} /\ r.conn = d
    <3>1. CASE d = c BY <1>2, <3>1
    <3>2. CASE d # c
      <4>1. /\ conn[d] = "none" => inbox[d] = <<>>
            /\ conn[d] \in {"none", "hup"} => wait[d] = {}
            /\ \A i \in DOMAIN inbox[d] : inbox[d][i].conn = d
            /\ \A r \in wait[d] : wait[d] = {r} /\ r.conn = d
        BY DEF ClientInv
      <4>. QED BY <1>2, <3>2, <4>1
    <3>. QED BY <3>1, <3>2
  <2>. QED BY <2>1 DEF ClientInv
<1>8. calm => InboxInv' BY <1>2 DEF InboxInv
<1>9. calm => RouteInv'
  <2>. SUFFICES ASSUME calm, NEW m \in atModem
                PROVE  /\ m.bits \in 1..Slots /\ slot'[m.bits] \in {m.conn, 0}
                       /\ slot'[m.bits] = m.conn => \A r \in wait'[m.conn] : r.tid = m.tid =>
                            r.n = m.n /\ inbox'[m.conn] = <<>>
    BY <1>1 DEF RouteInv, modem
  <2>1. m.conn \in Conns BY DEF Types, Message
  <2>2. /\ m.bits \in 1..Slots /\ slot[m.bits] \in {m.conn, 0}
        /\ slot[m.bits] = m.conn => \A r \in wait[m.conn] : r.tid = m.tid =>
             r.n = m.n /\ inbox[m.conn] = <<>>
    BY DEF RouteInv
  <2>. QED BY <1>2, <1>3, <1>5, <2>1, <2>2
<1>. QED BY <1>1, <1>4, <1>6, <1>7, <1>8, <1>9 DEF bounds

\* A client gets the first free slot, which no request carries any more.
LEMMA AcceptStep == ASSUME IInv, NEW c \in Conns, Accept(c) PROVE IInv'
<1>. USE DEF IInv
<1>. DEFINE i == Min(FreeSlots)
<1>1. /\ pc = "serving" /\ conn[c] = "backlog"
      /\ slot' = [slot EXCEPT ![i] = c] /\ calm' = (calm /\ ~Outstanding(i))
      /\ conn' = [conn EXCEPT ![c] = "open"]
      /\ UNCHANGED <<pc, bound, inbox, clients, modem, sent, faults>>
  BY DEF Accept
<1>2. i \in 1..Slots /\ slot[i] = 0 BY FirstFree DEF Accept
<1>. HIDE DEF i
<1>3. slot'[i] = c /\ \A j \in 1..Slots : j # i => slot'[j] = slot[j]
  BY <1>1, <1>2 DEF Types
<1>4. conn'[c] = "open" /\ \A d \in Conns : d # c => conn'[d] = conn[d]
  BY <1>1 DEF Types
<1>5. Types' BY <1>1, <1>2 DEF Types, clients, modem
<1>6. c # 0 /\ \A d \in Conns : d # 0 BY ConnsAssumption
<1>7. \A j \in 1..Slots : slot[j] # c BY <1>1 DEF SlotInv, Accepted, Listed
<1>8. SlotInv'
  <2>1. ASSUME NEW d \in Conns PROVE Accepted(d)' <=> Listed(d)'
    <3>1. Accepted(d) <=> \E j \in 1..Slots : slot[j] = d BY <1>1 DEF SlotInv, Listed
    <3>2. CASE d = c BY <1>2, <1>3, <1>4, <3>2 DEF Accepted, Listed
    <3>3. CASE d # c BY <1>2, <1>3, <1>4, <1>6, <3>1, <3>3 DEF Accepted, Listed
    <3>. QED BY <3>2, <3>3
  <2>2. \A j, k \in 1..Slots : slot'[j] = slot'[k] /\ slot'[j] # 0 => j = k
    BY <1>1, <1>3, <1>7 DEF SlotInv
  <2>. QED BY <1>1, <2>1, <2>2 DEF SlotInv
<1>9. ClientInv' BY <1>1, <1>4 DEF ClientInv, clients
<1>10. calm => InboxInv' BY <1>1, <1>4 DEF InboxInv, clients
<1>11. calm' => RouteInv'
  <2>1. ASSUME calm', NEW m \in atModem PROVE m.bits # i /\ m.bits \in 1..Slots
    BY <1>1, <2>1 DEF Outstanding, RouteInv
  <2>. QED BY <1>1, <1>3, <2>1 DEF RouteInv, clients, modem
<1>. QED BY <1>1, <1>5, <1>8, <1>9, <1>10, <1>11

\* What a client takes is the end of its request.
LEMMA TakenWait ==
  ASSUME Types, NEW c \in Conns, NEW m, Taken(c, m)
  PROVE  /\ \A d \in Conns :
              wait'[d] = wait[d] \/ (d = c /\ wait'[d] = {} /\ \E r \in wait[d] : r.tid = m.tid)
         /\ wait' \in [Conns -> SUBSET Message]
<1>1. CASE \E r \in wait[c] : r.tid = m.tid
  <2>1. wait' = [wait EXCEPT ![c] = {}] BY <1>1 DEF Taken
  <2>. QED BY <1>1, <2>1 DEF Types
<1>2. CASE ~\E r \in wait[c] : r.tid = m.tid
  <2>1. wait' = wait BY <1>2 DEF Taken
  <2>. QED BY <2>1 DEF Types
<1>. QED BY <1>1, <1>2

\* A message of a client is answered by the proxy, or sent on.
LEMMA ReadClientStep == ASSUME IInv, NEW c \in Conns, ReadClient(c) PROVE IInv'
<1>. USE DEF IInv
<1>. DEFINE r == Head(inbox[c])
<1>1. /\ pc = "serving" /\ Listed(c) /\ inbox[c] # <<>>
      /\ UNCHANGED <<opened, pending, present, bounds>>
  BY DEF ReadClient
<1>2. r \in Message /\ r.conn = c
  <2>1. inbox[c] \in Seq(Message) BY DEF Types
  <2>2. r \in Message /\ 1 \in DOMAIN inbox[c] /\ r = inbox[c][1] BY <1>1, <2>1
  <2>. QED BY <2>2 DEF ClientInv
<1>3. CASE r.kind = "OPEN" /\ conn[c] = "hup"
  <2>1. Killed /\ UNCHANGED atModem BY <1>3 DEF ReadClient
  <2>2. pending' \in BOOLEAN BY <1>1 DEF Types
  <2>. QED BY <1>1, <2>1, <2>2, KilledStep
<1>4. CASE r.kind = "OPEN" /\ conn[c] # "hup"
  <2>1. /\ Taken(c, r) /\ inbox' = [inbox EXCEPT ![c] = <<>>]
        /\ UNCHANGED <<proxy, conn, counter, atModem>>
    BY <1>4 DEF ReadClient
  <2>2. /\ \A d \in Conns : wait'[d] = wait[d] \/ (d = c /\ wait'[d] = {})
        /\ wait' \in [Conns -> SUBSET Message]
    <3>1. Types OBVIOUS
    <3>. HIDE DEF r
    <3>. QED BY <2>1, <3>1, TakenWait
  <2>3. /\ inbox'[c] = <<>> /\ \A d \in Conns : d # c => inbox'[d] = inbox[d]
        /\ inbox' \in [Conns -> Seq(Message)]
    <3>1. <<>> \in Seq(Message) OBVIOUS
    <3>. QED BY <2>1, <3>1 DEF Types
  <2>. HIDE DEF r
  <2>4. Types' BY <1>1, <2>1, <2>2, <2>3 DEF Types, proxy, bounds
  <2>5. SlotInv' BY <2>1 DEF SlotInv, Accepted, Listed, proxy
  <2>6. ClientInv'
    <3>1. ASSUME NEW d \in Conns
          PROVE  /\ conn'[d] = "none" => inbox'[d] = <<>>
                 /\ conn'[d] \in {"none", "hup"} => wait'[d] = {}
                 /\ \A i \in DOMAIN inbox'[d] : inbox'[d][i].conn = d
                 /\ \A w \in wait'[d] : wait'[d] = {w} /\ w.conn = d
      <4>1. /\ conn[d] = "none" => inbox[d] = <<>>
            /\ conn[d] \in {"none", "hup"} => wait[d] = {}
            /\ \A i \in DOMAIN inbox[d] : inbox[d][i].conn = d
            /\ \A w \in wait[d] : wait[d] = {w} /\ w.conn = d
        BY DEF ClientInv
      <4>2. CASE d = c BY <2>1, <2>2, <2>3, <4>1, <4>2
      <4>3. CASE d # c BY <2>1, <2>2, <2>3, <4>1, <4>3
      <4>. QED BY <4>2, <4>3
    <3>. QED BY <3>1 DEF ClientInv
  <2>7. calm => InboxInv' BY <2>1, <2>2, <2>3 DEF InboxInv
  <2>8. calm => RouteInv'
    <3>1. \A m \in atModem : m.conn \in Conns BY DEF Types, Message
    <3>. QED BY <2>1, <2>2, <2>3, <3>1 DEF RouteInv, proxy
  <2>. QED BY <1>1, <2>4, <2>5, <2>6, <2>7, <2>8 DEF bounds
<1>5. CASE r.kind # "OPEN"
  <2>. DEFINE x == Marked(c, r)
  <2>1. /\ atModem' = IF present THEN atModem \cup {x} ELSE atModem
        /\ inbox' = [inbox EXCEPT ![c] = <<>>]
        /\ UNCHANGED <<proxy, conn, clients>>
    BY <1>5 DEF ReadClient
  <2>2. x \in Message /\ x.bits \in 1..Slots /\ slot[x.bits] = c
        /\ x.conn = c /\ x.tid = r.tid /\ x.n = r.n
    <3>. HIDE DEF r
    <3>. QED BY <1>1, <1>2, MarkedSlot
  <2>3. /\ inbox'[c] = <<>> /\ \A d \in Conns : d # c => inbox'[d] = inbox[d]
        /\ inbox' \in [Conns -> Seq(Message)]
    <3>1. <<>> \in Seq(Message) OBVIOUS
    <3>. QED BY <2>1, <3>1 DEF Types
  <2>4. calm => \A w \in wait[c] : w = r
    <3>1. ASSUME calm, NEW w \in wait[c] PROVE w = r
      <4>1. CASE conn[c] = "hup" BY <3>1, <4>1 DEF ClientInv
      <4>2. CASE conn[c] # "hup" BY <1>1, <3>1, <4>2 DEF InboxInv
      <4>. QED BY <4>1, <4>2
    <3>. QED BY <3>1
  <2>. HIDE DEF r, x
  <2>5. Types' BY <1>1, <2>1, <2>2, <2>3 DEF Types, proxy, clients, bounds
  <2>6. SlotInv' BY <2>1 DEF SlotInv, Accepted, Listed, proxy
  <2>7. ClientInv' BY <2>1, <2>3 DEF ClientInv, clients
  <2>8. calm => InboxInv' BY <2>1, <2>3 DEF InboxInv, clients
  <2>9. calm => RouteInv'
    <3>1. \A m \in atModem : m.conn \in Conns BY DEF Types, Message
    <3>. QED BY <2>1, <2>2, <2>3, <2>4, <3>1 DEF RouteInv, proxy, clients
  <2>. QED BY <1>1, <2>5, <2>6, <2>7, <2>8, <2>9 DEF bounds
<1>. QED BY <1>3, <1>4, <1>5

\* An answer goes to the client that has the slot, or nowhere, or kills the proxy.
LEMMA RecvAnswerStep == ASSUME IInv, NEW m \in atModem, RecvAnswer(m) PROVE IInv'
<1>. USE DEF IInv
<1>. DEFINE c == IF m.bits \in 1..Slots THEN slot[m.bits] ELSE 0
<1>1. /\ atModem' = atModem \ {m} /\ UNCHANGED <<opened, pending, present, bounds>>
      /\ \/ UNCHANGED <<proxy, links, clients>>
         \/ Killed
         \/ c # 0 /\ Taken(c, m) /\ UNCHANGED <<proxy, links, counter>>
  BY DEF RecvAnswer
<1>2. m.conn \in Conns /\ \A d \in Conns : d # 0 BY ConnsAssumption DEF Types, Message
<1>3. CASE Killed
  <2>1. pending' \in BOOLEAN /\ atModem' \subseteq atModem BY <1>1 DEF Types
  <2>. QED BY <1>1, <1>3, <2>1, KilledStep
<1>4. CASE UNCHANGED <<proxy, links, clients>> \/ (c # 0 /\ Taken(c, m) /\ UNCHANGED <<proxy, links, counter>>)
  <2>1. c \in Conns \cup {0} BY DEF Types
  <2>2. UNCHANGED <<pc, bound, slot, conn, inbox, counter>>
    BY <1>4 DEF proxy, links, clients
  <2>. HIDE DEF c
  <2>3. /\ \A d \in Conns : wait'[d] = wait[d]
                            \/ (d = c /\ wait'[d] = {} /\ \E r \in wait[d] : r.tid = m.tid)
        /\ wait' \in [Conns -> SUBSET Message]
    <3>1. CASE UNCHANGED clients BY <3>1 DEF clients, Types
    <3>2. CASE c # 0 /\ Taken(c, m)
      <4>1. c \in Conns /\ Types BY <2>1, <3>2
      <4>. QED BY <3>2, <4>1, TakenWait
    <3>. QED BY <1>4, <3>1, <3>2
  <2>4. Types' BY <1>1, <2>2, <2>3 DEF Types, bounds
  <2>5. SlotInv' BY <2>2 DEF SlotInv, Accepted, Listed
  <2>6. ClientInv'
    <3>1. ASSUME NEW d \in Conns
          PROVE  /\ conn'[d] = "none" => inbox'[d] = <<>>
                 /\ conn'[d] \in {"none", "hup"} => wait'[d] = {}
                 /\ \A i \in DOMAIN inbox'[d] : inbox'[d][i].conn = d
                 /\ \A w \in wait'[d] : wait'[d] = {w} /\ w.conn = d
      <4>1. /\ conn[d] = "none" => inbox[d] = <<>>
            /\ conn[d] \in {"none", "hup"} => wait[d] = {}
            /\ \A i \in DOMAIN inbox[d] : inbox[d][i].conn = d
            /\ \A w \in wait[d] : wait[d] = {w} /\ w.conn = d
        BY DEF ClientInv
      <4>. QED BY <2>2, <2>3, <4>1
    <3>. QED BY <3>1 DEF ClientInv
  <2>7. ASSUME calm, NEW d \in Conns, wait'[d] # wait[d] PROVE inbox[d] = <<>>
    <3>1. d = c /\ \E r \in wait[d] : r.tid = m.tid BY <2>3, <2>7
    <3>2. slot[m.bits] = d /\ m.bits \in 1..Slots BY <1>2, <3>1 DEF c
    <3>3. m.conn = d BY <1>2, <2>7, <3>2 DEF RouteInv
    <3>. QED BY <2>7, <3>1, <3>2, <3>3 DEF RouteInv
  <2>8. calm => InboxInv' BY <2>2, <2>7 DEF InboxInv
  <2>9. calm => RouteInv'
    <3>1. \A y \in atModem : y.conn \in Conns BY DEF Types, Message
    <3>. QED BY <1>1, <2>2, <2>3, <3>1 DEF RouteInv
  <2>. QED BY <1>1, <2>4, <2>5, <2>6, <2>8, <2>9 DEF bounds
<1>. QED BY <1>1, <1>3, <1>4

\* An indication reaches everybody, or kills the proxy.
LEMMA RecvIndicationStep == ASSUME IInv, RecvIndication PROVE IInv'
<1>1. /\ pending' = FALSE
      /\ Killed \/ UNCHANGED <<proxy, links, clients>>
      /\ UNCHANGED <<opened, atModem, present, bounds>>
  BY DEF RecvIndication
<1>2. CASE Killed
  <2>1. pending' \in BOOLEAN /\ atModem' \subseteq atModem BY <1>1
  <2>. QED BY <1>1, <1>2, <2>1, KilledStep
<1>3. CASE UNCHANGED <<proxy, links, clients>>
  <2>1. /\ atModem' \subseteq atModem /\ pending' \in BOOLEAN
        /\ opened' \in BOOLEAN /\ present' \in BOOLEAN
        /\ sent' = sent /\ faults' \in 0..MaxFaults /\ calm' \in BOOLEAN /\ calm' = calm
    BY <1>1 DEF IInv, Types, bounds
  <2>. QED BY <1>3, <2>1, SameClients
<1>. QED BY <1>1, <1>2, <1>3

\* A client connects, gives up, or goes.
LEMMA ClientStep ==
  ASSUME IInv, NEW c \in Conns, Connect(c) \/ GiveUp(c) \/ Close(c)
  PROVE  IInv'
<1>. USE DEF IInv
<1>1. /\ UNCHANGED <<pc, bound, slot, inbox, opened, atModem, pending, present, sent>>
      /\ \A d \in Conns : d # c => wait'[d] = wait[d] /\ conn'[d] = conn[d]
      /\ wait'[c] \in {wait[c], {}} /\ wait' \in [Conns -> SUBSET Message]
      /\ conn' \in [Conns -> {"none", "backlog", "open", "hup"}]
      /\ counter' \in [Conns -> 1..MaxTid + 1]
      /\ conn[c] \in {"none", "hup"} => wait'[c] = wait[c]
      /\ \/ conn[c] = "none" /\ conn'[c] = "backlog" /\ pc = "serving"
         \/ conn[c] = "open" /\ conn'[c] = "hup" /\ wait'[c] = {}
         \/ conn'[c] = conn[c]
      /\ \/ wait'[c] = wait[c] \/ conn'[c] = "hup" \/ inbox[c] = <<>> \/ ~calm'
      /\ calm' \in BOOLEAN /\ (calm' => calm) /\ faults' \in 0..MaxFaults
  <2>. USE DEF proxy, links, clients, modem, bounds
  <2>1. CASE Connect(c)
    <3>1. \A t \in {1, MaxTid + 1} : t \in 1..MaxTid + 1 BY MaxTidAssumption
    <3>. QED BY <2>1, <3>1 DEF Connect, Types, SlotInv
  <2>2. CASE GiveUp(c)
    <3>1. faults' \in 0..MaxFaults BY <2>2, BoundsAssumption DEF GiveUp, Fault, Types
    <3>2. conn[c] # "none" /\ conn[c] # "hup" BY <2>2 DEF GiveUp, ClientInv
    <3>. QED BY <2>2, <3>1, <3>2 DEF GiveUp, Types
  <2>3. CASE Close(c)
    <3>1. 1 \in 1..MaxTid + 1 BY MaxTidAssumption
    <3>. QED BY <2>3, <3>1 DEF Close, Types
  <2>. QED BY <2>1, <2>2, <2>3
<1>2. Types' BY <1>1 DEF Types
<1>3. SlotInv'
  <2>1. \A d \in Conns : Accepted(d)' <=> Accepted(d) BY <1>1 DEF Accepted
  <2>. QED BY <1>1, <2>1 DEF SlotInv, Listed
<1>4. ClientInv'
  <2>1. ASSUME NEW d \in Conns
        PROVE  /\ conn'[d] = "none" => inbox'[d] = <<>>
               /\ conn'[d] \in {"none", "hup"} => wait'[d] = {}
               /\ \A i \in DOMAIN inbox'[d] : inbox'[d][i].conn = d
               /\ \A w \in wait'[d] : wait'[d] = {w} /\ w.conn = d
    <3>1. /\ conn[d] = "none" => inbox[d] = <<>>
          /\ conn[d] \in {"none", "hup"} => wait[d] = {}
          /\ \A i \in DOMAIN inbox[d] : inbox[d][i].conn = d
          /\ \A w \in wait[d] : wait[d] = {w} /\ w.conn = d
      BY DEF ClientInv
    <3>2. CASE d = c BY <1>1, <3>1, <3>2
    <3>3. CASE d # c BY <1>1, <3>1, <3>3
    <3>. QED BY <3>2, <3>3
  <2>. QED BY <2>1 DEF ClientInv
<1>5. calm' => InboxInv'
  <2>1. ASSUME calm', NEW d \in Conns, inbox[d] # <<>>, conn'[d] # "hup"
        PROVE  wait'[d] # {} /\ \A w \in wait'[d] : inbox[d] = <<w>>
    <3>1. conn[d] # "none" BY <2>1 DEF ClientInv
    <3>2. conn[d] # "hup" /\ wait'[d] = wait[d] BY <1>1, <2>1, <3>1
    <3>. QED BY <1>1, <2>1, <3>2 DEF InboxInv
  <2>. QED BY <1>1, <2>1 DEF InboxInv
<1>6. calm' => RouteInv'
  <2>1. \A m \in atModem : m.conn \in Conns BY DEF Types, Message
  <2>2. \A d \in Conns : wait'[d] \in {wait[d], {}} BY <1>1
  <2>. QED BY <1>1, <2>1, <2>2 DEF RouteInv
<1>. QED BY <1>2, <1>3, <1>4, <1>5, <1>6

\* A client asks, with the next transaction id.
LEMMA RequestStep ==
  ASSUME IInv, NEW c \in Conns, NEW k \in {"OPEN", "CMD"}, Request(c, k)
  PROVE  IInv'
<1>. USE DEF IInv
<1>. DEFINE t == NextTid(counter[c])
            r == [kind |-> k, conn |-> c, n |-> sent + 1, bits |-> 0, tid |-> t]
<1>1. /\ conn[c] \in {"backlog", "open"} /\ wait[c] = {}
      /\ sent < MaxRequests /\ sent' = sent + 1
      /\ wait' = [wait EXCEPT ![c] = {r}]
      /\ inbox' = [inbox EXCEPT ![c] = Append(inbox[c], r)]
      /\ counter' = [counter EXCEPT ![c] = t + 1]
      /\ calm' = (calm /\ \A m \in atModem : m.conn = c => m.tid # t)
      /\ UNCHANGED <<proxy, conn, modem, faults>>
  BY DEF Request
<1>2. t \in 1..MaxTid /\ t + 1 \in 1..MaxTid + 1
  <2>1. counter[c] \in 1..MaxTid + 1 BY DEF Types
  <2>. QED BY <2>1, NextTidType
<1>3. sent' \in 0..MaxRequests /\ sent \in Nat BY <1>1, BoundsAssumption DEF Types
<1>. HIDE DEF t
<1>4. r \in Message BY <1>2, <1>3, SlotsAssumption DEF Message
<1>5. r.conn = c /\ r.tid = t OBVIOUS
<1>. HIDE DEF r
<1>6. /\ wait'[c] = {r} /\ inbox'[c] = Append(inbox[c], r)
      /\ \A d \in Conns : d # c => wait'[d] = wait[d] /\ inbox'[d] = inbox[d]
  BY <1>1 DEF Types
<1>7. /\ wait' \in [Conns -> SUBSET Message] /\ inbox' \in [Conns -> Seq(Message)]
      /\ counter' \in [Conns -> 1..MaxTid + 1]
  <2>1. Append(inbox[c], r) \in Seq(Message) BY <1>4 DEF Types
  <2>. QED BY <1>1, <1>2, <1>4, <2>1 DEF Types
<1>8. Types' BY <1>1, <1>3, <1>7 DEF Types, proxy, modem
<1>9. SlotInv' BY <1>1 DEF SlotInv, Accepted, Listed, proxy
<1>10. ClientInv'
  <2>1. ASSUME NEW d \in Conns
        PROVE  /\ conn'[d] = "none" => inbox'[d] = <<>>
               /\ conn'[d] \in {"none", "hup"} => wait'[d] = {}
               /\ \A i \in DOMAIN inbox'[d] : inbox'[d][i].conn = d
               /\ \A w \in wait'[d] : wait'[d] = {w} /\ w.conn = d
    <3>1. /\ conn[d] = "none" => inbox[d] = <<>>
          /\ conn[d] \in {"none", "hup"} => wait[d] = {}
          /\ \A i \in DOMAIN inbox[d] : inbox[d][i].conn = d
          /\ \A w \in wait[d] : wait[d] = {w} /\ w.conn = d
      BY DEF ClientInv
    <3>2. CASE d = c
      <4>1. inbox[c] \in Seq(Message) BY DEF Types
      <4>2. \A i \in DOMAIN Append(inbox[c], r) :
              (i \in DOMAIN inbox[c] /\ Append(inbox[c], r)[i] = inbox[c][i])
              \/ Append(inbox[c], r)[i] = r
        BY <1>4, <4>1
      <4>. QED BY <1>1, <1>5, <1>6, <3>1, <3>2, <4>2
    <3>3. CASE d # c BY <1>1, <1>6, <3>1, <3>3
    <3>. QED BY <3>2, <3>3
  <2>. QED BY <2>1 DEF ClientInv
<1>11. calm' => InboxInv'
  <2>1. ASSUME calm', NEW d \in Conns, inbox'[d] # <<>>, conn[d] # "hup"
        PROVE  wait'[d] # {} /\ \A w \in wait'[d] : inbox'[d] = <<w>>
    <3>1. CASE d = c
      <4>1. inbox[c] = <<>> BY <1>1, <2>1 DEF InboxInv
      <4>2. Append(inbox[c], r) = <<r>> BY <4>1
      <4>. QED BY <1>6, <3>1, <4>2
    <3>2. CASE d # c BY <1>1, <1>6, <2>1, <3>2 DEF InboxInv
    <3>. QED BY <3>1, <3>2
  <2>. QED BY <1>1, <2>1 DEF InboxInv
<1>12. calm' => RouteInv'
  <2>. SUFFICES ASSUME calm', NEW m \in atModem
                PROVE  /\ m.bits \in 1..Slots /\ slot[m.bits] \in {m.conn, 0}
                       /\ slot[m.bits] = m.conn => \A w \in wait'[m.conn] : w.tid = m.tid =>
                            w.n = m.n /\ inbox'[m.conn] = <<>>
    BY <1>1 DEF RouteInv, proxy, modem
  <2>1. m.conn \in Conns BY DEF Types, Message
  <2>2. /\ m.bits \in 1..Slots /\ slot[m.bits] \in {m.conn, 0}
        /\ slot[m.bits] = m.conn => \A w \in wait[m.conn] : w.tid = m.tid =>
             w.n = m.n /\ inbox[m.conn] = <<>>
    BY <1>1 DEF RouteInv
  <2>3. CASE m.conn = c
    <3>1. \A w \in wait'[m.conn] : w = r BY <1>6, <2>3
    <3>2. m.tid # t BY <1>1, <2>3
    <3>. QED BY <1>5, <2>2, <3>1, <3>2
  <2>4. CASE m.conn # c BY <1>6, <2>1, <2>2, <2>4
  <2>. QED BY <2>3, <2>4
<1>. QED BY <1>8, <1>9, <1>10, <1>11, <1>12

\* The modem ignores a message or indicates; the device goes, or comes back.
LEMMA ModemStep == ASSUME IInv, Modem PROVE IInv'
<1>. USE DEF bounds
<1>1. /\ UNCHANGED <<proxy, links, clients, sent>> /\ atModem' \subseteq atModem
      /\ faults' \in {faults, faults - 1} /\ (faults' # faults => faults > 0)
      /\ calm' \in {calm, FALSE}
      /\ opened' \in {opened, FALSE} /\ pending' \in BOOLEAN /\ present' \in BOOLEAN
  <2>1. pending \in BOOLEAN /\ present \in BOOLEAN BY DEF IInv, Types
  <2>2. CASE Ignore BY <2>1, <2>2 DEF Ignore, Fault
  <2>3. CASE Indicate BY <2>1, <2>3 DEF Indicate
  <2>4. CASE Unplug BY <2>1, <2>4 DEF Unplug, Fault
  <2>5. CASE Replug BY <2>1, <2>5 DEF Replug
  <2>. QED BY <2>2, <2>3, <2>4, <2>5 DEF Modem
<1>2. /\ faults \in 0..MaxFaults /\ MaxFaults \in Nat
      /\ calm \in BOOLEAN /\ opened \in BOOLEAN
  BY BoundsAssumption DEF IInv, Types
<1>3. faults' \in 0..MaxFaults BY <1>1, <1>2
<1>4. calm' \in BOOLEAN /\ (calm' => calm)
  <2>1. calm' = calm \/ calm' = FALSE BY <1>1
  <2>2. CASE calm' = calm BY <1>2, <2>2
  <2>3. CASE calm' = FALSE BY <2>3
  <2>. QED BY <2>1, <2>2, <2>3
<1>5. opened' \in BOOLEAN BY <1>1, <1>2
<1>. QED BY <1>1, <1>3, <1>4, <1>5, SameClients

\* Every step preserves the invariant.
LEMMA InvStep == IInv /\ [Next]_vars => IInv'
<1>. SUFFICES ASSUME IInv, [Next]_vars PROVE IInv'
  OBVIOUS
<1>1. CASE Proxy
  <2>1. CASE Open \/ OpenDone BY <2>1, OpenStep
  <2>2. CASE LoopExits BY <2>2, LoopExitsStep
  <2>3. CASE Recv BY <2>3, RecvIndicationStep, RecvAnswerStep DEF Recv
  <2>4. ASSUME NEW c \in Conns, Accept(c) \/ Reject(c) \/ Disconnect(c) \/ ReadClient(c)
        PROVE  IInv'
    BY <2>4, AcceptStep, ClosedStep, ReadClientStep
  <2>. QED BY <1>1, <2>1, <2>2, <2>3, <2>4 DEF Proxy
<1>2. CASE Clients
  BY <1>2, ClientStep, RequestStep DEF Clients
<1>3. CASE Modem BY <1>3, ModemStep
<1>4. CASE UNCHANGED vars
  <2>1. /\ UNCHANGED <<proxy, links, clients>> /\ UNCHANGED <<modem, bounds>>
    BY <1>4 DEF vars
  <2>2. /\ atModem' \subseteq atModem /\ pending' \in BOOLEAN
        /\ opened' \in BOOLEAN /\ present' \in BOOLEAN
        /\ sent' = sent /\ faults' \in 0..MaxFaults /\ calm' \in BOOLEAN /\ calm' = calm
    BY <2>1 DEF IInv, Types, modem, bounds
  <2>. QED BY <2>1, <2>2, SameClients
<1>. QED BY <1>1, <1>2, <1>3, <1>4 DEF Next

-----------------------------------------------------------------------------
(* The theorems                                                            *)

\* Slots, connections, what clients wait for and what is at the modem agree, in
\* every state of the proxy and its clients.
THEOREM Invariance == Spec => []IInv
<1>1. Init => IInv BY InvInit
<1>2. IInv /\ [Next]_vars => IInv' BY InvStep
<1>. QED BY <1>1, <1>2, PTL DEF Spec

\* A serving proxy has one slot for everybody it has accepted, and none for
\* anybody else (handle_client_connect, handle_client_disconnect).
THEOREM TypeCorrect == Spec => []TypeOK
<1>1. IInv => TypeOK
  <2>. SUFFICES ASSUME IInv PROVE TypeOK
    OBVIOUS
  <2>1. ASSUME pc = "serving", NEW c \in Conns
        PROVE  Cardinality({i \in 1..Slots : slot[i] = c})
                 = IF conn[c] \in {"open", "hup"} THEN 1 ELSE 0
    <3>1. c # 0 BY ConnsAssumption
    <3>2. Accepted(c) <=> \E i \in 1..Slots : slot[i] = c
      BY <2>1 DEF IInv, SlotInv, Listed
    <3>3. CASE Accepted(c)
      <4>1. PICK i \in 1..Slots : slot[i] = c BY <3>2, <3>3
      <4>2. {j \in 1..Slots : slot[j] = c} = {i} BY <2>1, <3>1, <4>1 DEF IInv, SlotInv
      <4>3. Cardinality({i}) = 1 BY FS_Singleton
      <4>. QED BY <3>3, <4>2, <4>3 DEF Accepted
    <3>4. CASE ~Accepted(c)
      <4>1. {j \in 1..Slots : slot[j] = c} = {} BY <3>2, <3>4
      <4>2. Cardinality({}) = 0 BY FS_EmptySet
      <4>. QED BY <3>4, <4>1, <4>2 DEF Accepted
    <3>. QED BY <3>3, <3>4
  <2>2. Types BY DEF IInv
  <2>. QED BY <2>1, <2>2 DEF TypeOK, Types
<1>. QED BY <1>1, Invariance, PTL

\* The answer that ends a client's wait is the answer to its request: the slot in
\* an answer's transaction id is the asker's until it goes, and of the asker's
\* requests only the last has that id (handle_device_response, "try to find the
\* sender").
THEOREM AnswersAreForCallers == Spec => AnswerIsForCaller
<1>1. ASSUME IInv, [Next]_vars, calm, NEW m \in atModem, m \notin atModem', faults' = faults,
             NEW c \in Conns, NEW r \in wait[c], wait'[c] = {}, pc' # "killed"
      PROVE  m.n = r.n
  <2>0. faults \in Nat /\ m.conn \in Conns /\ 0 \notin Conns
    BY <1>1, BoundsAssumption, ConnsAssumption DEF IInv, Types, Message
  <2>1. ~Open BY <1>1 DEF Open, IInv, SlotInv, ClientInv
  <2>2. ~UNCHANGED atModem BY <1>1
  <2>3. ~Fault BY <1>1, <2>0 DEF Fault
  <2>4. ~Modem BY <2>2, <2>3 DEF Modem, Ignore, Indicate, Unplug, Replug
  <2>5. ~Clients
    <3>1. ASSUME NEW d \in Conns, Connect(d) \/ GiveUp(d) \/ Close(d) PROVE FALSE
      BY <2>2, <3>1 DEF Connect, GiveUp, Close, modem
    <3>2. ASSUME NEW d \in Conns, NEW k \in {"OPEN", "CMD"}, Request(d, k) PROVE FALSE
      BY <2>2, <3>2 DEF Request, modem
    <3>. QED BY <3>1, <3>2 DEF Clients
  <2>6. ~OpenDone /\ ~LoopExits /\ ~RecvIndication
    BY <2>2 DEF OpenDone, LoopExits, RecvIndication, modem
  <2>7. \A d \in Conns : ~(Accept(d) \/ Reject(d) \/ Disconnect(d))
    BY <2>2 DEF Accept, Reject, Disconnect, modem
  <2>8. \A d \in Conns : ~ReadClient(d)
    BY <1>1 DEF ReadClient
  <2>9. ~UNCHANGED vars BY <2>2 DEF vars, modem
  <2>10. PICK a \in atModem : RecvAnswer(a)
    BY <1>1, <2>1, <2>4, <2>5, <2>6, <2>7, <2>8, <2>9 DEF Next, Proxy, Recv
  <2>11. a = m BY <1>1, <2>10 DEF RecvAnswer
  <2>. DEFINE d == IF m.bits \in 1..Slots THEN slot[m.bits] ELSE 0
  <2>12. d # 0 /\ Taken(d, m)
    <3>1. ~UNCHANGED clients BY <1>1 DEF clients
    <3>2. ~Killed BY <1>1 DEF Killed
    <3>. QED BY <2>10, <2>11, <3>1, <3>2 DEF RecvAnswer
  <2>13. d \in Conns /\ m.bits \in 1..Slots /\ d = slot[m.bits]
    BY <1>1, <2>12 DEF IInv, Types
  <2>. HIDE DEF d
  <2>14. d = c /\ \E w \in wait[c] : w.tid = m.tid
    <3>1. Types BY <1>1 DEF IInv
    <3>2. wait'[c] = wait[c] \/ (c = d /\ wait'[c] = {} /\ \E w \in wait[d] : w.tid = m.tid)
      BY <2>12, <2>13, <3>1, TakenWait
    <3>. QED BY <1>1, <3>2
  <2>15. wait[c] = {r} BY <1>1 DEF IInv, ClientInv
  <2>16. slot[m.bits] = m.conn /\ m.conn = c BY <1>1, <2>0, <2>13, <2>14 DEF IInv, RouteInv
  <2>. QED BY <1>1, <2>14, <2>15, <2>16 DEF IInv, RouteInv
<1>2. IInv /\ [Next]_vars =>
        [\A m \in atModem :
           calm /\ m \notin atModem' /\ faults' = faults =>
             \A c \in Conns : \A r \in wait[c] :
               wait'[c] = {} /\ pc' # "killed" => m.n = r.n]_vars
  BY <1>1
<1>. QED BY <1>2, Invariance, PTL DEF Spec, AnswerIsForCaller
=============================================================================
