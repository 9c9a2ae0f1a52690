------------------------------ MODULE AtcProxy ------------------------------
(***************************************************************************)
(* quectel-atc-proxy: one AT port shared by several connection managers    *)
(* (quectel_cm_5G/src/quectel-atc-proxy.c) over the channel AtChannel.     *)
(*                                                                         *)
(* The main thread opens the port, initialises the modem, opens the server *)
(* socket and joins the loop thread, which accepts clients and passes      *)
(* their commands to the channel.  What the modem says is passed on by the *)
(* channel's reader thread, line by line: to the caller of the command, if *)
(* current_client_fd says who that is, and otherwise to every connection.  *)
(* The reader and the loop thread share the list of connections without a  *)
(* lock.                                                                   *)
(***************************************************************************)
EXTENDS AtChannel

CONSTANTS
  Fds,             \* descriptors for connections; a closed one is used again
  MaxCommands,     \* bound on clients' commands
  Settings,        \* commands of the initialisation whose result does not matter: 6
  HandshakeTries,  \* HANDSHAKE_RETRY_COUNT
  InitTries        \* the 5 of retry_times

ASSUME ProxyAssumption ==
  /\ IsFiniteSet(Fds) /\ Fds \subseteq Nat \ {0, 3, 4}
  /\ {MaxCommands, Settings, HandshakeTries, InitTries} \subseteq Nat /\ HandshakeTries > 0
  /\ Proxy   \* its at_open says so

VARIABLES
  main,     \* main thread: "closed", "init", "serve"
  step,     \* atc_proxy_init: the command it is at, whether sent, tries of the handshake
  retries,  \* retry_times
  server,   \* atc_proxy_server_fd is open
  loop,     \* loop thread: "none", "poll", "events", "call", "ended"
  list,     \* atc_proxy_connection, oldest first
  conn,     \* "none", "backlog", "open", or "hup": closed by the client
  inbox,    \* a command written by the client and not yet read
  pollfds,  \* the loop's array, with what earlier rounds left in it
  nevents,  \* entries filled in this round
  events,   \* descriptors this round has still to look at
  current,  \* current_client_fd
  walk,     \* where the reader is in the list, see Walker
  dead,     \* "no", or what ended the process: "sigpipe", "freed" memory
  commands, \* clients' commands so far
  asker,    \* history: the client of the command in flight
  heard,    \* history: it was given its final response
  shrunk    \* history: a connection has left the list

proxy == <<main, step, retries, server>>
clients == <<list, conn, inbox>>
polling == <<pollfds, nevents, events>>
history == <<asker, heard, shrunk>>
vars == <<atvars, proxy, loop, clients, polling, current, walk, dead, commands, history>>

\* The walker stands at connection "at" (0: none), whose node it has yet to
\* leave; if the node was freed meanwhile, "next" is what it pointed to.
NoWalk == [at |-> 0, freed |-> FALSE, next |-> 0]

Handshake == [at |-> 0, sent |-> FALSE, tries |-> 1]
Device == 3   \* atc_dev_fd
Server == 4   \* atc_proxy_server_fd
Slots == 1..(3 + Cardinality(Fds))

Init ==
  /\ AtInit
  /\ main = "closed" /\ step = Handshake /\ retries = 0 /\ server = FALSE
  /\ loop = "none" /\ list = <<>>
  /\ conn = [f \in Fds |-> "none"] /\ inbox = [f \in Fds |-> FALSE]
  /\ pollfds = [i \in Slots |-> 0] /\ nevents = 0 /\ events = <<>>
  /\ current = 0 /\ walk = NoWalk /\ dead = "no" /\ commands = 0
  /\ asker = 0 /\ heard = FALSE /\ shrunk = FALSE

Connections == ToSet(list)

\* The elements of sequence s that are in S, in their order.
Those(s, S) ==
  LET upto[n \in 0..Len(s)] ==
        IF n = 0 THEN <<>>
        ELSE IF s[n] \in S THEN Append(upto[n - 1], s[n]) ELSE upto[n - 1]
  IN upto[Len(s)]

\* The next connection in the list, 0 at its end.
After(f) == LET i == CHOOSE i \in DOMAIN list : list[i] = f
            IN  IF i < Len(list) THEN list[i + 1] ELSE 0

-----------------------------------------------------------------------------
(* Main thread                                                             *)

\* Variant: the server starts before the initialisation.
OpenServing ==
  /\ main = "closed" /\ at_open
  /\ main' = "init" /\ loop' = "events" /\ step' = Handshake /\ list' = <<>>
  /\ server' = TRUE
  /\ UNCHANGED <<retries, conn, inbox, polling, current, walk, dead, commands, history>>

Open ==
  /\ main = "closed" /\ at_open
  /\ main' = "init" /\ loop' = "events" /\ step' = Handshake /\ list' = <<>>
  /\ UNCHANGED <<retries, server, conn, inbox, polling, current, walk, dead, commands,
                 history>>

\* The commands of atc_proxy_init after the handshake, by what they expect:
\* Settings of them (AT+QCFG="usbnet" to AT+QNETDEVSTATUS) whatever their result,
\* then AT+QCFG="NAT" to read and to write, and the restart.
Script == [i \in 1..Settings |-> "MULTILINE"] \o <<"SINGLELINE", "NO_RESULT", "NO_RESULT">>
NatQuery == Settings + 1
Reboot == Settings + 3

InitSend ==
  /\ main = "init" /\ ~step.sent
  /\ at_send_command("main", IF step.at = 0 THEN "NO_RESULT" ELSE Script[step.at])
  /\ step' = [step EXCEPT !.sent = TRUE]
  /\ UNCHANGED <<main, retries, server, loop, clients, polling, current, walk, dead, commands,
                 history>>

Goto(s) == step' = s /\ UNCHANGED <<main, retries, server>>

\* An initialisation that failed is tried again; the server starts in any case.
InitEnds(failed) ==
  IF failed /\ retries < InitTries /\ present
  THEN step' = Handshake /\ retries' = retries + 1 /\ UNCHANGED <<main, server>>
  ELSE step' = Handshake /\ retries' = 0 /\ main' = "serve" /\ server' = TRUE

InitNext ==
  LET ok == result.err = "ok"
      good == ok /\ result.success
      next == [step EXCEPT !.at = @ + 1, !.sent = FALSE] IN
  /\ main = "init" /\ step.sent /\ caller["main"] = "out"
  /\ CASE step.at = 0 /\ ~ok ->
            IF step.tries < HandshakeTries
            THEN Goto([step EXCEPT !.tries = @ + 1, !.sent = FALSE])
            ELSE InitEnds(TRUE)
       [] step.at = NatQuery -> IF good THEN InitEnds(FALSE) \/ Goto(next) ELSE InitEnds(~ok)
       [] step.at = Reboot \/ (step.at = Reboot - 1 /\ ~good) -> InitEnds(FALSE)
       [] OTHER -> Goto(next)
  /\ UNCHANGED <<atvars, loop, clients, polling, current, walk, dead, commands, history>>

CloseServer ==
  /\ main = "serve" /\ loop = "ended"
  /\ main' = "closed" /\ loop' = "none" /\ server' = FALSE
  /\ conn' = [f \in Fds |-> "none"] /\ inbox' = [f \in Fds |-> FALSE]
  /\ UNCHANGED <<atvars, step, retries, list, polling, current, walk, dead, commands, history>>

-----------------------------------------------------------------------------
(* Loop thread                                                             *)

Polled == <<Device>> \o (IF server THEN <<Server>> ELSE <<>>) \o list

FillPollfds ==
  /\ loop = "events" /\ events = <<>>
  /\ nevents' = Len(Polled)
  /\ pollfds' = [i \in Slots |-> IF i <= Len(Polled) THEN Polled[i] ELSE pollfds[i]]
  /\ loop' = "poll"
  /\ UNCHANGED <<atvars, proxy, clients, events, current, walk, dead, commands, history>>

\* What poll reports; input from the modem is left to the reader.
Reported ==
  (IF present THEN {} ELSE {Device})
  \cup (IF \E c \in Fds : conn[c] = "backlog" THEN {Server} ELSE {})
  \cup {f \in Fds : conn[f] = "hup" \/ inbox[f]}

\* Variant: no time limit before the server socket is open.
PollReturnsLate ==
  LET now == Those(SubSeq(pollfds, 1, nevents), Reported) IN
  /\ loop = "poll" /\ now # <<>>
  /\ events' = now /\ loop' = "events"
  /\ UNCHANGED <<atvars, proxy, clients, pollfds, nevents, current, walk, dead, commands,
                 history>>

\* Without the server socket poll returns after 200 ms in any case.
PollReturns ==
  LET now == Those(SubSeq(pollfds, 1, nevents), Reported) IN
  /\ loop = "poll"
  /\ now # <<>> \/ ~\E i \in 1..nevents : pollfds[i] = Server
  /\ events' = now /\ loop' = "events"
  /\ UNCHANGED <<atvars, proxy, clients, pollfds, nevents, current, walk, dead, commands,
                 history>>

accept_atc_connection ==
  /\ loop = "events" /\ events # <<>> /\ Head(events) = Server
  /\ \E f \in Fds : /\ conn[f] = "backlog"
                    /\ conn' = [conn EXCEPT ![f] = "open"] /\ list' = Append(list, f)
  /\ events' = Tail(events)
  /\ UNCHANGED <<atvars, proxy, loop, inbox, pollfds, nevents, current, walk, dead, commands,
                 history>>

\* The nodes of connections S are freed, the reader's one included.
Cleanup(S) ==
  /\ list' = Those(list, Fds \ S)
  /\ conn' = [f \in Fds |-> IF f \in S THEN "none" ELSE conn[f]]
  /\ inbox' = [f \in Fds |-> inbox[f] /\ f \notin S]
  /\ walk' = IF walk.at \in S /\ ~walk.freed
             THEN [at |-> walk.at, freed |-> TRUE, next |-> After(walk.at)] ELSE walk
  /\ current' = IF current \in S THEN 0 ELSE current
  /\ shrunk' = (shrunk \/ S # {})

cleanup_atc_connection ==
  /\ loop = "events" /\ events # <<>> /\ Head(events) \in Fds /\ conn[Head(events)] = "hup"
  /\ Cleanup({Head(events)})
  /\ events' = Tail(events)
  /\ UNCHANGED <<atvars, proxy, loop, pollfds, nevents, dead, commands, asker, heard>>

\* The caller is looked up by the entry behind the last one filled in.
ReadCommand ==
  LET f == Head(events) IN
  /\ loop = "events" /\ events # <<>> /\ f \in Fds /\ conn[f] = "open"
  /\ at_send_command("loop", "NO_RESULT")
  /\ inbox' = [inbox EXCEPT ![f] = FALSE]
  /\ current' = IF pollfds[nevents + 1] \in Connections THEN pollfds[nevents + 1] ELSE 0
  /\ asker' = f /\ heard' = FALSE
  /\ loop' = "call"
  /\ UNCHANGED <<proxy, list, conn, polling, walk, dead, commands, shrunk>>

CommandDone ==
  /\ loop = "call" /\ caller["loop"] = "out"
  /\ current' = 0 /\ asker' = 0 /\ heard' = FALSE
  /\ events' = Tail(events) /\ loop' = "events"
  /\ UNCHANGED <<atvars, proxy, clients, pollfds, nevents, walk, dead, commands, shrunk>>

LoopExit ==
  /\ loop = "events" /\ events # <<>> /\ Head(events) = Device
  /\ at_close /\ Cleanup(Connections)
  /\ loop' = "ended" /\ events' = <<>>
  /\ UNCHANGED <<proxy, pollfds, nevents, dead, commands, asker, heard>>

-----------------------------------------------------------------------------
(* Reader thread: onUnsolicited                                            *)

\* send_atc_to_client: SIGPIPE, which nobody catches, if the client has closed.
Given(f) ==
  /\ dead' = IF conn[f] = "hup" THEN "sigpipe" ELSE dead
  /\ heard' = (heard \/ (f = asker /\ IsFinal(Last(lines)) /\ Last(lines).of = response.n))

ToCaller ==
  /\ reader = "hand" /\ current # 0 /\ walk = NoWalk
  /\ Given(current) /\ HandlerReturns
  /\ UNCHANGED <<proxy, loop, clients, polling, current, walk, commands, asker, shrunk>>

ToFirst ==
  /\ reader = "hand" /\ current = 0 /\ walk = NoWalk /\ list # <<>>
  /\ Given(Head(list)) /\ walk' = [NoWalk EXCEPT !.at = Head(list)]
  /\ UNCHANGED <<atvars, proxy, loop, clients, polling, current, commands, asker, shrunk>>

\* A node freed under the reader still points to where it did, or no longer.
ToNext ==
  LET next == IF walk.freed THEN walk.next ELSE After(walk.at) IN
  /\ reader = "hand" /\ walk.at # 0
  /\ \/ /\ next = 0
        /\ HandlerReturns /\ walk' = NoWalk /\ UNCHANGED <<dead, heard>>
     \/ /\ next \in Connections
        /\ Given(next) /\ walk' = [NoWalk EXCEPT !.at = next] /\ UNCHANGED atvars
     \/ /\ walk.freed
        /\ dead' = "freed" /\ UNCHANGED <<walk, atvars, heard>>
  /\ UNCHANGED <<proxy, loop, clients, polling, current, commands, asker, shrunk>>

ToNobody ==
  /\ reader = "hand" /\ current = 0 /\ walk = NoWalk /\ list = <<>>
  /\ HandlerReturns
  /\ UNCHANGED <<proxy, loop, clients, polling, current, walk, dead, commands, history>>

-----------------------------------------------------------------------------
(* Clients                                                                 *)

Connect(f) ==
  /\ server /\ conn[f] = "none" /\ f \notin Connections
  /\ conn' = [conn EXCEPT ![f] = "backlog"]
  /\ UNCHANGED <<atvars, proxy, loop, list, inbox, polling, current, walk, dead, commands,
                 history>>

Write(f) ==
  /\ conn[f] = "open" /\ ~inbox[f] /\ commands < MaxCommands
  /\ inbox' = [inbox EXCEPT ![f] = TRUE] /\ commands' = commands + 1
  /\ UNCHANGED <<atvars, proxy, loop, list, conn, polling, current, walk, dead, history>>

HangUp(f) ==
  /\ conn[f] = "open" /\ Fault
  /\ conn' = [conn EXCEPT ![f] = "hup"]
  /\ UNCHANGED <<channel, line, outOfStep, proxy, loop, list, inbox, polling, current,
                 walk, dead, commands, history>>

-----------------------------------------------------------------------------
Main == Open \/ InitSend \/ InitNext \/ CloseServer

Loop == FillPollfds \/ PollReturns \/ accept_atc_connection
        \/ cleanup_atc_connection \/ ReadCommand \/ CommandDone \/ LoopExit

Handler == ToCaller \/ ToFirst \/ ToNext \/ ToNobody

Channel ==
  /\ \/ \E t \in Threads : SliceExpires(t) \/ WaitAgain(t) \/ TimesOut(t) \/ Returns(t)
     \/ ReadText \/ ReadPdu \/ ReadLine \/ ReaderEnds
     \/ Answer("OK") \/ Answer("ERROR") \/ Unsolicited \/ Unplug \/ Replug
  /\ UNCHANGED <<proxy, loop, clients, polling, current, walk, dead, commands, history>>

Client == \E f \in Fds : Connect(f) \/ Write(f) \/ HangUp(f)

Next == dead = "no" /\ (Main \/ Loop \/ Handler \/ Channel \/ Client)

Spec == Init /\ [][Next]_vars

\* The threads run, the modem answers what it has been asked, a device that
\* is gone comes back; a client owes nothing.
Fairness ==
  /\ WF_vars(dead = "no" /\ Main)
  /\ WF_vars(dead = "no" /\ Loop)
  /\ WF_vars(dead = "no" /\ Handler)
  /\ WF_vars(dead = "no" /\ Channel)
LiveSpec == Spec /\ Fairness

-----------------------------------------------------------------------------
(* Properties                                                              *)

\* Types; the reader is at a node only while it hands on a line, and nothing
\* of the poll round outlives the loop.  at_send_command_full_nolock frees the
\* response of whoever waits when it finds a command pending (atchannel.c:752):
\* the initialisation in the main thread and the clients' commands in the loop
\* thread never meet there.
TypeOK ==
  /\ main \in {"closed", "init", "serve"} /\ server \in BOOLEAN
  /\ loop \in {"none", "poll", "events", "call", "ended"}
  /\ Connections \subseteq Fds /\ \A f \in Connections : conn[f] \in {"open", "hup"}
  /\ walk.at # 0 => reader = "hand"
  /\ current # 0 => loop = "call" /\ current \in Connections
  /\ events # <<>> => loop \in {"events", "call"}
  /\ dead \in {"no", "sigpipe", "freed"} /\ ~collided

\* A client whose command succeeded or failed is given the final response,
\* as long as no connection has ended: only then is the entry behind the
\* last one of pollfds (quectel-atc-proxy.c:381) empty, and the answer goes
\* to everyone.
CallerHears ==
  loop = "call" /\ caller["loop"] = "out" /\ result.err = "ok" /\ result.own
  /\ conn[asker] = "open" /\ ~shrunk /\ dead = "no" => heard

\* A command returns with the response to itself, although nothing in a line names
\* the command it answers, until a command of the session is given up before its
\* final response (atchannel.h:80) or takes an unsolicited line for it
\* (atchannel.c:130): nothing else, no slice, text message, client or handler, brings
\* commands and responses out of step.
InStep == [][result' # result /\ result'.err = "ok" /\ ~outOfStep => result'.own]_vars

\* Every connection is accepted and every command taken, whatever becomes of
\* the device, unless the connection is closed or the process dies.
ClientsServed ==
  \A f \in Fds : conn[f] = "backlog" \/ inbox[f]
                 ~> (conn[f] # "backlog" /\ ~inbox[f]) \/ dead # "no"
=============================================================================
