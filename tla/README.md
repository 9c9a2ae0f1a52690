# Verification of the openwrt-package daemons

The repository is a collection of OpenWrt packages. Its program logic of its own is in two
places: `quectel_cm_5G/src`, a connection manager for Quectel modems with the proxies that
share one modem between several managers, and `ser2mqtt/src`, a bridge from a serial
Modbus line to MQTT with its copy of cJSON. The rest is scripts, web pages and configuration.
This directory holds TLA+ models of both, their model-checking runs and proofs.
`S/` below stands for `src/quectel_cm_5G/src/`, `M/` for `src/ser2mqtt/src/`.

## 1. Inventory

| component | state | operations | talks to |
|---|---|---|---|
| QMI request rendezvous (`S/QMIThread.c` 575-700, `S/QmiWwanCM.c`, `S/util.c`) | `s_pRequest`, `s_pResponse`, condition variable, transaction counters, device descriptor, `wait_for_request_quit` | send with timeout, receive, complete without answer, drain, leave | main thread by mutex and condition, device thread by `qmidevice_control_fd`, modem by `/dev/cdc-wdm*` |
| connection manager main loop (`S/main.c`, requests of `S/QMIThread.c`, `S/udhcpc.c`) | connection status and handle of each family, link mask, profile address, redial time, restart flag | START, CHECK and STOP signals, device events, session start and end | device thread (events and commands), signal handler (`signal_control_fd`), network interface |
| `S/quectel-qmi-proxy.c` | connections, their client ids, queue of control requests, `qmi_sync_done`, `modem_reset_flag` | accept, read, route, clean up, SYNC, start over | managers by a local socket, modem |
| `S/quectel-mbim-proxy.c` | table of 32 client slots | accept, map transaction ids, route, clean up, start over | managers by a local socket, modem |
| MBIM command channel (`S/mbim-cm.c`) | `mbim_pRequest`, `mbim_pResponse`, transaction counter | send, receive, indications | as the QMI rendezvous |
| AT command channel (`S/atchannel.c`, `S/atc.c`) | `sp_response`, line buffer, `s_readerClosed` | send, reader loop, unsolicited lines | main thread, modem tty |
| `S/quectel-atc-proxy.c` | connections, `current_client_fd` | accept, forward, route | managers, AT channel |
| request operations over AT and MBIM (`S/atc.c`, `S/mbim-cm.c`) | modem style, old APN, cached states of SIM, registration and call | one command after the other for each handler of the main loop; indications | main loop, channels |
| QMI session set-up (`S/QMIThread.c`, `S/qmap_bridge_mode.c`, `S/udhcpc.c`) | `PROFILE_T`, `s_9x07`, `s_is_cdma`, the driver's framing | detection, data format, mux binding, SIM, profile, registration, dial, DHCP | modem by QMUX messages, kernel driver by sysfs |
| QMUX message codec (`S/MPQMUX.h`, composers of `S/QMIThread.c`) | none | compose a request over a packed struct, look a TLV up | |
| ser2mqtt (`M/main.c`, `serial.c`, `modbus.c`, `mqtt_client.c`) | serial descriptor, frame buffer, MQTT client | receive frame, check, publish; command to serial line | MQTT library thread, serial line, procd |
| cJSON (`M/cJSON.c`) | items linked in trees; print buffer | parse, print, minify, build, change, copy, compare, delete | ser2mqtt's MQTT thread |
| GobiNet transport, device detection, AT tokenizer | none worth speaking of, or none in this repository | | |
| QRTR transport and proxy | client sockets | | not built (`S/Makefile`) |
| LuCI pages, init scripts, service and database files | | | |

What is hard in this code, and why a test would hardly reach it: a rendezvous with a timed
wait cut into four, during which answers arrive late, never, or at the same time as a stop;
transaction ids that wrap; a signal handler that writes to the main loop at any point; a
device thread that outlives its session; links, addresses and handles cached on one side
while the modem changes them on the other; a proxy that gives an answer to whoever is at
the head of a queue. `PROJECT.json` lists these as hazards, each at its line.

What makes the components correct:

* rendezvous: an answer is the answer to that request; a stop or a dead device releases the
  caller; success without an answer is reported only while the device thread stops;
* main loop: no family counts as connected without a call; the interface gets the modem's
  address, again after every disturbance; a stop ends the process; no exit leaves the link up;
* proxies: answers reach the caller, ids stay with the connection they were given to, a
  client that leaves does not take the others with it, a modem reset starts a new session;
* AT channel: a command's result is its own, and the client that asked hears it;
* operations: whatever fails, the link carries a call again; the modem reads in every request
  what was meant; driver and modem frame packets alike; the call is the one asked for;
* ser2mqtt: a frame published is a frame sent, and a command written is the one published;
* cJSON: the links of a tree stay well formed, nothing is leaked or deleted twice, what is
  printed is read back, and the print buffer is never overrun.

## 2. Modules

| module | models |
|---|---|
| `QmiCall` | what a blocking request promises its caller: the abstract specification |
| `QmiChannel` | the rendezvous: main thread, device thread, condition variable, modem |
| `MCQmiChannel` | `QmiChannel` with counters that wrap after 3 and 2 requests |
| `QmiChannelProofs` | the proofs about `QmiChannel` |
| `ConnMgr` | the connection manager: main loop, signal handler, sessions, modem and network |
| `ConnMgrProofs` | the proofs about `ConnMgr` |
| `QmiProxy` | quectel-qmi-proxy with its clients and the modem |
| `QmiProxyProofs` | the proofs about `QmiProxy` |
| `MbimProxy` | quectel-mbim-proxy with its clients (the channel of `mbim-cm.c`) and the modem |
| `MbimProxyProofs` | the proofs about `MbimProxy` |
| `AtChannel` | the AT command channel: callers, reader thread, tty, modem |
| `AtcProxy` | quectel-atc-proxy over `AtChannel`, which it extends, with its clients |
| `AtcProxyProofs` | the proofs about `AtChannel` and `AtcProxy` |
| `RequestOps` | what AT and MBIM operations have in common: state, outcomes of a command, the modem |
| `AtRequests`, `MbimRequests` | the handlers of `struct request_ops`, one action per command |
| `Dialling` | the connection manager over these two, with device threads, signals and network |
| `DiallingProofs` | the proofs about `RequestOps`, the handlers and `Dialling` |
| `QmuxCodec` | the requests of a QMI session as tags and lengths, composed and read |
| `QmiSetup` | a QMI session from detection to the first link up, over `QmuxCodec` |
| `QmiSetupProofs` | the proofs about `QmuxCodec` and `QmiSetup` |
| `JsonTree` | what cJSON promises: a forest of items with ordered children (abstract) |
| `CJson` | cJSON's items in memory and their links, which implement `JsonTree` |
| `JsonParse` | cJSON's parser, as one recursive function |
| `JsonText` | its printer, string literals and minifying, over `JsonParse`, and the checks of all of them |
| `Ser2Mqtt` | ser2mqtt's two threads, the line and the broker, over `JsonParse` |
| `Ser2MqttProofs` | the proofs about `JsonParse` and `Ser2Mqtt` |
| `MCSer2Mqtt` | the module of the run: `Ser2Mqtt` and the checks of `JsonText` |

`QmiChannel` implements `QmiCall` (`CallSpec`, model-checked and proved). `ConnMgr` does not
repeat the rendezvous: its requests are single steps with the outcomes of `QmiCall`
(`Ends`), where `Leaving` is `QmiCall`'s `leaving`. `QmiProxy` has clients that
match answers as `QmiChannel` does, by type and transaction id. `Dialling` does not repeat
`AtChannel` or the client of `MbimProxy` either: a command is one step with the outcomes these
allow, lost answers and lost commands among them. `ConnMgr` covers QMI sessions from
where `QmiSetup` leaves off: the loop with its signals, two families and device events.

### QmiChannel

Main thread: `Send*` is `Compose*Msg` and `QmiThreadSendQMITimeout` up to the wait, one
action for each way the write can end (written, refused, and *swallowed*: `poll` timed out and
returned 0, so the caller waits for the answer to a request never written). The wait is
`pthread_cond_timeout_np`: `SliceExpires`, `WaitAgain`, `TimesOut`; a thread
between two slices (`mpc = "expired"`) is not on the condition's queue and misses signals.
Device thread: `RecvAnswer`, `RecvIndication`, `DrainTick` (one second idle while
stopping), `ReadStop`, `ReadQuit`, `Hangup`, then `Notify` and `Flush`. Steps under the mutex
are atomic. The modem answers any request it holds at any time, in any order, or never. One
assumption is stated where it is made (`Aged`): it answers no request a whole
counter cycle late, since with a reused id nothing could tell the two apart.
Spurious wake-ups of the condition variable are left out.

### ConnMgr

`pc` follows `qmi_main` from request to request; one handler of the loop (`OnStart`,
`OnCheck`, `OnStop`, `OnEvent`) is several steps, between which signals, the device thread
and the network act. Queues: `sigq` (signal socket), `devq` and `ctl` (the two directions of
the device socket). `devReady` remembers what `poll` had reported before a signal was handled.
`reader` is the present device thread, `old` one that a failed initialisation left behind: it
sleeps on the old session's descriptors until one of them wakes it and then reads the
global descriptors, which are the new session's. `modem` has the calls and their
addresses; `handle` says what the modem thinks of a stored handle. `RedialAccepted` says
whether the modem accepts a dial for a call it already has (some answer NO_EFFECT).
`requestSetupDataCall` reads its error code from a response it has freed
(`S/QMIThread.c:1862`): the model returns the error, which is what allocators that
reuse only the block's first words leave there.

Bounds: `MaxFaults` (calls that drop or move, detaching, resets, unplugging, requests that
fail) and `MaxStops`. Two addresses are enough for "another address"; two faults for one
fault in the repair of another.

### QmiProxy

The main thread (`main`), the loop thread (`loop`), connections by descriptor, which is used again
after it is closed, and clients with one request at a time. Messages carry ghost fields
(`fd`, `n`) naming the request they belong to; the proxy's actions do not look at them.
`calm` is a history variable: nothing has disturbed the control queue since the device was
opened. What disturbs it is listed at the actions that use `Disturbed`: a SYNC sent
again, or the server opened, while a SYNC or its answer is on its way, a client that leaves with a
request outstanding, one that gives up on a request the proxy has not read,
a control request the modem ignores, a reset. For those the code has no remedy, and the
properties about the control queue claim nothing until the next session; everything else, late data
answers, unsolicited indications at any time, unplugging, two clients with equal transaction ids, is
covered. Which requests a blocked control queue must not hold up is the second part of
`RequestsServed`. An indication of another service (client id 0) goes to every connection with a
client of that service (`Addressed`; which ones these are is not modelled, so any set of
connections with a client id may be meant), and one that has just been closed ends the proxy by
SIGPIPE. A reset is an *indication* of the control service (`S/MPQCTL.h:234`).

### MbimProxy

`proxy_loop` and `main` are one thread: `pc` tells which of its polls it is in (device only, with
ten seconds' timeout, while `"opening"`; everything while `"serving"`), and one action is
what the loop does for one ready descriptor. `slot` is `cm_clients`: index, and client if any.
`bits` and `tid` are the two parts of a transaction id, the proxy's and the client's; `conn`
and `n` of a message are ghost fields that only properties read. A client is one connection manager
with its counter and its one pending request (`mbim_pRequest`); the condition variable around it
is not modelled again. The counter starts at 1 or just below its wrap, since it
belongs to the process and not to the connection.

A write to a connection that the other side has closed raises SIGPIPE, which no program of this
directory that is modelled here handles: `Killed`. `calm` becomes false when a slot is given
away while the modem still has a request of its former owner, when a transaction id is used
again while the request that had it is outstanding (a whole cycle of the counter), when
the modem ignores a request, and when a client gives up on a request that the proxy has not
read, as `read` would then return two messages and the device take one. A request that times
out later, the disappearance of the device and clients that leave at any time are covered.

### AtChannel and AtcProxy

`caller` says where each of the two threads that may send a command is in `at_send_command_full`;
the timed wait is sliced as in `QmiChannel`. The reader takes line after line from `rx` and
decides by its kind alone: a data line counts for a command only with that command's prefix, a
final line for whatever is pending. Lines carry, as a ghost, the number of the command they
answer; `result.own` and `heard` compare it. The modem answers a command atomically but at any
time: an answer that comes after its command was given up is a fault, after which
`outOfStep` is set for the rest of the session. An unsolicited line may have the form of a final
response too (`S/atchannel.c:130`, `S/atchannel.c:161`); it completes a pending command, if there is
one, and sets `outOfStep` then. `AtcProxy` extends the channel with the
proxy's two threads. The reader walks the list of connections (`walk`) one connection per step
while the loop thread accepts and removes; a node freed under the walker is remembered with what
it pointed to. `pollfds` keeps what earlier rounds left in it, because the caller of a command is
looked up at `pollfds[nevents]`, one entry behind the last (`S/quectel-atc-proxy.c:381`): it is the
right one only because the loop counts nevents while filling, and `CallerHears` says until when.
`Settings` bounds the commands of the initialisation whose result nothing depends on (six in
the code). The device comes back only when the reader of the last session has gone.
Left out: commands with a prompt or raw data, write errors other than SIGPIPE, a server socket
that cannot be bound, the reset flag.

### RequestOps, AtRequests, MbimRequests and Dialling

`pc` names the command the main thread waits for, `back` where the present handler returns to. A
command ends `"done"`, `"refused"`, or without an answer, in which case the modem may have
carried it out or not; the sign of the error decides what the caller makes of it (an ERROR over
AT leaves `err` at 0). `seen` and `cache` are MBIM's current and old states: indications are
compared with `cache` by the device thread while the main thread updates it without a lock.
`HoldExpires` ends a redial delay, which is seconds long: it comes only when at most `Behind`
signals wait. Only commands whose result or effect the loop depends on are there; IPv4 only,
since for these modems IPv6 copies its status (`S/main.c:443`); user and password are set, so
that MBIM redials.

An initialisation that fails leaves its device thread running (`S/main.c:312`). `left` says what
such threads do: wait for events or, after a stop, drain. Descriptors are global, so
a thread left behind that wakes reads the present session's control socket and takes what was written to the
present thread (`LeftStop`, `LeftQuit`), and when it leaves it closes the present
channel (`LeftLeaves`). Over AT the thread of `atchannel.c` is there twice as well, and the loser of a race
for an answer marks the channel closed (`Deafens`). `Alive` is a device thread of the present session that runs
with a channel or without.

### QmuxCodec and QmiSetup

A request is the list of the fields' places in its struct, the TLVs written there and the
length announced; `Readable` is how the modem walks it. Of a string only
its length and identity matter; that the few strings used have lengths is `TextAssumption`. `QmiSetup` follows `qmi_main` up to the link: `cmd`, `host` and `reg` are chosen
once (command line, kind of driver, network), `prof` and `known` are what the program keeps,
also over a restart of the modem (`session`). `trouble` names the requests that went
unanswered in this session; "stuck" in it, a driver left in raw IP by an earlier DHCP failure. A
modem of the newer generation understands requests of the older one or not (`Generations`).
Left out: home network query, data classes, loopback traffic, the loop's status queries.

### CJson and JsonTree

`heap` maps places to items with the fields `next`, `prev`, `child`, type and key; a function
of `cJSON.c` is an operator from heap to heap, with a failed allocation when no place is
free (or, for the copy of a key, at any time: `strdup`). `held` is what the caller has
to delete, `lost` what nobody can reach any more. The caller keeps to the interface: it makes
no cycles, adds to containers only, and leaves a tree alone while a reference made by
`create_reference` borrows from it (deleting the original then leaves the reference dangling,
which `cJSON.h` warns of). `ImplementsTree` maps the linked lists to the sequences
of `JsonTree`, whose steps say what each call may change: nothing else. Places are
interchangeable (symmetry), as nothing but identity is ever asked of one. Four
items; larger copies are checked by `CopiesAreIdentical`, of seven items in every memory size.

### JsonParse and JsonText

Text is a sequence of tokens for the grammar and of bytes for string literals, their escapes and
minifying; blanks between tokens are skipped, and a token of punctuation has a name ("lbrace").
`parse_value`, `parse_array` and `parse_object` call each other; here they are one
function, `Reads(text)`, of a call (which of them, at which token, at which depth), and each of them is an
operator that looks up in it what its callees return. The printer is modelled with its buffer: the room
each write asks of `ensure`, what it writes, and where the offset ends. The nesting limit is
scaled from 1000 to 3. The functions are checked, when the `Ser2Mqtt_bridge` run
(`MCSer2Mqtt`) starts, against each other and against the header: every value of two levels, every
token sequence up to five, every buffer length, every string of three bytes that need
escaping, every four pieces of a broken literal.

### Ser2Mqtt

The main thread's `pc` is at a call that can fail or block; the MQTT thread is `link`. The
devices send frames and noise at any time; a frame's bytes reach the port together. A CRC
is taken to be right for one whole good frame and for nothing else. Sizes are scaled: a
frame has 2 bytes at least (4), `message[512]` holds 3 (250), the buffer 4 (255). Main is held
up between two looks at the clock only as a fault; without it the silence behind a byte
(`M/serial.c:166`) is never long, and frames are told apart by `select`'s second alone.
Commands go through `JsonParse`'s parser and `hex_to_bytes`, with what is no digit read as
`strtol` does. QoS is 0 and the session clean: commands sent while nobody is subscribed are gone.
procd starts the process again whenever it ends.

## 3. Runs

| run | question | result |
|---|---|---|
| `QmiChannel_rendezvous` | answers, stranded callers, kept answers, `QmiCall`; a stop releases the caller; every request returns | holds |
| `ConnMgr_safety` | IPv4 and IPv6, two faults, one stop: connected means a call, link down at exit | holds |
| `ConnMgr_liveness` | a stop ends the process, addresses recover | holds |
| `ConnMgr_leaked_reader` | a handled stop ends, with failed initialisations | violated: `S/main.c:314` |
| `QmiProxy_clients` | routing and service with two clients | holds |
| `MbimProxy_clients` | three connections, two slots: slots, routing, service, coming back | holds |
| `AtcProxy_clients` | a command's result is its own, its client hears it, every client is served | holds |
| `Dialling_calls` | calls come back over AT and MBIM, with and without a proxy; one restart for the NAT mode; a stop ends the session, also one that begins with a thread left behind | holds |
| `Dialling_stop` | a process that was stopped has hung up its call | violated: `S/main.c:565` |
| `QmiSetup_session` | requests readable, framing, mux, the call asked for, the link comes up | holds |
| `CJson_tree` | well formed trees, comparing, cJSON implements `JsonTree` | holds |
| `Ser2Mqtt_bridge` | reports are whole frames, what is written is what was meant, frames and commands get through; the functions of `JsonText` | holds |

`QmiChannel`: two kinds of service with counters that wrap after 3 and 2 ids and two slices:
a late answer can meet every younger id, and a signal can fall before, between and after the
slices. `QmiProxy`: two clients, two client ids, three requests, one fault: two requests
queue up while a third client's connection reuses a descriptor. `MbimProxy`: three connections for
two slots, so that one is refused or waits for a slot to be freed, two requests (one outstanding
while the slot changes hands and the next is sent), ids that wrap after 2.
`AtcProxy`: two descriptors, so that one is closed and used again while the reader walks; two
commands, one of each client or both of one; one fault (a late answer, a client that leaves, the
device). `Dialling`: two tries where the code has 10 and 15. `Dialling_calls` has every modem mode, with and
without proxy, with and without a call of an earlier process, SIMs with and without a PIN, any profile, and
one fault anywhere. A stop comes only to the sessions that are `Plain`: an AT modem whose NAT mode has to be changed
and an MBIM modem, either with one fault as well, so that an initialisation fails and the stop finds the thread it
left behind. What `Plain` leaves out adds commands before the call, and every command is stopped alike.
One address is enough, since over AT and MBIM a change of it is not noticed (4); with `Stopped = "all"` no
session is excepted (`Dialling_stop`). `QmiSetup`:
four kinds of driver, Quectel's mux ids and others, three modem generations, no `-m`, one that names an adapter
and one beyond the adapters, up to two accounts of the network in any order, two faults and two sessions, so that a restart meets what the first session left. `CJson`: four items
make a parent with a list of three, or two parents with a child each. `Ser2Mqtt`: three frames
of 2, 4 (the buffer) or 5 bytes, good or not, one command, one fault.
`CHECK_DEADLOCK FALSE` stands where the system may stop: a manager exits, bounded clients
have nothing left to ask, a line stays quiet.

Properties in words are in the comments above them. `DialledMeansCall` excepts the time in
which the device thread drains or leaves, since `qmi_rsp_check` returns 0 for a request
that was woken without an answer; the session ends then.

### Disagreements found

1 and 2 have a run that shows them; the others were met while modelling, by runs on these
modules with a property that states the quoted expectation, or by reading.

1. *The join that never ends* (`ConnMgr_leaked_reader`). An initialisation that fails leaves its
   device thread behind; after a modem reset the next session's RIL_REQUEST_QUIT may go to that
   thread, and main waits for one nobody tells to quit. Over AT the same happens (`Robbed` of `Dialling`), which
   is why `StopEndsSession` excepts it.
2. *A stop that does not hang up* (`Dialling_stop`). A call whose dial was under way is not connected
   yet for the main loop (`S/main.c:565`), and the device thread may leave first.
3. *A stop is lost* (`S/main.c:620`). SIGTERM clears `g_donot_exit_when_modem_hangup`, a modem reset
   read before the stop sets it again, the signal socket is closed unread, and main dials anew. With
   an AT modem `atc_init` sets the flag as well (`S/atc.c:100`).
4. *A stale address* (`S/main.c:38`, `S/main.c:549`). With IPv4 disconnected and IPv6 unknown the link mask stays; the
   next call's address is not configured, as the mask has not changed. An address kept in the
   profile survives the session when the link was down already; over AT and MBIM a new address
   of a running call is not noticed.
5. *A reset that is not noticed* (`S/quectel-qmi-proxy.c:341`). The proxy looks for the revoke message
   among responses; it is an indication.
6. *A broadcast that stops half way* (`S/quectel-mbim-proxy.c:254`). The first client that has just
   gone ends the proxy by SIGPIPE, and later slots never get the indication. The QMI proxy does the
   same (`S/quectel-qmi-proxy.c:373`).
7. *Out of step* (`S/quectel-atc-proxy.c:156`, `S/atc.c:136`; `outOfStep` of `AtChannel`). `S/atchannel.h:80` says of the timeout
   callback "You should reset or handshake here to avoid getting out of sync"; both callbacks only
   log. A final response after its 15 s completes the next command, whose own is left for
   the one after that. An unsolicited NO CARRIER or end of an update has the same effect.
8. *PDN and mux* (`S/qmap_bridge_mode.c:297` against the comment in line 290, "PDN-X map to qmimux-X").
   The mux id found by the first detection is taken for a `-m` option by the second; the adapter is then named after
   the mux id found, so that with ids other than 0x81, 0x82, like the 0x11, 0x22 of the comment in line 288, PDN 1 no
   longer uses qmimux0, and with `-m` not even the first time. `BoundToAdapter` and `TypeOK` except this as
   `~Located`: without the exception `QmiSetup_session` violates both. The table
   is read without a check of the index, and hexadecimal digits above 9 are misread.
9. *Silence ends no frame* (`M/serial.c:165`: "if more than 3.5 character times have passed, the packet counts as
   received"). The time is measured right after it was stored and is never
   more than 1 ms unless the thread is held up: two frames within a second are read as one and dropped.
10. *Reports are cut* (`M/main.c:71`). Frames of more than 250 bytes give JSON without an end; a write
   to a full port is reported as sent (`M/serial.c:95`); characters that are no digits are
   written as 0.
11. *cJSON.* `cJSON_Minify` takes the quote behind an escaped backslash for an escaped one, and keeps
   and drops the rest the wrong way round (`OnlyBlanksGo` shows the smallest text it is right for).
   A duplicate of an object with a key twice does not compare equal to it (`cJSON.h:256`:
   "identical"). A reference whose key finds no memory is leaked (`TypeOK` has it as `lost`). A
   replacement that finds nothing to replace is renamed all the same. The "5 bytes more" of
   `cJSON.h:168` are more than the model needs: one is enough.
12. *AT and MBIM operations.* A packet service query that fails leaves a modem that waits to be
   attached counted as attached (`S/mbim-cm.c:2274`); one timeout is taken for an ASR modem
   (`S/atc.c:84`); an MBIM function that closes is not opened again (`S/mbim-cm.c:1625`); three
   offsets of the connect message are set instead of advanced (`S/mbim-cm.c:1964`, 1971, 1978).
   `CallRecovers` names the states out of which there is no way, the last of them a thread left behind that
   answers the present session's events for ever.
13. *QMI set-up.* The SIM query repeats for ever while the modem refuses it (`S/main.c:332`); a PIN that
   begins with 0 is refused; a wrong PIN is tried again in every session; a lost answer to the data
   format leaves an Ethernet-generation modem asked with the wrong requests for the rest of the session.

## 4. Fairness

`QmiChannel`: the device thread is scheduled, a woken thread gets the mutex, a draining
device thread is idle for a second some time; nothing is assumed of timers or of the modem
(`CallsReturn` has the one assumption it needs, that timed waits end, in the property).
`ConnMgr`: main takes its next step whenever it can, which is what `QmiChannel`'s
`CallsReturn` shows of the requests; the device thread reads what it is sent and sees a
hang-up of the descriptor it polls; alarms and redial times expire; a network that is
away comes back. No fairness for faults. A thread left behind by an earlier session has none.
`QmiProxy`: both threads are scheduled and `poll` serves every ready descriptor; the modem
answers what it does not ignore; nothing is assumed of clients.
`MbimProxy`: the same, for its one thread, and a device that is gone comes back.
`AtcProxy`: both threads and the reader are scheduled, a poll returns, the modem finishes what it
does not ignore. `Dialling`: main and device thread are scheduled, alarms fire and delays end, a
network that is away comes back, an unplugged modem returns and a restarting one
disappears first; a thread left behind that drains or whose modem has gone leaves, but nothing
need wake one that waits. `QmiSetup`: the program is scheduled and a network that is away comes back; the
dial (`SetupDataCall`) has its own fairness, since a registration may fall between
two of them. `Ser2Mqtt`: main and the MQTT thread are scheduled, procd starts
the process, a broker that is down comes back and takes the subscription. `CJson` is a library: no fairness.

## 5. Proofs

`QmiChannelProofs` proves, for all sets of services, counter widths `MaxTid[t] > 0` and numbers
of slices > 0 (the two named assumptions of `QmiChannel`): type correctness, `AnswerIsForCall`,
`StrandedOnlyBetweenSlices`, `DeliveredAnswerKept`, and that the channel implements `QmiCall`.

None of these is inductive alone. `IInv` adds: the counters are in range (`CtrInv`); the
published request is the latest one and has its counter's id (`CurInv`); what the modem holds
is less than a cycle old, and its id is the one the counter had that many requests ago
(`ModemInv`, with `TidOfAge` counting backwards round the wrap); an answer stored or handed
out is of age 0 (`SrspInv`); a signalled caller's request is completed, and without
an answer only when the device thread stops (`WokenInv`); the return code tells whether a call is
in progress (`RetInv`); a waiter whose request is gone has missed the signal, and the dead
thread leaves no request (`WaitInv`). The heart is `MatchIsFresh`: equal ids and ages below the
cycle mean age 0. `InitInv`, one step lemma for each action and `Invariance` follow; the
refinement maps each step of the channel to a step of `QmiCall` or a stutter.

`ConnMgrProofs` proves, for all nonempty sets of enabled families, all flags and any number of
faults and stops (the three named assumptions of `ConnMgr`), type correctness (which no run needs to check), `ExitLinkDown`
and `DialledMeansCall`. Types alone are not inductive: main takes the head of the device queue, and that
there is one follows from `EventInv` (what `poll` has reported stays until it is handled, and what it
reported once is not handled twice). `ExitLinkDown` needs to know where the link can be up: `LinkInv`
says that an interface without a link has no address, and that there is no link before the
loop of a session and after it. The failed initialisation, which leaves by a way of its own, is thereby
covered: the session before it has ended in `Quit`. `DialledMeansCall` follows from `AddressInv`:
whoever goes on to the address has a call handle, or its session is about to end.

`QmiProxyProofs` proves, for any descriptors, any client ids but 0 and any number of requests and
faults, `HeldIdsRouted` (`IdsRouted`) and `AnswerIsForCaller` (`AnswersAreForCallers`), and with the
invariant that while nothing disturbs the queue only an indication for a connection that has just
been closed raises SIGPIPE (`KilledByIndication`) and one control request is outstanding
(`OneAtATime`). `IInv` has two
parts. `BaseInv` always holds: threads, connections and clients fit together and nothing is on its
way to a device that is gone. `CalmInv` holds until one of the disturbances named in section 2. There the one control message on its way, to the modem or back, is the
queue's head or the answer to it (`ControlInv`), so an answer is given to who asked. A client id is
released after everything that was sent with it, since the way to the modem and back is first in,
first out (`DataInv`, on the concatenation `Pipe`), and only once (`QueueInv`); the modem does
not give out an id that is noted (`AllocInv`), and no two connections note the same (`IdsInv`).
These need each other: an id that could be given out before the last message sent with it came
back would be routed to its next owner.

`MbimProxyProofs` proves, for any connections, slots > 0, a transaction counter of any width > 0 and
any number of requests and faults, type correctness with the slots (one for every
accepted connection, none twice) and `AnswerIsForCaller`. `SlotInv` is inductive with `ClientInv`; the
routing needs `RouteInv`: the slot a request carries in its transaction id is its client's or
nobody's, and the id below it is not used again while the request is at the modem. A slot
that changes hands while a request is outstanding breaks this, which is why it holds while `calm`.

`AtcProxyProofs` proves, for a finite set of descriptors and any bounds (`ChannelAssumption`,
`ProxyAssumption`), type correctness, `CallerHears` and `InStep`, thus also about `AtChannel`. `ChanInv`:
among the lines on their way at most one is the final response of the pending command, and none
is that of another, until an answer was late or an unsolicited line completed a command (`OrderInv`). With `ThreadInv`, `ListInv`, `RoundInv` and
`WalkInv` (the threads, the list of connections, the round of `poll` and the reader's walk through the
list) it gives `InStep` and the types: no command ever finds another one pending. `CallerHears` holds until a
connection ends: `EveryoneInv` (the array of `poll` holds only connections of this round) and
`HeardInv` (whoever comes before the reader's place in the list has the line).

`DiallingProofs` proves, for either modem, with a proxy or not, for any number of tries, faults and stops
(`RequestAssumption`), `Dialling`'s `TypeOK`. Its last conjunct is what `atc_init` could get
wrong: a process restarts its modem for the NAT mode once, and twice only if something failed or it was
stopped. A loop of
restarts would need the mode to be wrong again afterwards; `RestartInv` bounds the restarts made and
about to be made by what the modem's mode and the style found out so far leave to change. The style is found
out wrongly only by a fault, which needs to be known of every command in between: without a fault
the modem stays reachable (`BootInv`), nobody stops the session (`NoStop`), the device thread has not
left (`GoneInv`) and none was left behind that could take an answer (`LeftInv`). `EventInv` is as in `ConnMgrProofs`.

`QmiSetupProofs` proves all five invariants of `QmiSetup_session`, for any drivers, generations and
bounds (`BoundsAssumption`), any mux ids that are read right (`MuxAssumption`) and for the command lines and
networks of `Init`. First come the operators. `Understood` is arithmetic on
lengths: `ExtentConcat` (the extent of appended TLVs is the sum) and `FieldsFill` (fields that fit their
rooms fill the struct) give `ReadableMessage`, and each composer is an instance of it. `TlvConcat`
says which TLV a lookup finds, so that `StartValues` and `ModifyValues` say what the modem reads
from the two requests with optional fields. `RegistrationIs` says that the walk through the network's
account finds CDMA exactly when the account has a CDMA entry and no LTE entry, in whatever
order and however long. Then the invariant. `IInv`: what detection found fits the driver (`QmapInv`); the
modem frames as its generation does or as it was asked (`LinkInv`); a driver is in raw mode only for a reason
(`DriverInv`: a modem that always is, an earlier DHCP failure, or Ethernet asked for without an answer, which
`udhcpc_start` has then put right); service is known with its technology (`ServiceInv`); what was read of the
profile is what the modem has, then what was asked for (`ProfileInv`). `MuxInv` adds what the data port is bound to
and, where the table is read at the right place in every session (`Settled`), that the mux id is the adapter's;
`FirstInv` adds the first session without `-m`, whatever the ids (`DetectFinds` evaluates each detection). A restart keeps `prof` and forgets
the modem's part, which is why the conjuncts name the places of `qmi_main` from which on they hold.

`Ser2MqttProofs` proves, for frames of any lengths > 0 and any number of frames, commands and faults
(`BoundsAssumption`), `TypeOK`, `ReportsAreFrames` and the action property `OnlyMeantIsWritten`. The
last two are about what a reader or the line gets after a parser, so first comes the parser. `TextIsRead`
says that its recursion is defined on every text: each function returns what its body says of what its
callees return (`ReadsExist` builds the solution call by call, those with the least text left first) and
moves forward (`SolutionForward`). `ObjectRead`, `MembersRead` and `LeafRead` evaluate it, so that
`MessageRead` gives that every message within `message[]` reads as the bytes it was made of, whatever they
are, and `OrdersMeant` that each of the four payloads makes the program write what is meant. In `IInv`
the buffer followed by the port is one stretch of the line up to its end (`StreamInv`, with
`Ordered`), and every report lies before it (`ReportInv`); main uses or drops a beginning of
the stretch (`Dropped`), a device appends a frame (`FrameOrdered`). That a report is of a later frame than
the ones before needs the end of the stretch: behind the last byte of a whole frame come only
later frames (`BehindFrame`).

The invariants of the last four paragraphs and of `QmiProxyProofs` were checked with TLC, as
invariants of the configurations in section 3, before they were proved.

Induction over data is beyond the library's theorems here, which take an operator as a
parameter. Where a proof needs what a recursive function is, it argues by a least
counterexample from `WellFoundedInduction`: `Those` (who is told a line, `AtcProxyProofs`), `Min`
(the first free slot, `MbimProxyProofs`), and the sums of lengths and the walk through the
account in `QmiSetupProofs`, where `StepsExist` shows once that a recursion over 0..n has a solution
and `Induction` that a set closed under the step holds every number up to n; the parser in
`Ser2MqttProofs` goes by the text that is left in the same way.

Model-checked only: all liveness properties (fairness and ENABLED are out of the prover's
reach); `TypeOK`, `CompareMeansEqual` and `ImplementsTree` of `CJson`, whose copying, comparing and
deleting walk trees in a heap by RECURSIVE operators, which no module with a theorem may reach; and
the functions of `JsonText`. `TextIsRead` says that the parser is defined, not that it accepts
JSON and nothing else: that is checked on every short text.

## 6. Not modelled

GobiNet, QRTR, the bridge itself, device detection, the AT tokenizer, the debug dumps of the codec and
scripts: see the notes in `PROJECT.json`. In the modelled parts: signal and cell requests, QoS, the
length of the redial back-off, SIGINT to the proxies, a local socket that cannot be bound, more
than 64 connections, failed allocations (but for cJSON's), writes that are partial or block (but for the
serial port), QMI over MBIM, the layout of MBIM messages, and stops that come while no
session's sockets are open (`S/main.c:82`: `ConnMgr` has the step, no property speaks of them).
The error code that `requestSetupDataCall` reads from freed memory and the out-of-bounds name
in `S/QMIThread.c:1020` (a log line) have no property: both are read, never written. The transaction
id of `S/mbim-cm.c:1447` that passes its bound while requests are refused is not reached: `MbimProxy`
wraps requests that are sent. In cJSON: the text of numbers, keys' memory and constant keys,
`cJSON_InitHooks`, references made from outside a tree, a failing realloc, the global error pointer.

## 7. Plan

Done: 1. `QmiCall`, `QmiChannel` and its proofs; 2. `ConnMgr` and its proofs; 3. `QmiProxy`; 4. `MbimProxy`;
5. `AtChannel`, `AtcProxy`; 6. `RequestOps`, `AtRequests`, `MbimRequests`, `Dialling`; 7. `QmuxCodec`,
`QmiSetup`; 8. `JsonParse`, `JsonText`, `JsonTree`, `CJson`, `Ser2Mqtt`.

Proofs: `QmiProxyProofs`, `MbimProxyProofs`, `AtcProxyProofs`, `DiallingProofs`, `QmiSetupProofs`,
`Ser2MqttProofs`.

Next: the invariants of `CJson`, and that it implements `JsonTree`, once its recursive operators are
written as functions of places, as the parser is.
