------------------------------ MODULE Dialling ------------------------------
(***************************************************************************)
(* quectel-CM with a modem driven by AT commands or by MBIM: qmi_main's    *)
(* loop (main.c) over the handlers of AtRequests and MbimRequests, the     *)
(* device threads of atc.c and mbim-cm.c, signals, modem and network.      *)
(***************************************************************************)
EXTENDS AtRequests, MbimRequests

SessionOpen == pc \notin {"begin", "after", "exited"}

\* The device thread is there, with its channel or without.
Alive == reader \in {"run", "deaf", "cut"}

\* usbnet_link_change with the address the profile has: nothing is done for a
\* link that is as it should be, nor is an address configured that is not there.
LinkChange(up) ==
  /\ link' = up
  /\ addr' = IF up \/ ~link THEN addr ELSE 0
  /\ net' = CASE ~up -> (IF link THEN 0 ELSE net)
              [] up /\ ~link /\ addr # 0 -> addr
              [] OTHER -> net

-----------------------------------------------------------------------------
(* A session begins and ends                                               *)

Main == UNCHANGED <<mode, old, asr, mbim, world>>

\* Fresh descriptors.  qmi_main has returned from a failed init without stopping
\* the device thread, which stays behind: what it does next is all that is kept
\* of it, and not how many there are.
Begin ==
  /\ pc = "begin" /\ Goto("connect")
  /\ ps' = FALSE /\ st' = "unknown" /\ hold' = FALSE
  /\ sigq' = <<>> /\ devq' = <<>> /\ devReady' = FALSE /\ ctl' = {}
  /\ reader' = "none" /\ drain' = FALSE
  /\ left' = left \cup (IF ~Alive THEN {} ELSE IF drain \/ "STOP" \in ctl THEN {"drains"}
                                                                     ELSE {"waits"})
  /\ Main /\ UNCHANGED <<addr, iface, restart, alarm>>

\* The device thread opens the device and reports; then comes the init handler,
\* unless a thread left behind has reported first, that its device has gone.
Connect ==
  /\ pc = "connect"
  /\ reader' = IF modem.present THEN "run" ELSE "dead"
  /\ pc' = IF ~modem.present \/ devq # <<>> THEN "after"
           ELSE IF mode.ops = "at" THEN (IF mode.proxy THEN "style" ELSE "handshake")
           ELSE (IF mode.proxy THEN "configure" ELSE "open")
  /\ back' = "poll" /\ t' = 0
  /\ Main /\ UNCHANGED <<status, addr, iface, restart, alarm, queues, drain, left>>

Quit ==
  /\ pc = "quit" /\ Goto("join")
  /\ LinkChange(FALSE)
  /\ Main /\ UNCHANGED <<status, restart, alarm, queues, device>>

Join ==
  /\ pc = "join" /\ reader = "dead" /\ Goto("after")
  /\ sigq' = <<>> /\ devq' = <<>> /\ devReady' = FALSE /\ ctl' = {}
  /\ Main /\ UNCHANGED <<status, addr, iface, restart, alarm, device>>

Again ==
  /\ pc = "after" /\ restart /\ Goto("begin")
  /\ Main /\ UNCHANGED <<status, addr, iface, restart, alarm, queues, device>>

Exit ==
  /\ pc = "after" /\ ~restart /\ Goto("exited")
  /\ reader' = "dead" /\ left' = {} /\ alarm' = FALSE
  /\ Main /\ UNCHANGED <<status, addr, iface, restart, queues, drain>>

-----------------------------------------------------------------------------
(* The event loop                                                          *)

\* Fifteen seconds without an event.
PollTimeout ==
  /\ pc = "poll" /\ sigq = <<>> /\ devq = <<>>
  /\ sigq' = <<"CHECK">>
  /\ Main /\ UNCHANGED <<main, status, addr, iface, restart, alarm, devq, devReady, ctl, device>>

\* A signal is read before an event, and cancels the pending alarm.
PollSignal ==
  /\ pc = "poll" /\ sigq # <<>>
  /\ devReady' = (devq # <<>>)
  /\ alarm' = FALSE
  /\ sigq' = Tail(sigq)
  /\ Goto(Head(sigq))
  /\ Main /\ UNCHANGED <<status, addr, iface, restart, devq, ctl, device>>

PollEvent ==
  /\ pc = "poll" /\ sigq = <<>> /\ devq # <<>>
  /\ Goto("event")
  /\ Main /\ UNCHANGED <<status, addr, iface, restart, alarm, queues, device>>

\* SIG_EVENT_START
StartRefused ==
  /\ pc = "START" /\ (~ps \/ hold \/ st = "conn")
  /\ alarm' = (ps /\ hold)
  /\ Handled
  /\ Main /\ UNCHANGED <<status, addr, iface, restart, sigq, devq, ctl, device>>

Start ==
  /\ pc = "START" /\ ps /\ ~hold /\ st # "conn"
  /\ Goto("dial")
  /\ Main /\ UNCHANGED <<status, addr, iface, restart, alarm, queues, device>>

Dialled ==
  /\ pc = "dialled"
  /\ hold' = IF st = "disc" THEN TRUE ELSE IF st = "conn" THEN FALSE ELSE hold
  /\ alarm' = (st = "disc" \/ alarm)
  /\ Handled
  /\ Main /\ UNCHANGED <<ps, st, addr, iface, restart, sigq, devq, ctl, device>>

\* SIG_EVENT_CHECK
Check ==
  /\ pc = "CHECK"
  /\ IF ps THEN Goto(IF st = "disc" THEN "checked" ELSE "query")
           ELSE pc' = "reg" /\ back' = "check" /\ UNCHANGED t
  /\ Main /\ UNCHANGED <<status, addr, iface, restart, alarm, queues, device>>

\* Faulty variant: a disconnected call is not dialled again.
CheckedSilently ==
  /\ pc = "checked"
  /\ IF st = "unknown" THEN UNCHANGED <<addr, iface>> ELSE LinkChange(st = "conn")
  /\ Handled
  /\ Main /\ UNCHANGED <<status, restart, alarm, sigq, devq, ctl, device>>

\* With the call's state unknown the link stays as it is.
Checked ==
  /\ pc = "checked"
  /\ IF st = "unknown" THEN UNCHANGED <<addr, iface>> ELSE LinkChange(st = "conn")
  /\ sigq' = IF st = "disc" THEN Append(sigq, "START") ELSE sigq
  /\ Handled
  /\ Main /\ UNCHANGED <<status, restart, alarm, devq, ctl, device>>

\* SIG_EVENT_STOP: only a call known to be up is hung up.
Stop ==
  /\ pc = "STOP"
  /\ Goto(IF st = "conn" THEN "deactivate" ELSE "release")
  /\ Main /\ UNCHANGED <<status, addr, iface, restart, alarm, queues, device>>

\* The link goes down; the deinit handler does something for MBIM only.
Release ==
  /\ pc = "release"
  /\ LinkChange(FALSE)
  /\ IF mode.ops = "mbim" THEN Goto("close") /\ UNCHANGED ctl
                          ELSE Goto("quit") /\ ctl' = ctl \cup {"QUIT"}
  /\ Main /\ UNCHANGED <<status, restart, alarm, sigq, devq, devReady, device>>

Event(e) == pc = "event" /\ Head(devq) = e /\ devq' = Tail(devq)

DeviceGone ==
  /\ Event("DISCONNECTED") /\ Goto("quit")
  /\ LinkChange(FALSE)
  /\ Main /\ UNCHANGED <<status, restart, alarm, sigq, devReady, ctl, device>>

NetworkChanged ==
  /\ Event("NETWORK")
  /\ pc' = "reg" /\ back' = "network" /\ UNCHANGED t
  /\ Main /\ UNCHANGED <<status, addr, iface, restart, alarm, sigq, devReady, ctl, device>>

CallListChanged ==
  /\ Event("CALLS")
  /\ hold' = (hold \/ st = "conn")
  /\ sigq' = Append(sigq, "CHECK")
  /\ Handled
  /\ Main /\ UNCHANGED <<ps, st, addr, iface, restart, alarm, ctl, device>>

-----------------------------------------------------------------------------
(* The device thread: atc_read_thread, mbim_read_thread.  After a stop it  *)
(* leaves when nothing happens for a second, whatever main is waiting for. *)

Device == UNCHANGED <<mode, main, status, profile, asr, mbim, iface, restart, alarm, sigq,
                      devReady, world>>

ReaderStop ==
  /\ Alive /\ "STOP" \in ctl
  /\ ctl' = ctl \ {"STOP"} /\ drain' = TRUE
  /\ Device /\ UNCHANGED <<devq, reader, left>>

Says ==
  /\ devq' = IF SessionOpen THEN Append(devq, "DISCONNECTED") ELSE devq
  /\ Device /\ UNCHANGED drain

Leaves == reader' = "dead" /\ Says /\ UNCHANGED <<ctl, left>>

ReaderQuit == Alive /\ ("QUIT" \in ctl \/ ~modem.present) /\ Leaves

ReaderIdle == Alive /\ drain /\ Leaves

\* A closed channel is noticed when the modem says something.
ReaderNotices == reader = "cut" /\ Leaves

\* at_close closes the present channel, whoever calls it.
LeftLeaves(rest) ==
  /\ left' = rest /\ reader' = IF Alive THEN "cut" ELSE reader
  /\ Says

\* A thread left behind, awake, reads the present descriptors and takes what was
\* written to the present thread; others may be there still.
LeftStop ==
  /\ left # {} /\ "STOP" \in ctl
  /\ ctl' = ctl \ {"STOP"}
  /\ \E rest \in SUBSET left : left' = rest \cup {"drains"}
  /\ Device /\ UNCHANGED <<devq, reader, drain>>

LeftQuit ==
  /\ left # {} /\ "QUIT" \in ctl
  /\ ctl' = ctl \ {"QUIT"}
  /\ \E rest \in SUBSET left : LeftLeaves(rest)

LeftIdle == "drains" \in left /\ LeftLeaves(left \ {"drains"}) /\ UNCHANGED ctl

LeftHangup == left # {} /\ ~modem.present /\ LeftLeaves({}) /\ UNCHANGED ctl

\* readerLoop, too, is there twice then: the loser of a race for an answer reads
\* nothing, and marks the channel closed (atchannel.c:393, 437).
Deafens ==
  /\ left # {} /\ mode.ops = "at" /\ Reachable
  /\ reader' = "deaf"
  /\ Device /\ UNCHANGED <<devq, ctl, drain, left>>

-----------------------------------------------------------------------------
(* Signals and time                                                        *)

Faulty == faults > 0 /\ faults' = faults - 1

\* ql_sigaction on SIGINT or SIGTERM.  After a failed init the descriptors to the
\* device thread are still open.
PostStop ==
  /\ pc # "exited"
  /\ stops > 0 /\ stops' = stops - 1
  /\ restart' = FALSE
  /\ sigq' = IF SessionOpen THEN Append(sigq, "STOP") ELSE sigq
  /\ ctl' = IF SessionOpen \/ Alive THEN ctl \cup {"STOP"} ELSE ctl
  /\ UNCHANGED <<mode, main, status, profile, asr, mbim, iface, alarm, devq, devReady,
                 device, modem, faults, reboots>>

\* alarm() is set for the moment the hold ends.
AlarmFires ==
  /\ alarm /\ ~hold /\ alarm' = FALSE
  /\ sigq' = IF SessionOpen THEN Append(sigq, "START") ELSE sigq
  /\ Main /\ UNCHANGED <<main, status, addr, iface, restart, devq, devReady, ctl, device>>

\* It takes five seconds and more: by then main is behind by Behind signals
\* and events at most.
HoldExpires ==
  /\ hold /\ hold' = FALSE
  /\ Len(sigq) + Len(devq) <= Behind
  /\ Main /\ UNCHANGED <<main, ps, st, addr, iface, restart, alarm, queues, device>>

-----------------------------------------------------------------------------
(* Modem and network                                                       *)

Outside == UNCHANGED <<mode, main, status, profile, asr, mbim, iface, restart, alarm, sigq,
                       devReady, ctl, device, stops, reboots>>

\* An unsolicited line or an indication, passed on by the device thread: not all
\* AT modems send one, and MBIM compares it with what it knows.
Tells(e, news) ==
  /\ pc # "exited"
  /\ \E told \in BOOLEAN :
       /\ told => reader \in {"run", "deaf"} /\ news
       /\ ~told => mode.ops = "at" \/ reader # "run" \/ ~news
       /\ devq' = IF told THEN Append(devq, e) ELSE devq

CallDrops ==
  /\ Faulty /\ modem.call # 0
  /\ modem' = [modem EXCEPT !.call = 0, !.context = FALSE]
  /\ Tells("CALLS", mode.ops = "at" \/ cache.act # "down")
  /\ Outside

Detach ==
  /\ Faulty /\ modem.reg # "none"
  /\ modem' = [modem EXCEPT !.reg = "none", !.call = 0, !.context = FALSE]
  /\ Tells("NETWORK", mode.ops = "at" \/ cache.reg # "none")
  /\ Outside

\* The network is found; an MBIM modem may leave the attach to the host.
Attach ==
  /\ modem.present /\ ~modem.booting /\ modem.reg = "none" /\ modem.sim # "pin"
  /\ \E r \in {"home", "attached"} :
       modem' = [modem EXCEPT !.reg = IF mode.ops = "at" THEN "attached" ELSE r]
  /\ Tells("NETWORK", mode.ops = "at" \/ cache.reg # "home")
  /\ UNCHANGED faults /\ Outside

\* After a suspend the MBIM function is no longer open (mbim-cm.c:1626).
Suspend ==
  /\ Faulty /\ modem.open
  /\ modem' = [modem EXCEPT !.open = FALSE, !.call = 0]
  /\ UNCHANGED devq /\ Outside

Off == [modem EXCEPT !.present = FALSE, !.reg = "none", !.call = 0, !.context = FALSE,
          !.open = FALSE, !.booting = FALSE,
          !.sim = IF modem.sim = "entered" THEN "pin" ELSE modem.sim]

Unplug ==
  /\ modem.present
  /\ IF modem.booting THEN UNCHANGED faults ELSE Faulty
  /\ modem' = Off
  /\ UNCHANGED devq /\ Outside

\* Only once nobody holds the old device file.
Replug ==
  /\ ~modem.present /\ ~Alive /\ left = {}
  /\ modem' = [modem EXCEPT !.present = TRUE]
  /\ UNCHANGED <<faults, devq>> /\ Outside

-----------------------------------------------------------------------------
Session == Begin \/ Connect \/ Quit \/ Join \/ Again \/ Exit
Loop ==
  \/ PollTimeout \/ PollSignal \/ PollEvent \/ StartRefused \/ Start \/ Dialled
  \/ Check \/ Checked \/ Stop \/ Release \/ DeviceGone \/ NetworkChanged \/ CallListChanged

MainThread == Session \/ Loop \/ AtCommand \/ MbimCommand
Reader == ReaderStop \/ ReaderQuit \/ ReaderIdle
Leaving == LeftIdle \/ LeftHangup
Left == LeftStop \/ LeftQuit \/ Deafens \/ Leaving
Signals == PostStop \/ AlarmFires \/ HoldExpires
Network == CallDrops \/ Detach \/ Attach \/ Suspend \/ Unplug \/ Replug

Next == MainThread \/ Reader \/ ReaderNotices \/ Left \/ Signals \/ Network

Spec == Init /\ [][Next]_vars

\* Threads are scheduled and commands return, time passes, a modem comes back and
\* finds its network.  Nothing need wake a thread that waits on old descriptors.
Fairness ==
  /\ WF_vars(MainThread) /\ WF_vars(Reader) /\ WF_vars(Leaving)
  /\ WF_vars(AlarmFires) /\ WF_vars(HoldExpires)
  /\ WF_vars(Attach) /\ WF_vars(Replug) /\ WF_vars(modem.booting /\ Unplug)

LiveSpec == Spec /\ Fairness

-----------------------------------------------------------------------------
Types ==
  /\ mode \in [ops : Modes, proxy : BOOLEAN, stops : 0..MaxStops]
  /\ back \in {"poll", "check", "network"} /\ t \in 0..Tries
  /\ {ps, hold, asr, link, restart, alarm, devReady, drain} \subseteq BOOLEAN
  /\ st \in {"unknown", "conn", "disc"}
  /\ addr \in Addresses \cup {0} /\ net \in Addresses \cup {0} /\ old \in {"other", "ours"}
  /\ seen \in States /\ cache \in States
  /\ sigq \in Seq({"START", "CHECK", "STOP"})
  /\ devq \in Seq({"NETWORK", "CALLS", "DISCONNECTED"})
  /\ ctl \in SUBSET {"STOP", "QUIT"} /\ reader \in {"none", "run", "deaf", "cut", "dead"}
  /\ left \in SUBSET {"waits", "drains"}
  /\ modem \in Modem
  /\ faults \in 0..MaxFaults /\ stops \in 0..mode.stops

\* Types; and the modem is restarted for its NAT mode once, not in every session,
\* unless something failed or it was stopped (atc_init).
TypeOK == Types /\ reboots \in 0..(1 + (MaxFaults - faults) + (mode.stops - stops))

\* Main waits for its device thread, and the message that ends it is gone: a
\* thread left behind has taken it, or has ended the session itself.
Robbed == pc = "join" /\ Alive /\ "QUIT" \notin ctl

\* Whatever goes wrong, the link carries the modem's call again later; or the
\* process ends or is stopped, or it is caught in one of five ways that the code
\* knows no way out of: the PIN is tried once in a session; the style is found out
\* once in a process; an MBIM function that is closed is not opened again; a modem
\* that waits to be attached counts as attached if that query fails; the thread
\* that a failed init left behind keeps the next sessions from their answers.
CallRecovers ==
  \/ <>[](pc = "exited") \/ []<>(modem.call # 0 /\ link)
  \/ <>[](modem.sim = "pin") \/ <>[]Misfit
  \/ <>[](mode.ops = "mbim" /\ ~modem.open)
  \/ <>[](mode.ops = "mbim" /\ modem.reg = "home" /\ ps)
  \/ <>[](left # {}) \/ <>[](stops < mode.stops)

\* A stop that has reached the signal socket ends the session, unless a thread left
\* behind by a failed init keeps main from ever joining its own.  The process goes
\* on all the same when atc_init sets g_donot_exit_when_modem_hangup after
\* ql_sigaction has cleared it.
StopEndsSession ==
  \/ (\E i \in DOMAIN sigq : sigq[i] = "STOP") ~> (pc \in {"after", "exited"})
  \/ <>[]Robbed

\* main.c:247, "-k", "hangup data call (by send SIGINT to 'quectel-CM -n pdn')":
\* a process that ends, and was stopped, has hung up the call it dialled.
StopHangsUp == pc = "exited" /\ modem.bearer = "ours" => modem.call = 0
=============================================================================
