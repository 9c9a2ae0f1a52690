----------------------------- MODULE RequestOps -----------------------------
(***************************************************************************)
(* What quectel-CM's main thread has in common for the modems it does not  *)
(* drive by QMI: the state that the handlers of struct request_ops work    *)
(* on (AtRequests and MbimRequests; Dialling calls them), how a command to *)
(* the modem ends, and the modem.                                          *)
(*                                                                         *)
(* A command is one step, taken when it returns.  The device thread, the   *)
(* signal handler and the modem take theirs in between.  One IPv4 call;    *)
(* for such a modem IPv6 copies its status (main.c:443).                   *)
(***************************************************************************)
EXTENDS Naturals, Sequences

CONSTANTS
  Modes,      \* "at", "mbim": request_ops and qmi_ops of the modem
  Proxied,    \* whether -p names a proxy
  Inherited,  \* whether a call of an earlier process is up at the start
  Asr, Nats,  \* whether an AT modem is of the ASR style, and its NAT mode at the start
  Sims,       \* "ready", "pin": what the SIM may be at the start
  Apns,       \* "undefined", "other", "ours": the APN that an AT modem may have stored
  Addresses,  \* that the network gives to a call
  Behind,     \* bound on the signals that wait when a delay of seconds is over
  Tries,      \* bound on t: 10 in mbim_init, 15 in requestSetupDataCall
  MaxFaults,  \* bound on what network, modem and device do wrong
  MaxStops,   \* bound on SIGINT and SIGTERM
  Stopped     \* "all" sessions, or "plain" ones only: bound on who is stopped

ASSUME RequestAssumption ==
  /\ Modes \subseteq {"at", "mbim"} /\ Modes # {}
  /\ Sims \subseteq {"ready", "pin"} /\ Apns \subseteq {"undefined", "other", "ours"}
  /\ Asr \subseteq BOOLEAN /\ Nats \subseteq BOOLEAN /\ Proxied \subseteq BOOLEAN /\ Inherited \subseteq BOOLEAN
  /\ Addresses \subseteq Nat \ {0} /\ 1 \in Addresses
  /\ {Behind, Tries, MaxFaults, MaxStops} \subseteq Nat /\ Stopped \in {"all", "plain"}

VARIABLES
  mode,     \* the modem's mode, whether a proxy is used, and how many stops may come
  pc,       \* where the main thread is: a command it waits for, or a point of qmi_main
  back,     \* where requestRegistrationState returns to
  t,        \* the handler's local counter of tries
  ps,       \* PSAttachedState = 1
  st,       \* IPv4ConnectionStatus
  hold,     \* SetupCallAllowTime lies in the future
  addr,     \* profile->ipv4.Address, 0 for none
  old,      \* profile->old_apn
  asr,      \* asr_style_atc
  seen,     \* ReadyState, RegisterState, PacketServiceState, ActivationState
  cache,    \* oldReadyState to oldActivationState: what indications are compared with
  link,     \* the link is up
  net,      \* the interface's address, 0 for none
  restart,  \* g_donot_exit_when_modem_hangup
  alarm,    \* an alarm() is pending
  sigq,     \* signal_control_fd: "START", "CHECK", "STOP"
  devq,     \* qmidevice_control_fd towards main
  devReady, \* what poll() said of devq
  ctl,      \* qmidevice_control_fd towards the device thread
  reader,   \* device thread: "none", "run", "deaf" (the AT channel is marked closed),
            \* "cut" (another thread has closed it) or "dead"; it holds the device open
  drain,    \* wait_for_request_quit
  left,     \* device threads that sessions with a failed init have left behind: some
            \* that wait ("waits"), some that have read a stop ("drains")
  modem,    \* see Modem
  faults,   \* faults left
  stops,    \* stops left
  reboots   \* history: restarts of the modem that this program ordered

main == <<pc, back, t>>
status == <<ps, st, hold>>
profile == <<addr, old>>
mbim == <<seen, cache>>
iface == <<link, net>>
queues == <<sigq, devq, devReady, ctl>>
device == <<reader, drain, left>>
world == <<modem, faults, stops, reboots>>
vars == <<mode, main, status, profile, asr, mbim, iface, restart, alarm, queues, device,
          world>>

\* call: the address of the data call, 0 for none.  context: the PDP context is
\* active, which an ASR modem needs before the call.  apn: of the stored profile.
\* bearer: the APN the call was set up with.  nat: the setting of AT+QCFG="NAT".
\* booting: it is about to restart.  open: MBIM has been opened.  sim: "entered"
\* is a SIM that will want its PIN again after a restart.
Modem ==
  [present : BOOLEAN, reg : {"none", "home", "attached"}, sim : {"ready", "pin", "entered"},
   call : Addresses \cup {0}, context : BOOLEAN, apn : {"undefined", "other", "ours"},
   bearer : {"other", "ours"}, asr : BOOLEAN, nat : BOOLEAN, booting : BOOLEAN,
   open : BOOLEAN]

States ==
  [ready : {"unknown", "ready", "pin"}, reg : {"unknown", "none", "home"},
   packet : {"unknown", "detached", "attached"}, act : {"unknown", "up", "down"}]

Unknown == [ready |-> "unknown", reg |-> "unknown", packet |-> "unknown", act |-> "unknown"]

\* What a modem in state m says.
Said(m) == [ready |-> IF m.sim = "pin" THEN "pin" ELSE "ready",
            reg |-> IF m.reg = "none" THEN "none" ELSE "home",
            packet |-> IF m.reg = "attached" THEN "attached" ELSE "detached",
            act |-> IF m.call # 0 THEN "up" ELSE "down"]

\* Nothing out of the way: an AT modem has only its NAT mode to be changed.
Plain(m) ==
  /\ ~mode.proxy /\ m.call = 0 /\ m.sim = "ready"
  /\ mode.ops = "at" => ~m.asr /\ m.nat /\ m.apn = "ours"

Init ==
  /\ mode \in [ops : Modes, proxy : Proxied, stops : 0..MaxStops]
  /\ pc = "begin" /\ back = "poll" /\ t = 0
  /\ ps = FALSE /\ st = "unknown" /\ hold = FALSE
  /\ addr = 0 /\ old = "other" /\ asr = FALSE
  /\ seen = Unknown /\ cache = Unknown
  /\ link = FALSE /\ net = 0 /\ restart = FALSE /\ alarm = FALSE
  /\ sigq = <<>> /\ devq = <<>> /\ devReady = FALSE /\ ctl = {}
  /\ reader = "none" /\ drain = FALSE /\ left = {}
  /\ modem \in {m \in Modem :
       /\ m.present /\ ~m.booting /\ ~m.open
       /\ \E up \in Inherited :
            IF up THEN m.call = 1 /\ m.context /\ m.reg = "attached" /\ m.bearer = "other"
                  ELSE m.call = 0 /\ ~m.context /\ m.reg = "none" /\ m.bearer = "ours"
       /\ m.sim \in (IF m.call # 0 THEN {"ready"} ELSE Sims)
       /\ m.apn \in (IF mode.ops = "mbim" THEN {"other"} ELSE Apns)
       /\ m.asr \in (IF mode.ops = "mbim" THEN {FALSE} ELSE Asr)
       /\ m.nat \in (IF mode.ops = "mbim" THEN {FALSE} ELSE Nats)
       /\ m.apn = "undefined" => ~m.asr
       /\ Stopped = "all" \/ mode.stops = 0 \/ Plain(m) }
  /\ faults = MaxFaults /\ stops = mode.stops /\ reboots = 0

-----------------------------------------------------------------------------
(* Commands                                                                *)

\* The command goes out and an answer can come back.
Reachable == reader = "run" /\ modem.present

Outcomes == {"done", "refused", "lost", "unheard"}
Heard(o) == o \in {"done", "refused"}     \* an answer came back
Happens(o) == o \in {"done", "unheard"}   \* the modem did it

\* A refusal by a modem that could, a lost command and a lost answer are faults,
\* unless the device thread is about to leave or has left.
Free(o, can) ==
  \/ o = "done"
  \/ o = "refused" /\ ~can
  \/ o \in {"lost", "unheard"} /\ (drain \/ ~Reachable)

\* How a command ends that the modem can carry out, or cannot.
Command(o, can) ==
  /\ o # "lost" => Reachable
  /\ Happens(o) => can
  /\ IF Free(o, can) THEN UNCHANGED faults ELSE faults > 0 /\ faults' = faults - 1

\* The modem is left as m if it carried the command out.
Does(o, m) == modem' = IF Happens(o) THEN m ELSE modem

Goto(p) == pc' = p /\ UNCHANGED <<back, t>>

\* After a signal, the event poll() reported is next.
Handled ==
  /\ pc' = IF devReady THEN "event" ELSE "poll"
  /\ devReady' = FALSE
  /\ UNCHANGED <<back, t>>

\* requestRegistrationState returns; back is of no use any more.
Return(p) == pc' = p /\ back' = "poll" /\ UNCHANGED t

\* requestRegistrationState is over; it was called last in the initialisation,
\* in SIG_EVENT_CHECK or for a change of the network's state.
Registered(p) ==
  /\ ps' = p /\ UNCHANGED st
  /\ CASE back = "poll" -> /\ sigq' = Append(sigq, "CHECK")
                           /\ Goto("poll") /\ UNCHANGED <<hold, devReady>>
       [] back = "check" -> /\ Return(IF st = "disc" THEN "checked" ELSE "query")
                            /\ UNCHANGED <<sigq, hold, devReady>>
       [] back = "network" -> /\ sigq' = IF p /\ st = "disc" THEN Append(sigq, "START") ELSE sigq
                              /\ hold' = (p /\ hold) /\ devReady' = FALSE
                              /\ Return(IF devReady THEN "event" ELSE "poll")

\* requestSetupDataCall is over.  With user and password set, as here, a positive
\* error is followed by a second try with the other authentication.
SetUp(result) ==
  Goto(CASE result = "ok" -> "address"
         [] result = "positive" /\ pc = "dial" -> "redial"
         [] OTHER -> "dialled")

\* requestGetIPAddress is over: for a call just set up, or in SIG_EVENT_CHECK.
GotAddress(ok) ==
  IF pc = "address" THEN st' = (IF ok THEN "conn" ELSE st) /\ Goto("dialled")
                    ELSE st' = (IF ok THEN st ELSE "disc") /\ Goto("checked")

\* requestQueryDataCall is over.
Queried(connected) ==
  /\ st' = IF connected THEN "conn" ELSE "disc"
  /\ Goto(IF connected /\ addr = 0 THEN "fetch" ELSE "checked")

\* What a command may leave alone besides the main thread's own variables.
Calm == UNCHANGED <<mode, iface, alarm, ctl, device, stops>>

=============================================================================
