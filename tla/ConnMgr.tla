------------------------------ MODULE ConnMgr ------------------------------
(***************************************************************************)
(* quectel-CM: the connection manager's main thread in QMI mode            *)
(* (quectel_cm_5G/src/main.c, qmi_main, with the requests of QMIThread.c), *)
(* its device thread as main sees it, its signal handler, and the modem.   *)
(*                                                                         *)
(* A blocking request is one step, taken when it returns, and returns as   *)
(* QmiCall allows; QmiChannel shows that the real rendezvous does.  In     *)
(* between, the signal handler, the device thread and the modem interleave.*)
(***************************************************************************)
EXTENDS Naturals, Sequences

CONSTANTS
  Enabled,        \* IP families that are dialled: enable_ipv4, enable_ipv6
  HasCredentials, \* user and password are set
  Resets,         \* the modem may report a reset (REVOKE_CLIENT_ID_IND)
  InitFaults,     \* requests of the initialisation may fail
  RedialAccepted, \* the modem accepts a dial for a call that is already up
  MaxFaults,      \* bound on what network, modem and device may do wrong
  MaxStops        \* bound on SIGINT and SIGTERM received

Families == {"v4", "v6"}

ASSUME EnabledAssumption == Enabled \in (SUBSET Families) \ {{}}
ASSUME FlagsAssumption ==
  {HasCredentials, Resets, InitFaults, RedialAccepted} \subseteq BOOLEAN
ASSUME BoundsAssumption == MaxFaults \in Nat /\ MaxStops \in Nat

VARIABLES
  pc,       \* where the main thread is
  fam,      \* profile->curIpFamily while a request is made for a family
  ps,       \* PSAttachedState = 1
  st,       \* IPv4ConnectionStatus, IPv6ConnectionStatus
  hold,     \* SetupCallAllowTime lies in the future
  handle,   \* WdsConnectionIPv4Handle, WdsConnectionIPv6Handle: "none", "live"
            \* (the modem's call), or "stale" (of a call that has ended)
  cid,      \* families whose WDS client has an id
  ip4,      \* profile->ipv4.Address
  link,     \* s_link: set of families, {"unset"} for -1
  net,      \* IPv4 address of the network interface, 0 for none
  restart,  \* g_donot_exit_when_modem_hangup
  alarm,    \* an alarm() is pending
  sigq,     \* signal_control_fd: "START", "CHECK", "STOP"
  devq,     \* qmidevice_control_fd towards main
  devReady, \* what poll() said of devq
  ctl,      \* qmidevice_control_fd towards the device thread
  reader,   \* device thread: "none", "run" or "dead"
  old,      \* a device thread that outlived its session: "none", "stale" (blocked
            \* on that session's descriptors) or "run" (using the present ones)
  drain,    \* wait_for_request_quit
  dev,      \* cdc_wdm_fd is open
  modem,    \* present, attached, and the calls: their address, 0 for no call
  faults,   \* faults left
  stops     \* signals left

main == <<pc, fam, ps, st, hold>>
data == <<handle, cid, ip4>>
iface == <<link, net>>
queues == <<sigq, devq, ctl>>
device == <<reader, old, drain, dev>>
env == <<modem, faults, stops>>

vars == <<main, data, iface, restart, alarm, queues, devReady, device, env>>

Addresses == 1..2

SessionOpen == pc \notin {"begin", "after", "exited"}

Init ==
  /\ pc = "begin" /\ fam = "v4" /\ ps = FALSE
  /\ st = [f \in Families |-> "unknown"] /\ hold = FALSE
  /\ handle = [f \in Families |-> "none"] /\ cid = {} /\ ip4 = 0
  /\ link = {"unset"} /\ net = 0
  /\ restart = FALSE /\ alarm = FALSE
  /\ sigq = <<>> /\ devq = <<>> /\ ctl = {} /\ devReady = FALSE
  /\ reader = "none" /\ old = "none" /\ drain = FALSE /\ dev = FALSE
  /\ modem = [present |-> TRUE, attached |-> TRUE, call |-> [f \in Families |-> 0]]
  /\ faults = MaxFaults /\ stops = MaxStops

-----------------------------------------------------------------------------
(* Requests                                                                *)

Fault == faults > 0 /\ faults' = faults - 1

\* The device thread drains requests or leaves: QmiCall's leaving.
Leaving == drain \/ reader # "run" \/ ~dev

\* Faulty variant: a waiter that wakes up for no reason counts as answered.
EndsSpuriously(o, hasId) ==
  \/ o \in {"answer", "none"} /\ hasId /\ dev /\ modem.present /\ UNCHANGED faults
  \/ o = "none" /\ hasId /\ Leaving /\ UNCHANGED faults
  \/ o = "timeout" /\ hasId /\ (Leaving \/ ~modem.present) /\ UNCHANGED faults
  \/ o = "unsent" /\ (~hasId \/ ~dev) /\ UNCHANGED faults

\* How a request of a client that has an id, or has none, ends (QmiCall).
\* With a modem and a device thread at work, no answer is a fault.
Ends(o, hasId) ==
  \/ o = "answer" /\ hasId /\ dev /\ modem.present /\ UNCHANGED faults
  \/ o = "none" /\ hasId /\ Leaving /\ UNCHANGED faults
  \/ /\ o = "timeout" /\ hasId
     /\ IF Leaving \/ ~modem.present THEN UNCHANGED faults ELSE Fault
  \/ /\ o = "unsent"
     /\ IF ~hasId \/ ~dev THEN UNCHANGED faults ELSE Fault

Outcomes == {"answer", "none", "timeout", "unsent"}

NoRequest == UNCHANGED faults

Calls(f, a) == [modem EXCEPT !.call[f] = a]

\* requestRegistrationState; the client id of this service is taken as given.
Registration ==
  \E o \in Outcomes :
    Ends(o, TRUE) /\ ps' = IF o = "answer" THEN modem.attached ELSE ps

\* requestQueryDataCall: q is what it returns, 0 with the status unchanged
\* when it is woken without an answer.
Query(f, q) ==
  \E o \in Outcomes :
    /\ Ends(o, f \in cid)
    /\ q = CASE o = "answer" -> [ok |-> TRUE, st |-> IF modem.call[f] = 0 THEN "disc" ELSE "conn"]
             [] o = "none" -> [ok |-> TRUE, st |-> st[f]]
             [] OTHER -> [ok |-> FALSE, st |-> st[f]]
    /\ handle' = IF o = "answer" /\ modem.call[f] = 0
                   THEN [handle EXCEPT ![f] = "none"] ELSE handle

\* requestGetIPAddress: the address is cleared first; without a handle it
\* returns 0 at once, woken without an answer it returns 0 as well.
GetIPAddress(f, ok) ==
  LET got(a) == ip4' = IF f = "v4" THEN a ELSE ip4
  IN \/ handle[f] = "none" /\ ok = TRUE /\ got(0) /\ NoRequest
     \/ /\ handle[f] # "none"
        /\ \E o \in Outcomes :
             /\ Ends(o, f \in cid)
             /\ ok = (o = "none" \/ (o = "answer" /\ modem.call[f] # 0))
             /\ got(IF o = "answer" THEN modem.call[f] ELSE 0)

\* requestDeactivateDefaultPDP: the modem refuses a stale handle.  Without an
\* answer the call may have been torn down all the same.
Deactivate(f) ==
  \/ handle[f] = "none" /\ NoRequest /\ UNCHANGED <<handle, modem>>
  \/ /\ handle[f] = "live"
     /\ \/ /\ Ends("answer", f \in cid)
           /\ handle' = [handle EXCEPT ![f] = "none"] /\ modem' = Calls(f, 0)
        \/ /\ \E o \in {"none", "timeout"} : Ends(o, f \in cid)
           /\ \/ UNCHANGED <<handle, modem>>
              \/ handle' = [handle EXCEPT ![f] = "stale"] /\ modem' = Calls(f, 0)
        \/ Ends("unsent", f \in cid) /\ UNCHANGED <<handle, modem>>
  \/ /\ handle[f] = "stale"
     /\ \E o \in Outcomes : Ends(o, f \in cid)
     /\ UNCHANGED <<handle, modem>>

-----------------------------------------------------------------------------
(* The link: usbnet_link_change, udhcpc_start and udhcpc_stop              *)

\* The interface's IPv4 address for link l and the profile's address a:
\* udhcpc_start leaves it alone if the profile has none; udhcpc_stop clears it.
Configured(l, a) ==
  CASE l = {} -> 0
    [] l # {} /\ a # 0 -> a
    [] l # {} /\ a = 0 -> net

\* usbnet_link_change does nothing for the link it has.
LinkChange(l) ==
  IF link = l THEN UNCHANGED <<link, net, ip4>>
  ELSE /\ link' = l
       /\ ip4' = IF "v4" \in l THEN ip4 ELSE 0
       /\ net' = Configured(l, ip4')

Connected == {f \in Families : st[f] = "conn"}
AnyDisconnected == \E f \in Enabled : st[f] = "disc"

-----------------------------------------------------------------------------
(* A session begins                                                        *)

\* Fresh descriptors.  A device thread that is still there stays behind.
Begin ==
  /\ pc = "begin" /\ pc' = "connect"
  /\ ps' = FALSE /\ st' = [f \in Families |-> "unknown"] /\ hold' = FALSE
  /\ sigq' = <<>> /\ devq' = <<>> /\ ctl' = {} /\ devReady' = FALSE
  /\ old' = IF reader = "run" THEN "stale" ELSE old
  /\ reader' = "none" /\ drain' = FALSE /\ dev' = FALSE
  /\ UNCHANGED <<fam, data, iface, restart, alarm, env>>

\* The device thread opens the device and reports.  Anything but CONNECTED as
\* the first event, from this thread or one left behind, ends qmi_main at once.
Connect ==
  /\ pc = "connect"
  /\ pc' = IF modem.present /\ devq = <<>> THEN "init" ELSE "after"
  /\ reader' = IF modem.present THEN "run" ELSE "dead"
  /\ dev' = modem.present
  /\ UNCHANGED <<fam, ps, st, hold, data, iface, restart, alarm, queues, devReady,
                 old, drain, env>>

\* QmiWwanInit gives up after ten SYNCs: qmi_main returns, and neither stops
\* the device thread nor closes a descriptor.
InitFails ==
  /\ pc = "init" /\ pc' = "after"
  /\ IF Leaving \/ ~modem.present THEN UNCHANGED faults ELSE InitFaults /\ Fault
  /\ UNCHANGED <<fam, ps, st, hold, data, iface, restart, alarm, queues, devReady,
                 device, modem, stops>>

\* QmiWwanInit asks for the client ids, one by one.  A family whose request
\* fails is left without one, and the session goes on.
GetClientIds ==
  \E missing \in SUBSET Enabled :
    /\ missing = {} => dev /\ modem.present
    /\ IF missing = {} \/ Leaving \/ ~modem.present
         THEN UNCHANGED faults ELSE InitFaults /\ Fault
    /\ cid' = Enabled \ missing

\* Client ids, then SIM, profile and registration.
InitDone ==
  /\ pc = "init" /\ pc' = "poll"
  /\ GetClientIds
  /\ \E attached \in {ps, modem.attached} : ps' = attached
  /\ sigq' = Append(sigq, "CHECK")
  /\ UNCHANGED <<fam, st, hold, handle, ip4, iface, restart, alarm, devq, ctl,
                 devReady, device, modem, stops>>

-----------------------------------------------------------------------------
(* The event loop                                                          *)

\* Fifteen seconds without an event.
PollTimeout ==
  /\ pc = "poll" /\ sigq = <<>> /\ devq = <<>>
  /\ sigq' = <<"CHECK">>
  /\ UNCHANGED <<main, data, iface, restart, alarm, devq, ctl, devReady, device, env>>

\* poll() returns; a signal is read before an event, and any signal cancels
\* the pending alarm.
PollSignal ==
  /\ pc = "poll" /\ sigq # <<>>
  /\ devReady' = (devq # <<>>)
  /\ alarm' = FALSE
  /\ sigq' = Tail(sigq)
  /\ pc' = CASE Head(sigq) = "START" -> "start"
             [] Head(sigq) = "CHECK" -> "check"
             [] Head(sigq) = "STOP" -> "hangup"
  /\ fam' = "v4"
  /\ UNCHANGED <<ps, st, hold, data, iface, restart, devq, ctl, device, env>>

PollEvent ==
  /\ pc = "poll" /\ sigq = <<>> /\ devq # <<>>
  /\ pc' = "event"
  /\ UNCHANGED <<fam, ps, st, hold, data, iface, restart, alarm, queues, devReady,
                 device, env>>

\* After a signal, the event poll() reported is next.
Handled ==
  /\ pc' = IF devReady THEN "event" ELSE "poll"
  /\ devReady' = FALSE /\ fam' = "v4"

-----------------------------------------------------------------------------
(* SIG_EVENT_START: dial                                                   *)

\* From v4 on to v6, then to the end of the handler.
ToDial(f) ==
  IF f \in Enabled /\ st[f] # "conn" THEN pc' = "dial" /\ fam' = f
  ELSE IF f = "v4" /\ "v6" \in Enabled /\ st["v6"] # "conn" THEN pc' = "dial" /\ fam' = "v6"
  ELSE pc' = "dialled" /\ fam' = "v4"

AfterDial == IF fam = "v4" THEN ToDial("v6") ELSE pc' = "dialled" /\ fam' = "v4"

StartRefused ==
  /\ pc = "start" /\ (~ps \/ hold)
  /\ alarm' = ps
  /\ Handled
  /\ UNCHANGED <<ps, st, hold, data, iface, restart, queues, device, env>>

Start ==
  /\ pc = "start" /\ ps /\ ~hold
  /\ ToDial("v4")
  /\ UNCHANGED <<ps, st, hold, data, iface, restart, alarm, queues, devReady, device, env>>

\* requestSetupDataCall.  A QMI error or ETIMEDOUT is positive, and a second
\* try with the other authentication follows.
Dial ==
  /\ pc \in {"dial", "redial"}
  /\ \E o \in Outcomes, a \in Addresses :
       LET up == modem.attached /\ (modem.call[fam] = 0 \/ RedialAccepted)
           retry == pc = "dial" /\ fam = "v4" /\ HasCredentials
           failed == IF retry THEN pc' = "redial" /\ UNCHANGED fam ELSE AfterDial
       IN /\ Ends(o, fam \in cid)
          /\ CASE o = "answer" /\ up ->
                    /\ modem' = IF modem.call[fam] = 0 THEN Calls(fam, a) ELSE modem
                    /\ handle' = [handle EXCEPT ![fam] = "live"]
                    /\ pc' = "address" /\ UNCHANGED fam
               [] o = "answer" /\ ~up -> failed /\ UNCHANGED <<modem, handle>>
               [] o \in {"none", "timeout"} ->
                    /\ \/ UNCHANGED modem
                       \/ modem.attached /\ modem.call[fam] = 0 /\ modem' = Calls(fam, a)
                    /\ IF o = "none" THEN pc' = "address" /\ UNCHANGED fam ELSE failed
                    /\ UNCHANGED handle
               [] o = "unsent" -> (AfterDial \/ failed) /\ UNCHANGED <<modem, handle>>
  /\ UNCHANGED <<ps, st, hold, cid, ip4, iface, restart, alarm, queues, devReady,
                 device, stops>>

\* The address is asked for; only then is the family connected.
DialAddress ==
  /\ pc = "address"
  /\ \E ok \in BOOLEAN :
       /\ GetIPAddress(fam, ok)
       /\ st' = IF ok THEN [st EXCEPT ![fam] = "conn"] ELSE st
  /\ AfterDial
  /\ UNCHANGED <<ps, hold, handle, cid, iface, restart, alarm, queues, devReady,
                 device, modem, stops>>

\* The delay before the next try; its length, 5 to 60 s, is not modelled.
Dialled ==
  /\ pc = "dialled"
  /\ hold' = IF AnyDisconnected THEN TRUE ELSE IF Connected # {} THEN FALSE ELSE hold
  /\ alarm' = (AnyDisconnected \/ alarm)
  /\ Handled
  /\ UNCHANGED <<ps, st, data, iface, restart, queues, device, env>>

-----------------------------------------------------------------------------
(* SIG_EVENT_CHECK: compare with the modem, adjust the link                *)

Check ==
  /\ pc = "check" /\ pc' = "query"
  /\ IF ps THEN NoRequest /\ UNCHANGED ps ELSE Registration
  /\ UNCHANGED <<fam, st, hold, data, iface, restart, alarm, queues, devReady,
                 device, modem, stops>>

\* From v4 on to v6, then to the end of the handler.
AfterQuery ==
  IF fam = "v4" THEN pc' = "query" /\ fam' = "v6" ELSE pc' = "checked" /\ fam' = "v4"

\* An error counts as disconnected for v4, and is ignored for v6.
QueryCall ==
  /\ pc = "query"
  /\ IF fam \in Enabled /\ st[fam] # "disc"
       THEN \E q \in [ok : BOOLEAN, st : {"unknown", "conn", "disc"}] :
              /\ Query(fam, q)
              /\ st' = [st EXCEPT ![fam] = IF fam = "v4" /\ ~q.ok THEN "disc" ELSE q.st]
              /\ IF fam = "v4" /\ q = [ok |-> TRUE, st |-> "conn"]
                   THEN pc' = (IF ip4 = 0 THEN "fetch" ELSE "verify") /\ UNCHANGED fam
                   ELSE AfterQuery
       ELSE /\ st' = [st EXCEPT ![fam] = "disc"]
            /\ AfterQuery /\ NoRequest /\ UNCHANGED handle
  /\ UNCHANGED <<ps, hold, cid, ip4, iface, restart, alarm, queues, devReady,
                 device, modem, stops>>

FetchAddress ==
  /\ pc = "fetch"
  /\ \E ok \in BOOLEAN :
       /\ GetIPAddress("v4", ok)
       /\ IF ok THEN pc' = "verify" /\ UNCHANGED <<fam, st>>
                ELSE st' = [st EXCEPT !["v4"] = "disc"] /\ AfterQuery
  /\ UNCHANGED <<ps, hold, handle, cid, iface, restart, alarm, queues, devReady,
                 device, modem, stops>>

\* check_ipv4_address overwrites the address it compares with.
VerifyAddress ==
  /\ pc = "verify"
  /\ \E ok \in BOOLEAN :
       /\ GetIPAddress("v4", ok)
       /\ IF ok /\ ip4' = ip4 THEN AfterQuery ELSE pc' = "abandon" /\ UNCHANGED fam
  /\ UNCHANGED <<ps, st, hold, handle, cid, iface, restart, alarm, queues, devReady,
                 device, modem, stops>>

Abandon ==
  /\ pc = "abandon"
  /\ Deactivate("v4")
  /\ st' = [st EXCEPT !["v4"] = "disc"]
  /\ AfterQuery
  /\ UNCHANGED <<ps, hold, cid, ip4, iface, restart, alarm, queues, devReady,
                 device, stops>>

\* Faulty variant: a disconnected family is not dialled again.
CheckedSilently ==
  /\ pc = "checked"
  /\ LinkChange(Connected)
  /\ Handled
  /\ UNCHANGED <<ps, st, hold, handle, cid, restart, alarm, queues, device, env>>

\* With one family disconnected and the other unknown the link stays as it is.
Checked ==
  /\ pc = "checked"
  /\ IF \A f \in Families : st[f] = "disc" THEN LinkChange({})
     ELSE IF Connected # {} THEN LinkChange(Connected)
     ELSE UNCHANGED <<link, net, ip4>>
  /\ sigq' = IF AnyDisconnected THEN Append(sigq, "START") ELSE sigq
  /\ Handled
  /\ UNCHANGED <<ps, st, hold, handle, cid, restart, alarm, devq, ctl, device, env>>

-----------------------------------------------------------------------------
(* SIG_EVENT_STOP                                                          *)

Hangup ==
  /\ pc = "hangup"
  /\ IF fam \in Enabled /\ st[fam] = "conn"
       THEN Deactivate(fam) ELSE NoRequest /\ UNCHANGED <<handle, modem>>
  /\ IF fam = "v4" THEN fam' = "v6" /\ UNCHANGED pc ELSE fam' = "v4" /\ pc' = "release"
  /\ UNCHANGED <<ps, st, hold, cid, ip4, iface, restart, alarm, queues, devReady,
                 device, stops>>

\* The modem's calls of these families end.
CallsEnd(F) ==
  /\ modem' = [modem EXCEPT !.call = [f \in Families |-> IF f \in F THEN 0 ELSE @[f]]]
  /\ handle' = [f \in Families |->
                  IF f \in F /\ handle[f] = "live" THEN "stale" ELSE handle[f]]

\* Faulty variant: the device thread is not told to quit.
ReleaseOnly ==
  /\ pc = "release" /\ pc' = "quit"
  /\ LinkChange({})
  /\ cid' = {}
  /\ UNCHANGED <<fam, ps, st, hold, handle, restart, alarm, queues, devReady, device, env>>

\* QmiWwanDeInit: the call of a client that the modem releases ends.
Release ==
  /\ pc = "release" /\ pc' = "quit"
  /\ LinkChange({})
  /\ \E F \in SUBSET cid : (F # {} => dev /\ modem.present) /\ CallsEnd(F)
  /\ cid' = {}
  /\ ctl' = ctl \cup {"QUIT"}
  /\ UNCHANGED <<fam, ps, st, hold, restart, alarm, sigq, devq, devReady, device,
                 faults, stops>>

-----------------------------------------------------------------------------
(* Events of the device thread                                             *)

Event(e) == pc = "event" /\ Head(devq) = e /\ devq' = Tail(devq)

DeviceGone ==
  /\ Event("DISCONNECTED") /\ pc' = "quit"
  /\ LinkChange({})
  /\ UNCHANGED <<fam, ps, st, hold, handle, cid, restart, alarm, sigq, ctl, devReady,
                 device, env>>

\* RIL_UNSOL_RESPONSE_VOICE_NETWORK_STATE_CHANGED
NetworkChanged ==
  /\ Event("NETWORK")
  /\ Registration
  /\ sigq' = IF ps' /\ AnyDisconnected THEN Append(sigq, "START") ELSE sigq
  /\ hold' = (ps' /\ hold)
  /\ Handled
  /\ UNCHANGED <<st, data, iface, restart, alarm, ctl, device, modem, stops>>

\* RIL_UNSOL_DATA_CALL_LIST_CHANGED
CallListChanged ==
  /\ Event("CALLS")
  /\ hold' = (hold \/ Connected # {})
  /\ sigq' = Append(sigq, "CHECK")
  /\ Handled
  /\ UNCHANGED <<ps, st, data, iface, restart, alarm, ctl, device, env>>

\* MODEM_REPORT_RESET_EVENT
ModemReset ==
  /\ Event("RESET") /\ pc' = "quit"
  /\ ctl' = ctl \cup {"QUIT"}
  /\ restart' = TRUE
  /\ UNCHANGED <<fam, ps, st, hold, data, iface, alarm, sigq, devReady, device, env>>

-----------------------------------------------------------------------------
(* A session ends                                                          *)

\* Faulty variant: a session that a reset ends leaves the link up.
QuitLinkUp ==
  /\ pc = "quit" /\ pc' = "join"
  /\ UNCHANGED <<fam, ps, st, hold, data, iface, restart, alarm, queues, devReady,
                 device, env>>

Quit ==
  /\ pc = "quit" /\ pc' = "join"
  /\ LinkChange({})
  /\ UNCHANGED <<fam, ps, st, hold, handle, cid, restart, alarm, queues, devReady,
                 device, env>>

\* pthread_join; then the descriptors are closed.
Join ==
  /\ pc = "join" /\ reader = "dead" /\ pc' = "after"
  /\ sigq' = <<>> /\ devq' = <<>> /\ ctl' = {} /\ devReady' = FALSE
  /\ UNCHANGED <<fam, ps, st, hold, data, iface, restart, alarm, device, env>>

Again ==
  /\ pc = "after" /\ restart /\ pc' = "begin"
  /\ UNCHANGED <<fam, ps, st, hold, data, iface, restart, alarm, queues, devReady,
                 device, env>>

\* main returns, and every thread with it.
Exit ==
  /\ pc = "after" /\ ~restart /\ pc' = "exited"
  /\ reader' = "dead" /\ old' = "none" /\ dev' = FALSE /\ alarm' = FALSE
  /\ UNCHANGED <<fam, ps, st, hold, data, iface, restart, queues, devReady, drain, env>>

-----------------------------------------------------------------------------
(* The device thread, as main sees it; QmiChannel has its detail           *)

Leaves(q) ==
  /\ dev' = FALSE
  /\ ctl' = ctl \ q
  /\ devq' = IF SessionOpen THEN Append(devq, "DISCONNECTED") ELSE devq
  /\ UNCHANGED <<main, data, iface, restart, alarm, sigq, devReady, drain, env>>

ReaderStop ==
  /\ "STOP" \in ctl /\ "run" \in {reader, old}
  /\ ctl' = ctl \ {"STOP"} /\ drain' = TRUE
  /\ UNCHANGED <<main, data, iface, restart, alarm, sigq, devq, devReady, reader,
                 old, dev, env>>

ReaderQuit ==
  /\ reader = "run" /\ "QUIT" \in ctl /\ reader' = "dead"
  /\ UNCHANGED old /\ Leaves({"QUIT"})

ReaderHangup ==
  /\ reader = "run" /\ ~modem.present /\ reader' = "dead"
  /\ UNCHANGED old /\ Leaves({})

\* A thread left behind by an earlier session wakes up on its descriptors and
\* goes on with the present ones: both are globals, read again in each turn.
OldWakes ==
  /\ old = "stale" /\ old' = "run"
  /\ UNCHANGED <<main, data, iface, restart, alarm, queues, devReady, reader, drain,
                 dev, env>>

OldQuit ==
  /\ old = "run" /\ "QUIT" \in ctl /\ old' = "none"
  /\ UNCHANGED reader /\ Leaves({"QUIT"})

\* It closes the present device, whichever it was polling.
OldHangup ==
  /\ old # "none" /\ ~modem.present /\ old' = "none"
  /\ UNCHANGED reader /\ Leaves({})

-----------------------------------------------------------------------------
(* Signals and time                                                        *)

\* ql_sigaction on SIGINT or SIGTERM, at any point of the main thread.
\* Outside a session it writes to closed descriptors.
PostStop ==
  /\ stops > 0 /\ stops' = stops - 1
  /\ pc # "exited"
  /\ restart' = FALSE
  /\ IF SessionOpen THEN sigq' = Append(sigq, "STOP") /\ ctl' = ctl \cup {"STOP"}
                    ELSE UNCHANGED <<sigq, ctl>>
  /\ UNCHANGED <<main, data, iface, alarm, devq, devReady, device, modem, faults>>

\* ql_sigaction on SIGALRM.
AlarmFires ==
  /\ alarm /\ alarm' = FALSE
  /\ sigq' = IF SessionOpen THEN Append(sigq, "START") ELSE sigq
  /\ UNCHANGED <<main, data, iface, restart, devq, ctl, devReady, device, env>>

HoldExpires ==
  /\ hold /\ hold' = FALSE
  /\ UNCHANGED <<pc, fam, ps, st, data, iface, restart, alarm, queues, devReady,
                 device, env>>

-----------------------------------------------------------------------------
(* Modem and network.  Everything that goes wrong costs a fault.           *)

\* An indication, passed on by the device thread.
Indicate(e) ==
  devq' = IF reader = "run" /\ dev THEN Append(devq, e) ELSE devq

EnvStep == UNCHANGED <<main, cid, ip4, iface, restart, alarm, sigq, ctl, devReady, device, stops>>

CallDrops(f) ==
  /\ Fault /\ modem.call[f] # 0
  /\ CallsEnd({f}) /\ Indicate("CALLS") /\ EnvStep

\* The network moves the call to another address.
Readdress ==
  /\ Fault /\ modem.call["v4"] # 0
  /\ modem' = Calls("v4", 3 - modem.call["v4"]) /\ UNCHANGED handle
  /\ Indicate("CALLS") /\ EnvStep

Detach ==
  /\ Fault /\ modem.attached
  /\ handle' = [f \in Families |-> IF handle[f] = "live" THEN "stale" ELSE handle[f]]
  /\ modem' = [modem EXCEPT !.attached = FALSE, !.call = [f \in Families |-> 0]]
  /\ Indicate("NETWORK") /\ EnvStep

Attach ==
  /\ modem.present /\ ~modem.attached
  /\ modem' = [modem EXCEPT !.attached = TRUE] /\ UNCHANGED <<handle, faults>>
  /\ Indicate("NETWORK") /\ EnvStep

\* The modem restarts behind an open device file and revokes its client ids.
Reset ==
  /\ Resets /\ Fault /\ modem.present
  /\ handle' = [f \in Families |-> IF handle[f] = "live" THEN "stale" ELSE handle[f]]
  /\ modem' = [modem EXCEPT !.attached = FALSE, !.call = [f \in Families |-> 0]]
  /\ Indicate("RESET") /\ EnvStep

Unplug ==
  /\ Fault /\ modem.present
  /\ handle' = [f \in Families |-> IF handle[f] = "live" THEN "stale" ELSE handle[f]]
  /\ modem' = [present |-> FALSE, attached |-> FALSE, call |-> [f \in Families |-> 0]]
  /\ UNCHANGED devq /\ EnvStep

\* Only once nobody holds the old device file.
Replug ==
  /\ ~modem.present /\ reader # "run" /\ old = "none"
  /\ modem' = [modem EXCEPT !.present = TRUE]
  /\ UNCHANGED <<handle, devq, faults>> /\ EnvStep

-----------------------------------------------------------------------------
Session == Begin \/ Connect \/ InitFails \/ InitDone \/ Quit \/ Join \/ Again \/ Exit
Loop == PollTimeout \/ PollSignal \/ PollEvent
OnStart == StartRefused \/ Start \/ Dial \/ DialAddress \/ Dialled
OnCheck == Check \/ QueryCall \/ FetchAddress \/ VerifyAddress \/ Abandon \/ Checked
OnStop == Hangup \/ Release
OnEvent == DeviceGone \/ NetworkChanged \/ CallListChanged \/ ModemReset

Main == Session \/ Loop \/ OnStart \/ OnCheck \/ OnStop \/ OnEvent
Device == ReaderStop \/ ReaderQuit \/ ReaderHangup \/ OldWakes \/ OldQuit \/ OldHangup
Signals == PostStop \/ AlarmFires
Network ==
  \/ \E f \in Families : CallDrops(f)
  \/ Readdress \/ Detach \/ Attach \/ Reset \/ Unplug \/ Replug

Next == Main \/ Device \/ Signals \/ HoldExpires \/ Network

Spec == Init /\ [][Next]_vars

\* Threads are scheduled and requests return (QmiChannel's CallsReturn), time
\* passes, and the network and the modem come back.  A device thread whose
\* descriptor another one has closed need not notice anything.
Fairness ==
  /\ WF_vars(Main)
  /\ WF_vars(ReaderStop) /\ WF_vars(ReaderQuit) /\ WF_vars(dev /\ ReaderHangup)
  /\ WF_vars(AlarmFires) /\ WF_vars(HoldExpires)
  /\ WF_vars(Attach) /\ WF_vars(Replug)

LiveSpec == Spec /\ Fairness

-----------------------------------------------------------------------------
\* Types; a family has a client id only if it is enabled (QmiWwanInit).
TypeOK ==
  /\ pc \in {"begin", "connect", "init", "poll", "start", "dial", "redial", "address",
             "dialled", "check", "query", "fetch", "verify", "abandon", "checked",
             "hangup", "release", "event", "quit", "join", "after", "exited"}
  /\ fam \in Families
  /\ ps \in BOOLEAN /\ hold \in BOOLEAN /\ restart \in BOOLEAN /\ alarm \in BOOLEAN
  /\ st \in [Families -> {"unknown", "conn", "disc"}]
  /\ handle \in [Families -> {"none", "live", "stale"}]
  /\ cid \in SUBSET Enabled
  /\ ip4 \in {0} \cup Addresses /\ net \in {0} \cup Addresses
  /\ link \in (SUBSET Families) \cup {{"unset"}}
  /\ sigq \in Seq({"START", "CHECK", "STOP"})
  /\ devq \in Seq({"NETWORK", "CALLS", "RESET", "DISCONNECTED"})
  /\ ctl \in SUBSET {"STOP", "QUIT"}
  /\ devReady \in BOOLEAN /\ drain \in BOOLEAN /\ dev \in BOOLEAN
  /\ reader \in {"none", "run", "dead"} /\ old \in {"none", "stale", "run"}
  /\ modem \in [present : BOOLEAN, attached : BOOLEAN,
                call : [Families -> {0} \cup Addresses]]
  /\ faults \in 0..MaxFaults /\ stops \in 0..MaxStops

\* A dial ends in CONNECTED only if the modem has the call, although requests
\* that come back without an answer count as successful (qmi_rsp_check returns
\* err 0): except while the device thread drains or leaves.
DialledMeansCall ==
  [][\A f \in Families :
       pc = "address" /\ st[f] # "conn" /\ st'[f] = "conn" => modem.call[f] # 0 \/ Leaving]_vars

\* The process never leaves the network interface up or configured behind,
\* whichever way it ends.
ExitLinkDown == pc = "exited" => link \cap Families = {} /\ net = 0

\* A stop that has reached the signal socket ends the process (main.c:247, "-k",
\* "hangup data call (by send SIGINT to ...)").
StopExits == (\E i \in DOMAIN sigq : sigq[i] = "STOP") ~> (pc = "exited")

\* Once main handles a stop (the quit request to the device thread included), the
\* process ends: pthread_join has a device thread to wait for that does quit.
StopCompletes == (pc = "hangup") ~> (pc = "exited")

\* However often the call drops, moves or the network goes away, the interface
\* has the modem's address again later, or the process ends with its device.
AddressRecovers ==
  []<>(modem.call["v4"] # 0 /\ net = modem.call["v4"]) \/ <>(pc = "exited")
=============================================================================
