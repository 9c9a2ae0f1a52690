---------------------------- MODULE MbimRequests ----------------------------
(***************************************************************************)
(* struct request_ops and qmi_device_ops of a modem driven by MBIM         *)
(* (mbim-cm.c), one action per command and one for what is made of its     *)
(* answer.  The answer's state is stored (seen) when the command returns;  *)
(* mbim_update_state brings cache up to it later, without the lock under   *)
(* which the device thread compares indications with cache.                *)
(* The handlers of PIN and profile do not exist.                           *)
(***************************************************************************)
EXTENDS RequestOps

Mbim(p) == mode.ops = "mbim" /\ pc = p

\* mbim_check_err: an error of the function, a timeout and no answer at all are
\* positive; there is no device to write to once the device thread has left.
Error(result) ==
  \/ result = "positive"
  \/ result = "negative" /\ reader # "run"

MbimOnly == Calm /\ UNCHANGED <<old, asr, restart, reboots, devq>>

-----------------------------------------------------------------------------
(* mbim_init                                                               *)

MbimInit == MbimOnly /\ UNCHANGED <<status, addr, mbim, sigq, devReady>>

\* Capabilities, the list of services, the version: any failure ends the session
\* but that of the version.
Step(p, next, must) ==
  /\ Mbim(p)
  /\ \E o \in Outcomes :
       /\ Command(o, modem.open \/ p = "configure")
       /\ Goto(IF o = "done" \/ ~must THEN next ELSE "after")
  /\ MbimInit /\ UNCHANGED modem

MbimConfigure == Step("configure", "open", TRUE)
MbimCaps == Step("caps", "services", TRUE)
MbimServices == Step("services", "version", TRUE) \/ Step("services", "radio", TRUE)
MbimVersion == Step("version", "radio", FALSE)
MbimRadio == Step("radio", "sim", TRUE)

\* Faulty variant: as long as the device does not answer, and is there or not.
MbimOpenForever ==
  /\ Mbim("open")
  /\ \E o \in Outcomes :
       /\ Command(o, TRUE) /\ Does(o, [modem EXCEPT !.open = TRUE])
       /\ Goto(IF o = "done" THEN "caps" ELSE IF o = "refused" THEN "after" ELSE "open")
  /\ MbimInit

\* mbim_open_device: ten times at most as long as nothing comes back in time.
MbimOpen ==
  /\ Mbim("open")
  /\ \E o \in Outcomes :
       /\ Command(o, TRUE) /\ Does(o, [modem EXCEPT !.open = TRUE])
       /\ \/ o = "done" /\ Goto("caps")
          \/ ~Heard(o) /\ t + 1 < Tries /\ t' = t + 1 /\ UNCHANGED <<pc, back>>
          \/ ~Heard(o) /\ (t + 1 >= Tries \/ reader # "run") /\ Goto("after")
          \/ o = "refused" /\ Goto("after")
  /\ MbimInit

-----------------------------------------------------------------------------
(* A state is asked for: the answer, then what is made of it               *)

\* A command in whose answer the modem, then in state m, reports field f.
Reports(p, o, f, can, m, next) ==
  /\ Mbim(p) /\ Command(o, modem.open /\ can) /\ Does(o, m)
  /\ o = "done" => seen' = [seen EXCEPT ![f] = Said(m)[f]] /\ Goto(next)
  /\ o # "done" => UNCHANGED seen
  /\ UNCHANGED cache

Makes(p) == Mbim(p) /\ cache' = seen /\ UNCHANGED <<seen, modem, faults>>

MbimAsks == MbimOnly /\ UNCHANGED <<addr>>
Silent == UNCHANGED <<status, sigq, devReady>>

\* requestGetSIMStatus; nothing follows from it, the PIN is never entered.
MbimSimStatus ==
  /\ \E o \in Outcomes :
       /\ Reports("sim", o, "ready", TRUE, modem, "simSeen")
       /\ o # "done" => Goto("reg")
  /\ MbimAsks /\ Silent

MbimSimSeen == Makes("simSeen") /\ Goto("reg") /\ MbimAsks /\ Silent

\* requestRegistrationState: without an answer about the packet service the
\* modem counts as attached.
MbimRegister ==
  /\ \E o \in Outcomes :
       /\ Reports("reg", o, "reg", TRUE, modem, "regSeen")
       /\ IF o = "done" THEN Silent ELSE Registered(FALSE)
  /\ MbimAsks

MbimRegisterSeen ==
  /\ Makes("regSeen")
  /\ IF seen.reg = "home" THEN Goto("packet") /\ Silent ELSE Registered(FALSE)
  /\ MbimAsks

MbimPacketService ==
  /\ \E o \in Outcomes :
       /\ Reports("packet", o, "packet", TRUE, modem, "packetSeen")
       /\ IF o = "done" THEN Silent ELSE Registered(TRUE)
  /\ MbimAsks

MbimPacketSeen ==
  /\ Makes("packetSeen")
  /\ IF seen.packet = "attached" THEN Registered(TRUE) ELSE Goto("attach") /\ Silent
  /\ MbimAsks

\* The modem attaches, and ps stays what it was: the next query tells.
MbimAttach ==
  /\ \E o \in Outcomes :
       /\ Reports("attach", o, "packet", modem.reg # "none",
                  [modem EXCEPT !.reg = "attached"], "attachSeen")
       /\ IF o = "done" THEN Silent ELSE Registered(FALSE)
  /\ MbimAsks

MbimAttachSeen == Makes("attachSeen") /\ Registered(FALSE) /\ MbimAsks

-----------------------------------------------------------------------------
(* The call                                                                *)

Up(a) == IF modem.call # 0 THEN modem ELSE [modem EXCEPT !.call = a, !.bearer = "ours"]

\* requestSetupDataCall, mbim_set_connect(1); the APN goes with the command.
MbimConnect ==
  /\ \E o \in Outcomes, a \in Addresses :
       /\ \/ Reports("dial", o, "act", modem.reg = "attached", Up(a), "dialSeen")
          \/ Reports("redial", o, "act", modem.reg = "attached", Up(a), "dialSeen")
       /\ o # "done" => \E r \in {"positive", "negative"} : Error(r) /\ SetUp(r)
  /\ MbimAsks /\ Silent

MbimConnectSeen == Makes("dialSeen") /\ SetUp("ok") /\ MbimAsks /\ Silent

\* requestQueryDataCall; the caller takes an error for a disconnected call.
MbimQueryConnect ==
  /\ \E o \in Outcomes :
       /\ Reports("query", o, "act", TRUE, modem, "querySeen")
       /\ IF o = "done" THEN UNCHANGED st ELSE Queried(FALSE)
  /\ MbimAsks /\ UNCHANGED <<ps, hold, sigq, devReady>>

MbimQuerySeen ==
  /\ Makes("querySeen")
  /\ Queried(seen.act = "up")
  /\ MbimAsks /\ UNCHANGED <<ps, hold, sigq, devReady>>

\* mbim_ip_config: without a configuration the address stays, and all is well.
MbimGetIPAddress ==
  /\ Mbim("address") \/ Mbim("fetch")
  /\ \E o \in Outcomes :
       /\ Command(o, modem.open)
       /\ addr' = IF o = "done" /\ modem.call # 0 THEN modem.call ELSE addr
       /\ GotAddress(o = "done")
  /\ MbimOnly /\ UNCHANGED <<mbim, modem, ps, hold, sigq, devReady>>

\* mbim_set_connect(0); its result is not looked at.
MbimDisconnect ==
  /\ \E o \in Outcomes :
       /\ Reports("deactivate", o, "act", TRUE, [modem EXCEPT !.call = 0], "downSeen")
       /\ o # "done" => Goto("release")
  /\ MbimAsks /\ Silent

MbimDisconnectSeen == Makes("downSeen") /\ Goto("release") /\ MbimAsks /\ Silent

\* mbim_deinit: closing the device ends its calls.
MbimClose ==
  /\ Mbim("close")
  /\ \E o \in Outcomes :
       Command(o, TRUE) /\ Does(o, [modem EXCEPT !.call = 0, !.open = FALSE])
  /\ Goto("quit") /\ ctl' = ctl \cup {"QUIT"}
  /\ UNCHANGED <<mode, status, profile, asr, mbim, iface, restart, alarm, sigq, devq,
                 devReady, device, stops, reboots>>

MbimCommand ==
  \/ MbimConfigure \/ MbimOpen \/ MbimCaps \/ MbimServices \/ MbimVersion \/ MbimRadio
  \/ MbimSimStatus \/ MbimSimSeen \/ MbimRegister \/ MbimRegisterSeen \/ MbimPacketService
  \/ MbimPacketSeen \/ MbimAttach \/ MbimAttachSeen \/ MbimConnect \/ MbimConnectSeen
  \/ MbimQueryConnect \/ MbimQuerySeen \/ MbimGetIPAddress \/ MbimDisconnect
  \/ MbimDisconnectSeen \/ MbimClose
=============================================================================
