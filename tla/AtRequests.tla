----------------------------- MODULE AtRequests -----------------------------
(***************************************************************************)
(* struct request_ops and qmi_device_ops of a modem driven by AT commands  *)
(* (atc.c), one action per command; AtChannel has the channel they use.    *)
(* An answer of ERROR leaves err at 0: only a command without an answer is *)
(* an error to some of the handlers.                                       *)
(***************************************************************************)
EXTENDS RequestOps

At(p) == mode.ops = "at" /\ pc = p

\* asr_style_atc was found out wrongly.
Misfit == asr # modem.asr

\* A command that the modems of the two styles write differently.
Styled(o, can) ==
  \/ Command(o, can)
  \/ Misfit /\ o = "refused" /\ Reachable /\ UNCHANGED faults

-----------------------------------------------------------------------------
(* atc_init.  Commands whose result nobody looks at are left out.          *)

AtInit == /\ Calm
          /\ UNCHANGED <<status, addr, mbim, sigq, devq, devReady>>

AtHandshake ==
  /\ At("handshake")
  /\ \E o \in Outcomes : Command(o, TRUE) /\ Goto(IF Heard(o) THEN "style" ELSE "after")
  /\ AtInit /\ UNCHANGED <<old, asr, restart, modem, reboots>>

\* AT+QNETDEVSTATUS=?: any failure makes it an ASR modem.  With a proxy this is
\* all, and its error that of atc_init.
AtStyle ==
  /\ At("style")
  /\ \E o \in Outcomes :
       /\ Command(o, ~modem.asr)
       /\ asr' = (asr \/ o # "done")
       /\ Goto(IF ~mode.proxy THEN "nat" ELSE IF Heard(o) THEN "sim" ELSE "after")
  /\ AtInit /\ UNCHANGED <<old, restart, modem, reboots>>

\* Without an answer its error is that of atc_init.
AtNat ==
  /\ At("nat")
  /\ \E o \in Outcomes :
       /\ Command(o, TRUE)
       /\ Goto(IF ~Heard(o) THEN "after"
               ELSE IF o = "done" /\ modem.nat # asr THEN "setnat" ELSE "sim")
  /\ AtInit /\ UNCHANGED <<old, asr, restart, modem, reboots>>

\* Faulty variant: the NAT mode is set to what it was.
AtSetNatBack ==
  /\ At("setnat")
  /\ \E o \in Outcomes : Command(o, TRUE) /\ Goto(IF o = "done" THEN "reboot" ELSE "sim")
  /\ AtInit /\ UNCHANGED <<old, asr, restart, modem, reboots>>

AtSetNat ==
  /\ At("setnat")
  /\ \E o \in Outcomes :
       /\ Command(o, TRUE) /\ Does(o, [modem EXCEPT !.nat = asr])
       /\ Goto(IF o = "done" THEN "reboot" ELSE "sim")
  /\ AtInit /\ UNCHANGED <<old, asr, restart, reboots>>

\* at+cfun=1,1: the new NAT mode takes a restart of the modem.
AtReboot ==
  /\ At("reboot")
  /\ \E o \in Outcomes :
       /\ Command(o, TRUE) /\ Does(o, [modem EXCEPT !.booting = TRUE])
       /\ restart' = (restart \/ Heard(o))
       /\ reboots' = IF Happens(o) THEN reboots + 1 ELSE reboots
  /\ Goto("sim")
  /\ AtInit /\ UNCHANGED <<old, asr>>

-----------------------------------------------------------------------------
(* SIM and profile.  The PIN and the APN are given on the command line.    *)

AtSimStatus ==
  /\ At("sim")
  /\ \E o \in Outcomes :
       /\ Command(o, TRUE)
       /\ Goto(IF o = "done" /\ modem.sim = "pin" THEN "pin" ELSE "profile")
  /\ AtInit /\ UNCHANGED <<old, asr, restart, modem, reboots>>

\* The handler's result is not looked at.
AtEnterSimPin ==
  /\ At("pin")
  /\ \E o \in Outcomes :
       Command(o, modem.sim = "pin") /\ Does(o, [modem EXCEPT !.sim = "entered"])
  /\ Goto("profile")
  /\ AtInit /\ UNCHANGED <<old, asr, restart, reboots>>

\* requestSetProfile is called and has something to set.
ToSetProfile(apn) ==
  old' = apn /\ Goto(IF apn = "ours" THEN "reg" ELSE "store")

\* AT+QICSGP=<pdp>: an RG801H answers OK and no profile when none is defined.
AtGetProfile ==
  /\ At("profile")
  /\ \E o \in Outcomes :
       /\ Command(o, TRUE)
       /\ IF o # "done" THEN Goto("contexts") /\ UNCHANGED old
          ELSE IF modem.apn = "undefined" THEN Goto("define") /\ UNCHANGED old
          ELSE ToSetProfile(modem.apn)
  /\ AtInit /\ UNCHANGED <<asr, restart, modem, reboots>>

\* An empty profile is defined, then the handler starts again.
AtDefineProfile ==
  /\ At("define")
  /\ \E o \in Outcomes :
       /\ Command(o, TRUE) /\ Does(o, [modem EXCEPT !.apn = "other"])
       /\ Goto(IF o = "done" THEN "profile" ELSE "contexts")
  /\ AtInit /\ UNCHANGED <<old, asr, restart, reboots>>

\* AT+CGDCONT?: without an answer the old profile counts as empty.
AtGetContexts ==
  /\ At("contexts")
  /\ \E o \in Outcomes :
       /\ Command(o, TRUE)
       /\ ToSetProfile(IF o = "done" /\ modem.apn = "ours" THEN "ours" ELSE "other")
  /\ AtInit /\ UNCHANGED <<asr, restart, modem, reboots>>

\* AT+QICSGP, or AT+CGDCONT if it fails; the result of that is not looked at.
AtSetProfile ==
  /\ At("store") \/ At("storeContext")
  /\ \E o \in Outcomes :
       /\ Command(o, TRUE) /\ Does(o, [modem EXCEPT !.apn = "ours"])
       /\ Goto(IF pc = "store" /\ o # "done" THEN "storeContext" ELSE "reg")
  /\ AtInit /\ UNCHANGED <<old, asr, restart, reboots>>

-----------------------------------------------------------------------------
(* requestRegistrationState                                                *)

AtOnly == Calm /\ UNCHANGED <<old, asr, mbim, restart, reboots>>

\* AT+COPS?: the access technology, none without a network.
AtOperator ==
  /\ At("reg")
  /\ \E o \in Outcomes :
       /\ Command(o, TRUE)
       /\ IF o = "done" /\ modem.reg # "none"
            THEN Goto("creg") /\ UNCHANGED <<status, sigq, devReady>>
            ELSE Registered(FALSE)
  /\ AtOnly /\ UNCHANGED <<addr, devq, modem>>

\* AT+CGREG?, AT+CEREG? or AT+C5GREG?
AtRegistration ==
  /\ At("creg")
  /\ \E o \in Outcomes :
       Command(o, TRUE) /\ Registered(o = "done" /\ modem.reg # "none")
  /\ AtOnly /\ UNCHANGED <<addr, devq, modem>>

-----------------------------------------------------------------------------
(* requestSetupDataCall                                                    *)

AtCalls == AtOnly /\ UNCHANGED <<status, addr, sigq, devReady>>

Failed(o) == SetUp(IF Heard(o) THEN "ok" ELSE "negative")

\* An ASR modem's PDP context is looked up and activated first.
AtContextActive ==
  /\ At("dial") /\ asr
  /\ \E o \in Outcomes :
       /\ Command(o, TRUE)
       /\ IF o = "done" THEN Goto(IF modem.context THEN "bind" ELSE "activate")
                        ELSE Failed(o)
  /\ AtCalls /\ UNCHANGED <<devq, modem>>

AtActivate ==
  /\ At("activate")
  /\ \E o \in Outcomes :
       /\ Command(o, modem.reg # "none") /\ Does(o, [modem EXCEPT !.context = TRUE])
       /\ IF o = "done" THEN Goto("bind") ELSE Failed(o)
  /\ AtCalls /\ UNCHANGED devq

\* AT+QNETDEVCTL; the modem accepts it for a call that is up.
AtBind ==
  /\ (At("dial") /\ ~asr) \/ At("bind")
  /\ \E o \in Outcomes, a \in Addresses :
       /\ Styled(o, modem.reg # "none" /\ (modem.asr => modem.context))
       /\ Does(o, IF modem.call # 0 THEN modem
                  ELSE [modem EXCEPT !.call = a,
                          !.bearer = IF modem.apn = "ours" THEN "ours" ELSE "other"])
       /\ IF o = "done" /\ asr THEN SetUp("ok")
          ELSE IF o = "done" THEN pc' = "wait" /\ t' = 0 /\ UNCHANGED back
          ELSE Failed(o)
       /\ devq' = IF o = "done" /\ asr THEN Append(devq, "CALLS") ELSE devq
  /\ AtCalls

\* The modem may answer AT+QNETDEVCTL before the call is up: its state is asked
\* for once a second.
AtWait ==
  /\ At("wait")
  /\ \E o \in Outcomes :
       /\ Styled(o, modem.call # 0)
       /\ CASE ~Heard(o) -> SetUp("negative") /\ UNCHANGED devq
            [] o = "refused" /\ t + 1 < Tries -> t' = t + 1 /\ UNCHANGED <<pc, back, devq>>
            [] OTHER -> SetUp("ok") /\ devq' = Append(devq, "CALLS")
  /\ AtCalls /\ UNCHANGED modem

-----------------------------------------------------------------------------
(* requestQueryDataCall, requestGetIPAddress, requestDeactivateDefaultPDP  *)

AtStatus == AtOnly /\ UNCHANGED <<ps, hold, sigq, devq, devReady>>

\* at_netdevstatus: no answer is no call.
AtQueryStatus ==
  /\ At("query") /\ ~asr
  /\ \E o \in Outcomes : Styled(o, TRUE) /\ Queried(o = "done" /\ modem.call # 0)
  /\ AtStatus /\ UNCHANGED <<addr, modem>>

\* AT+QNETDEVCTL? and AT+CGACT?: bound to the interface, and the context active.
AtQueryBinding ==
  /\ At("query") /\ asr
  /\ \E o \in Outcomes :
       /\ Styled(o, TRUE)
       /\ IF o = "done" /\ modem.call # 0 THEN Goto("active") /\ UNCHANGED st
                                         ELSE Queried(FALSE)
  /\ AtStatus /\ UNCHANGED <<addr, modem>>

AtQueryContext ==
  /\ At("active")
  /\ \E o \in Outcomes : Styled(o, TRUE) /\ Queried(o = "done" /\ modem.context)
  /\ AtStatus /\ UNCHANGED <<addr, modem>>

\* AT+CGPADDR gives the address of the context, bound or not.
AtAddress ==
  IF ~asr THEN modem.call
  ELSE IF modem.context /\ modem.call = 0 THEN 1 ELSE modem.call

AtGetIPAddress ==
  /\ At("address") \/ At("fetch")
  /\ \E o \in Outcomes :
       LET a == IF o = "done" THEN AtAddress ELSE 0
       IN /\ Styled(o, TRUE)
          /\ addr' = IF a # 0 THEN a ELSE addr
          /\ GotAddress(a # 0)
  /\ AtStatus /\ UNCHANGED modem

AtDeactivate ==
  /\ At("deactivate")
  /\ \E o \in Outcomes : Styled(o, TRUE) /\ Does(o, [modem EXCEPT !.call = 0])
  /\ Goto("release")
  /\ AtStatus /\ UNCHANGED <<st, addr>>

AtCommand ==
  \/ AtHandshake \/ AtStyle \/ AtNat \/ AtSetNat \/ AtReboot \/ AtSimStatus
  \/ AtEnterSimPin \/ AtGetProfile \/ AtDefineProfile \/ AtGetContexts \/ AtSetProfile
  \/ AtOperator \/ AtRegistration \/ AtContextActive \/ AtActivate \/ AtBind \/ AtWait
  \/ AtQueryStatus \/ AtQueryBinding \/ AtQueryContext \/ AtGetIPAddress \/ AtDeactivate
=============================================================================
