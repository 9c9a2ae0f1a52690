------------------------------ MODULE QmiSetup ------------------------------
(***************************************************************************)
(* How a session of quectel-CM over QMI sets modem and driver up for a     *)
(* call: multiplexing found in sysfs (qmap_bridge_mode.c), data format,    *)
(* mux binding, SIM, profile, registration, the call itself (QMIThread.c   *)
(* in the order of qmi_main) and the address (udhcpc.c).  An answer may be *)
(* lost, DHCP may fail, and the modem may restart; what the program keeps  *)
(* over a restart is part of the state.                                    *)
(***************************************************************************)
EXTENDS QmuxCodec, Functions

CONSTANTS
  Drivers,           \* by how they tell of multiplexing
  Generations,       \* of modems
  Options,           \* values of -m, 0 for none
  MuxIds,            \* that qmimux's two adapters may have been given, besides Quectel's
  MaxTlvs,           \* bound: TLVs in the modem's account of its network
  MaxFaults,         \* bound: answers lost, DHCP failures, restarts
  MaxSessions        \* bound: sessions

ASSUME BoundsAssumption == MaxFaults \in Nat /\ MaxSessions \in Nat \ {0}

\* -m takes one digit.  Mux ids are of digits up to 9, which is all that is read
\* right; 0x80 would be the adapter "none" of this module.
ASSUME MuxAssumption ==
  /\ Options \subseteq 0..9
  /\ MuxIds \subseteq {16 * h + l : h \in 0..9, l \in 0..9} \ {0, 128}

VARIABLES
  cmd, host, reg,    \* chosen once: command line, driver, network
  pc, session, trouble, faults,
  prof,              \* PROFILE_T: what detection and requests leave in it
  s_9x07, s_is_cdma, ps, sim,
  modem, driver

chosen == <<cmd, host, reg>>
known == <<s_9x07, s_is_cdma, ps, sim>>
vars == <<chosen, pc, session, trouble, faults, prof, known, modem, driver>>

-----------------------------------------------------------------------------
(* The network's account of itself                                         *)

\* Service status and system info TLVs that say something; "other" does not.
Statuses == {"CDMA", "HDR", "GSM", "LTE", "NR5G"}
Infos == {"CDMAinfo", "HDRinfo", "GSMinfo", "LTEinfo", "NR5Ginfo"}
Accounts == UNION {{s \in [1..n -> Statuses \cup Infos \cup {"other"}] :
                      IsInjective(s) /\ Range(s) \cap Infos # {}} : n \in 1..MaxTlvs}

\* requestRegistrationState2 walks the TLVs in the order they come.
NoRegistration == [ps |-> FALSE, lte |-> FALSE, cdma |-> FALSE]
\* Mutant: the network's LTE is not remembered.
ServiceStatus_Forgets(r, tlv) ==
  CASE tlv \in {"CDMA", "HDR"} -> [r EXCEPT !.cdma = ~r.lte]
    [] tlv \in {"LTE", "NR5G"} -> [r EXCEPT !.cdma = FALSE]
    [] OTHER -> r

ServiceStatus(r, tlv) ==
  CASE tlv \in {"CDMA", "HDR"} -> [r EXCEPT !.cdma = ~r.lte]
    [] tlv \in {"LTE", "NR5G"} -> [r EXCEPT !.lte = TRUE, !.cdma = FALSE]
    [] OTHER -> r
SystemInfo(r, tlv) ==
  CASE tlv \in {"CDMAinfo", "HDRinfo"} -> [r EXCEPT !.ps = TRUE, !.cdma = ~r.lte]
    [] tlv \in {"GSMinfo", "NR5Ginfo"} -> [r EXCEPT !.ps = TRUE]
    [] tlv = "LTEinfo" -> [r EXCEPT !.ps = TRUE, !.lte = TRUE, !.cdma = FALSE]
    [] OTHER -> r
requestRegistrationState2(account) ==
  LET seen[n \in 0..Len(account)] ==
        IF n = 0 THEN NoRegistration
        ELSE SystemInfo(ServiceStatus(seen[n - 1], account[n]), account[n])
  IN seen[Len(account)]

\* What the account means, whatever its order.
Says(kinds) == Range(reg) \cap kinds # {}
IsCdma == Says({"CDMA", "HDR", "CDMAinfo", "HDRinfo"}) /\ ~Says({"LTE", "NR5G", "LTEinfo"})

-----------------------------------------------------------------------------
(* The modem                                                               *)

NoCall == [tech |-> 0]
Blank == [apn |-> "", user |-> "", password |-> "", auth |-> 0, iptype |-> 0]
Another == [Blank EXCEPT !.apn = "3gnet", !.iptype = 3]
NoProfile == [Blank EXCEPT !.iptype = -1]
DefaultLink(gen) == IF gen = "old" THEN "eth" ELSE "ip"
Booted(gen, card, profile, busy) ==
  [gen |-> gen, card |-> card, pin |-> IF card = "locked" THEN "locked" ELSE card,
   link |-> DefaultLink(gen), qmap |-> ~host.wda, mux |-> [s \in {"WDS", "WDS6"} |-> 0],
   family |-> [s \in {"WDS", "WDS6"} |-> 0], profile |-> profile, busy |-> busy,
   attached |-> FALSE, call |-> NoCall, loop |-> "off", confused |-> FALSE]

Ok(m, tlvs) == [modem |-> m, err |-> "ok", tlvs |-> tlvs]
Refused(err) == [modem |-> modem, err |-> err, tlvs |-> <<>>]
Value(m, type) == GetTLV(m.tlvs, type).val
Number(m, type) == IF GetTLV(m.tlvs, type).len = 0 THEN 0 ELSE Value(m, type)

\* A modem of the old generation speaks Ethernet and not UIM, and the "both"
\* generation speaks what it is asked to.
SetLink(m) ==
  LET link == CASE modem.gen = "old" -> "eth" [] modem.gen = "new" -> "ip" [] OTHER -> Value(m, 17)
  IN Ok([modem EXCEPT !.link = link, !.qmap = Value(m, 19) # 0], <<U32(17, link)>>)

TryPin(m) ==
  LET pin == Value(m, IF m.service = "UIM" THEN 2 ELSE 1)
  IN IF modem.pin = "locked" /\ pin = "1234"
     THEN Ok([modem EXCEPT !.pin = "ready"], <<>>)
     ELSE Refused("pin")

StartCall(m) ==
  IF modem.pin = "ready" /\ (modem.attached \/ modem.loop = "on")
  THEN Ok([modem EXCEPT !.call = [tech |-> Value(m, 48), apn |-> Value(m, 20), user |-> Value(m, 23),
             password |-> Value(m, 24), auth |-> Number(m, 22), family |-> Value(m, 25),
             pdp |-> Number(m, 49), mux |-> modem.mux[m.service], service |-> m.service]], <<U32(1, "handle")>>)
  ELSE Refused("call")

Serving == <<[type |-> 1, len |-> 6, val |-> IF ~modem.attached THEN "detached" ELSE IF IsCdma THEN "cdma" ELSE "3gpp"]>>

Reply(m) ==
  IF ~Readable(m)
  THEN [modem |-> [modem EXCEPT !.confused = TRUE], err |-> "malformed", tlvs |-> <<>>]
  ELSE IF m.service = "UIM" /\ modem.gen = "old" THEN Refused("invalid")
  ELSE
  CASE m.req = "SetDataFormat" -> SetLink(m)
    [] m.req = "BindMux" -> Ok([modem EXCEPT !.mux[m.service] = Value(m, 17)], <<>>)
    [] m.req = "FamilyPref" -> Ok([modem EXCEPT !.family[m.service] = Value(m, 1)], <<>>)
    [] m.req = "AutoConnect" -> Ok(modem, <<>>)
    [] m.req = "SetLoopBack" -> IF modem.gen = "both" THEN Refused("invalid")
                                ELSE Ok([modem EXCEPT !.loop = "pending"], <<>>)
    [] m.req = "CardStatus" -> IF modem.busy THEN [Refused("unsupported") EXCEPT !.modem.busy = FALSE]
                               ELSE Ok(modem, <<[type |-> 16, len |-> 30, val |-> modem.pin]>>)
    [] m.req = "UimState" -> IF modem.busy THEN [Refused("unsupported") EXCEPT !.modem.busy = FALSE]
                             ELSE Ok(modem, <<U8(1, modem.pin)>>)
    [] m.req = "PinStatus" -> Ok(modem, <<[type |-> 17, len |-> 3, val |-> modem.pin]>>)
    [] m.req = "VerifyPin" -> TryPin(m)
    [] m.req = "GetProfile" -> IF modem.profile = NoProfile THEN Refused("extended")
                               ELSE Ok(modem, <<[type |-> 1, len |-> 0, val |-> modem.profile]>>)
    [] m.req = "CreateProfile" -> Ok([modem EXCEPT !.profile = Blank], <<>>)
    [] m.req = "ModifyProfile" ->
         Ok([modem EXCEPT !.profile = [apn |-> Value(m, 20), user |-> Value(m, 27),
               password |-> Value(m, 28), auth |-> Value(m, 29), iptype |-> Value(m, 17)]], <<>>)
    [] m.req = "SysInfo" -> IF modem.gen = "old" THEN Refused("invalid")
                            ELSE Ok(modem, IF modem.attached THEN reg ELSE <<"other">>)
    [] m.req = "ServingSystem" -> Ok(modem, Serving)
    [] m.req = "StartNw" -> StartCall(m)
    [] m.req = "RuntimeSettings" -> Ok(modem, <<U32(30, "address")>>)

\* An answer that does not come costs a fault, whether the modem acted or not.
Outcomes(m) ==
  LET r == Reply(m)
  IN {[r |-> r, cost |-> 0]}
     \cup {[r |-> [modem |-> w, err |-> "timeout", tlvs |-> <<>>], cost |-> 1] :
            w \in IF faults < MaxFaults THEN {modem, r.modem} ELSE {}}

\* One request of the program: out, of the Outcomes(m), is how it ends.
Request(m, out) ==
  /\ modem' = out.r.modem
  /\ faults' = faults + out.cost
  /\ trouble' = IF out.r.err = "timeout" THEN trouble \cup {m.req} ELSE trouble
  /\ UNCHANGED <<chosen, session, driver>>

Bare(service, req) == Filled(service, req, <<>>, <<>>)
Goto(label) == pc' = label
-----------------------------------------------------------------------------
(* Multiplexing, as the driver tells of it                                 *)

\* The ids of the driver's two adapters: 0x81 and 0x82 with Quectel's drivers, any
\* with qmimux, where the user chooses them.
Quectels == <<129, 130>>
Tables == {Quectels} \cup {t \in [1..2 -> MuxIds] : t[1] # t[2]}
Muxes == host.table
AdapterMux(a) == CASE host.driver = "sysfs" -> 128 + a
                   [] host.driver # "sysfs" /\ a \in DOMAIN Muxes -> Muxes[a]
                   [] OTHER -> -1

\* The table is indexed without a check: beyond it lies whatever lies there.
Beyond == {0, 255}
MuxAt(i) == IF i \in DOMAIN Muxes THEN {Muxes[i]} ELSE Beyond
Indexed == IF prof.muxid = 0 THEN cmd.pdp ELSE prof.muxid - 128

Multiplexed(mode, mux, adapter) ==
  prof' = [prof EXCEPT !.qmap = mode, !.muxid = mux, !.adapter = adapter]

DetectRmnet ==
  /\ host.driver = "rmnet"
  /\ LET i == IF host.mode = 1 THEN 1 ELSE Indexed
     IN \E mux \in MuxAt(i) : Multiplexed(host.mode, mux, i)

\* Mutant: the PDN's number is taken for the mux id.
DetectSysfs_Bare ==
  /\ host.driver = "sysfs"
  /\ LET mux == IF host.mode = 1 THEN 129 ELSE cmd.pdp IN Multiplexed(host.mode, mux, mux - 128)

DetectSysfs ==
  /\ host.driver = "sysfs"
  /\ LET mux == CASE host.mode = 1 -> 129
                  [] host.mode > 1 /\ prof.muxid = 0 -> cmd.pdp + 128
                  [] OTHER -> prof.muxid
     IN Multiplexed(host.mode, mux, mux - 128)

\* Mutant: the adapter is named after the PDN, whatever -m says.
DetectQmimux_ByPdn ==
  /\ host.driver = "qmimux"
  /\ IF host.mode = 1 THEN Multiplexed(1, Muxes[1], 1)
     ELSE \E mux \in MuxAt(Indexed) : Multiplexed(2, mux, cmd.pdp)

\* With -m, and from the second session on, the adapter is named after the
\* mux id just read and not after the place it was read from.
DetectQmimux ==
  /\ host.driver = "qmimux"
  /\ IF host.mode = 1 THEN Multiplexed(1, Muxes[1], 1)
     ELSE \E mux \in MuxAt(Indexed) :
            Multiplexed(2, mux, IF prof.muxid = 0 THEN cmd.pdp ELSE mux - 128)

Detect ==
  /\ pc = "detect" /\ Goto("format")
  /\ \/ DetectRmnet \/ DetectSysfs \/ DetectQmimux
     \/ host.driver = "none" /\ UNCHANGED prof
  /\ UNCHANGED <<chosen, session, trouble, faults, known, modem, driver>>

-----------------------------------------------------------------------------
(* requestSetEthMode: what fails ends it, and qmi_main goes on regardless  *)

Qmap == prof.qmap # 0
Done(out, next) == Goto(IF out.r.err = "ok" THEN next ELSE "loopback")

SkipDataFormat ==
  /\ pc = "format" /\ Qmap /\ ~host.wda /\ Goto("bind4")
  /\ prof' = [prof EXCEPT !.rawIP = TRUE] /\ s_9x07' = TRUE
  /\ UNCHANGED <<chosen, session, trouble, faults, s_is_cdma, ps, sim, modem, driver>>

SetDataFormat ==
  /\ pc = "format" /\ ~(Qmap /\ ~host.wda)
  /\ \E out \in Outcomes(WdaSetDataFormat(Qmap, 5)) :
       LET told == GetTLV(out.r.tlvs, 17)
           raw == IF told # Absent THEN told.val = "ip" ELSE Qmap
       IN /\ Request(WdaSetDataFormat(Qmap, 5), out) /\ Done(out, "bind4")
          /\ prof' = [prof EXCEPT !.rawIP = IF told # Absent \/ Qmap THEN raw ELSE @]
          /\ s_9x07' = IF told # Absent \/ Qmap THEN raw ELSE s_9x07
  /\ UNCHANGED <<s_is_cdma, ps, sim>>

\* The data port of a family is bound when there is an adapter to bind it to.
Bind(label, next, service, wanted) ==
  /\ pc = label
  /\ IF wanted /\ prof.adapter # 0
     THEN LET m == WdsSetQMUXBindMuxDataPort(service, prof.muxid)
          IN \E out \in Outcomes(m) : Request(m, out) /\ Done(out, next)
     ELSE Goto(next) /\ UNCHANGED <<chosen, session, trouble, faults, modem, driver>>
  /\ UNCHANGED <<prof, known>>

IPv6 == cmd.family = 46
Bind4 == Bind("bind4", "pref4", "WDS", TRUE)
Bind6 == Bind("bind6", "pref6", "WDS6", IPv6)

Prefer4 ==
  /\ pc = "pref4" /\ Goto("bind6")
  /\ \E out \in Outcomes(WdsSetClientIPFamilyPref("WDS", 4)) :
       Request(WdsSetClientIPFamilyPref("WDS", 4), out)
  /\ UNCHANGED <<prof, known>>

Prefer6 ==
  /\ pc = "pref6"
  /\ IF IPv6
     THEN \E out \in Outcomes(WdsSetClientIPFamilyPref("WDS6", 6)) :
            Request(WdsSetClientIPFamilyPref("WDS6", 6), out) /\ Done(out, "auto")
     ELSE Goto("auto") /\ UNCHANGED <<chosen, session, trouble, faults, modem, driver>>
  /\ UNCHANGED <<prof, known>>

AutoConnect ==
  /\ pc = "auto" /\ Goto("loopback")
  /\ \E out \in Outcomes(WdsSetAutoConnect(0)) : Request(WdsSetAutoConnect(0), out)
  /\ UNCHANGED <<prof, known>>

-----------------------------------------------------------------------------
(* Loopback, SIM and profile                                               *)

\* Unless the modem refuses the command, its indication is waited for.
LoopBack ==
  /\ pc = "loopback" /\ Goto("sim")
  /\ IF prof.loopback
     THEN \E out \in Outcomes(WdaSetLoopBackReq(1)) :
            /\ Request(WdaSetLoopBackReq(1), out)
            /\ prof' = [prof EXCEPT !.loopback = (out.r.err = "invalid")]
     ELSE UNCHANGED <<chosen, session, trouble, faults, modem, driver, prof>>
  /\ UNCHANGED known

SimState(pin) == CASE pin = "ready" -> "SIM_READY" [] pin = "locked" -> "SIM_PIN"
                   [] pin = "puk" -> "SIM_PUK" [] OTHER -> "SIM_ABSENT"

GetSIMStatus ==
  /\ pc = "sim"
  /\ LET m == Bare(IF s_9x07 THEN "UIM" ELSE "DMS", IF s_9x07 THEN "CardStatus" ELSE "UimState")
         said(out) == Value(out.r, IF s_9x07 THEN 16 ELSE 1)
         locked(out) == ~s_9x07 /\ said(out) \in {"locked", "puk"}
     IN \E out \in Outcomes(m) :
          /\ Request(m, out)
          /\ sim' = IF out.r.err # "ok" THEN sim
                    ELSE IF locked(out) THEN "SIM_ABSENT" ELSE SimState(said(out))
          /\ pc' = CASE out.r.err = "unsupported" -> "sim"
                     [] out.r.err = "ok" /\ locked(out) -> "pinstatus"
                     [] OTHER -> "pin"
  /\ UNCHANGED <<prof, s_9x07, s_is_cdma, ps>>

GetPINStatus ==
  /\ pc = "pinstatus" /\ Goto("pin")
  /\ \E out \in Outcomes(Bare("DMS", "PinStatus")) :
       /\ Request(Bare("DMS", "PinStatus"), out)
       /\ sim' = IF out.r.err = "ok" THEN SimState(Value(out.r, 17)) ELSE sim
  /\ UNCHANGED <<prof, s_9x07, s_is_cdma, ps>>

EnterSimPin ==
  /\ pc = "pin" /\ Goto("getprofile")
  /\ IF sim = "SIM_PIN" /\ cmd.pin # Null
     THEN LET m == IF s_9x07 THEN UimVerifyPinReqSend(cmd.pin) ELSE DmsUIMVerifyPinReqSend(cmd.pin)
          IN \E out \in Outcomes(m) : Request(m, out)
     ELSE UNCHANGED <<chosen, session, trouble, faults, modem, driver>>
  /\ UNCHANGED <<prof, known>>

IpType == IF IPv6 THEN 3 ELSE 0

\* A profile that is not there is made, and asked for again.
GetProfile ==
  /\ pc = "getprofile"
  /\ LET m == WdsGetProfileSettingsReqSend(cmd.pdp)
     IN \E out \in Outcomes(m) :
          /\ Request(m, out)
          /\ prof' = [prof EXCEPT !.iptype = IpType, !.old = IF out.r.err = "ok" THEN Value(out.r, 1) ELSE Blank]
          /\ Goto(IF out.r.err = "extended" THEN "create" ELSE "setprofile")
  /\ UNCHANGED known

CreateProfile ==
  /\ pc = "create"
  /\ LET m == WdsCreateProfileSettingsReqSend(cmd.pdp)
     IN \E out \in Outcomes(m) :
          Request(m, out) /\ Goto(IF out.r.err = "ok" THEN "getprofile" ELSE "setprofile")
  /\ UNCHANGED <<prof, known>>

Wanted == [apn |-> cmd.apn, user |-> cmd.user, password |-> cmd.password,
           auth |-> cmd.auth, iptype |-> prof.iptype]

SetProfile ==
  /\ pc = "setprofile" /\ Goto("registration")
  /\ IF cmd.apn = Null \/ prof.old = Wanted
     THEN UNCHANGED <<chosen, session, trouble, faults, modem, driver>>
     ELSE \E m \in {WdsModifyProfileSettingsReq(cmd, prof.iptype)} :
            \E out \in Outcomes(m) : Request(m, out)
  /\ UNCHANGED <<prof, known>>
-----------------------------------------------------------------------------
(* Registration and the call                                               *)

GetSysInfo ==
  LET m == Bare("NAS", "SysInfo")
  IN \E out \in Outcomes(m) :
       LET r == requestRegistrationState2(out.r.tlvs)
       IN /\ Request(m, out)
          /\ ps' = (out.r.err = "ok" /\ r.ps)
          /\ s_is_cdma' = IF out.r.err = "ok" THEN r.cdma ELSE s_is_cdma

GetServingSystem ==
  LET m == Bare("NAS", "ServingSystem")
  IN \E out \in Outcomes(m) :
       /\ Request(m, out)
       /\ ps' = IF out.r.err = "ok" THEN Value(out.r, 1) # "detached" ELSE ps
       /\ s_is_cdma' = IF out.r.err = "ok" THEN Value(out.r, 1) = "cdma" ELSE s_is_cdma

\* Mutant: the loop does not ask again.
RegistrationState_Once ==
  /\ pc = "registration" /\ Goto("loop")
  /\ IF s_9x07 THEN GetSysInfo ELSE GetServingSystem
  /\ UNCHANGED <<prof, s_9x07, sim>>

\* Once before the loop, and by the loop's checks for as long as there is no service.
RegistrationState ==
  /\ pc = "registration" \/ (pc = "loop" /\ ~ps)
  /\ Goto("loop")
  /\ IF s_9x07 THEN GetSysInfo ELSE GetServingSystem
  /\ UNCHANGED <<prof, s_9x07, sim>>

LoopBackInd ==
  /\ pc = "loop" /\ modem.loop = "pending"
  /\ modem' = [modem EXCEPT !.loop = "on"]
  /\ prof' = [prof EXCEPT !.loopback = TRUE]
  /\ UNCHANGED <<chosen, pc, session, trouble, faults, known, driver>>

SetupDataCall ==
  /\ pc = "loop" /\ (ps \/ prof.loopback)
  /\ \E m \in {WdsStartNwInterfaceReq("WDS", cmd, s_is_cdma, 4)} :
       \E out \in Outcomes(m) :
          Request(m, out) /\ Goto(IF out.r.err = "ok" THEN "address" ELSE "loop")
  /\ UNCHANGED <<prof, known>>

\* Without an answer the call counts as disconnected and is dialled again.
GetIPAddress ==
  /\ pc = "address"
  /\ \E out \in Outcomes(WdsGetRuntimeSettingReq("WDS")) :
       Request(WdsGetRuntimeSettingReq("WDS"), out) /\ Goto(IF out.r.err = "ok" THEN "dhcp" ELSE "loop")
  /\ UNCHANGED <<prof, known>>

-----------------------------------------------------------------------------
(* The address                                                             *)

\* Driver and modem frame packets alike.
Framed == IF Qmap THEN modem.qmap ELSE driver = (IF modem.link = "ip" THEN "raw" ELSE "eth")

\* Mutant: the driver stays as it is.
udhcpc_start_Stays ==
  /\ pc = "dhcp" /\ Goto("up")
  /\ UNCHANGED <<chosen, session, trouble, faults, prof, known, modem, driver>>

\* DHCP that brings no address switches a driver that is in Ethernet mode, once
\* and for all; the address is configured from the modem's if need be.
udhcpc_start ==
  /\ pc = "dhcp" /\ Goto("up")
  /\ \E luck \in {TRUE} \cup {faults = MaxFaults} :
       /\ faults' = IF luck THEN faults ELSE faults + 1
       /\ trouble' = IF luck \/ ~Framed THEN trouble ELSE trouble \cup {"dhcp"}
       /\ driver' = IF driver = "eth" /\ ~(luck /\ Framed) THEN "raw" ELSE driver
  /\ UNCHANGED <<chosen, session, prof, known, modem>>

-----------------------------------------------------------------------------
(* The modem's own steps, and a restart of it                              *)

Attach ==
  /\ modem.pin = "ready" /\ ~modem.attached
  /\ modem' = [modem EXCEPT !.attached = TRUE]
  /\ UNCHANGED <<chosen, pc, session, trouble, faults, prof, known, driver>>

\* The driver is probed again, or stays when only the modem's clients are revoked.
\* "stuck" is a driver that a lost answer or a failed DHCP has left in raw mode.
Restart ==
  /\ pc # "detect" /\ session < MaxSessions /\ faults < MaxFaults
  /\ session' = session + 1 /\ faults' = faults + 1
  /\ driver' \in {driver, IF host.driver = "none" THEN "eth" ELSE "raw"}
  /\ trouble' = IF driver' = "raw" /\ trouble \cap {"dhcp", "SetDataFormat", "stuck"} # {}
                THEN {"stuck"} ELSE {}
  /\ \E busy \in BOOLEAN : modem' = Booted(modem.gen, modem.card, modem.profile, busy)
  /\ Goto("detect") /\ ps' = FALSE /\ sim' = "SIM_ABSENT"
  /\ UNCHANGED <<chosen, prof, s_9x07, s_is_cdma>>

-----------------------------------------------------------------------------
(* The specification                                                       *)

\* Strings have lengths.
Texts == {Null, "", "3gnet", "carl", "1234", "4321"}
ASSUME TextAssumption == \A s \in Texts \cup {"ctnet@mycdma.cn", "vnet.mobi"} : Len(s) \in Nat

Credentials ==
  {[apn |-> Null, user |-> Null, password |-> Null, auth |-> 0],
   [apn |-> "3gnet", user |-> "", password |-> "", auth |-> 0],
   [apn |-> "3gnet", user |-> "carl", password |-> "1234", auth |-> 2]}
Plain == [apn |-> "3gnet", user |-> "", password |-> "", auth |-> 0,
          pdp |-> 1, mux |-> 0, pin |-> Null, family |-> 4, loopback |-> FALSE]
Given(d, pin) == [Plain EXCEPT !.apn = d.apn, !.user = d.user, !.password = d.password,
                              !.auth = d.auth, !.pin = pin]
NoQmap == [driver |-> "none", mode |-> 0, wda |-> TRUE, table |-> Quectels]
Hosts == {NoQmap} \cup
  {h \in [driver : Drivers \ {"none"}, mode : 1..2, wda : BOOLEAN, table : Tables] :
     (~h.wda => h.driver = "sysfs") /\ (h.table # Quectels => h.driver = "qmimux")}

\* Three families: what is set up, for whom, and in which network.
Ways == [family : {4}, loopback : BOOLEAN] \cup {[family |-> 46, loopback |-> FALSE]}
Setup(p, o, h, g, v) ==
  [cmd |-> [Plain EXCEPT !.pdp = p, !.mux = o, !.family = v.family, !.loopback = v.loopback],
   host |-> h, reg |-> <<"LTEinfo">>, gen |-> g, card |-> "ready", profile |-> Blank]
SetupCases ==
  {Setup(p, o, h, g, v) : p \in 1..2, o \in Options, h \in Hosts, g \in Generations, v \in Ways}
SimCases ==
  {[cmd |-> c, host |-> NoQmap, reg |-> <<"LTEinfo">>, gen |-> g, card |-> k, profile |-> r] :
   c \in {Given(d, "1234") : d \in Credentials} \cup {[Plain EXCEPT !.pin = p] : p \in {Null, "4321"}},
   g \in Generations \ {"both"}, k \in {"ready", "locked", "puk", "absent"}, r \in {NoProfile, Another}}
NetCases ==
  {[cmd |-> [c EXCEPT !.pdp = 2], host |-> NoQmap, reg |-> a, gen |-> g, card |-> "ready", profile |-> Blank] :
   c \in {Plain, [Plain EXCEPT !.user = "carl"]}, a \in Accounts, g \in Generations \cap {"new"}}
  \cup {[cmd |-> Plain, host |-> NoQmap, reg |-> <<a>>, gen |-> "old", card |-> "ready", profile |-> Blank] :
         a \in Infos}

\* qmimux has an adapter for the PDN, or else there is no QMAP.  Bound: tables and -m
\* beyond Quectel's are combined with IPv4 and no loopback only.
Considered(case) ==
  /\ case.host.driver = "qmimux" => case.cmd.pdp <= case.host.mode
  /\ case.host.table # Quectels \/ case.cmd.mux > 2 => case.cmd.family = 4 /\ ~case.cmd.loopback

Init ==
  /\ \E case \in SetupCases \cup SimCases \cup NetCases :
       /\ case.gen = "old" => case.host = NoQmap
       /\ Considered(case)
       /\ cmd = case.cmd /\ host = case.host /\ reg = case.reg
       /\ modem = Booted(case.gen, case.card, case.profile, FALSE)
  /\ pc = "detect" /\ session = 1 /\ trouble = {} /\ faults = 0
  /\ prof = [qmap |-> 0, muxid |-> IF cmd.mux = 0 THEN 0 ELSE cmd.mux + 128, adapter |-> 0,
             rawIP |-> FALSE, loopback |-> cmd.loopback, old |-> Blank, iptype |-> 0]
  /\ s_9x07 = TRUE /\ s_is_cdma = FALSE /\ ps = FALSE /\ sim = "SIM_ABSENT"
  /\ driver = IF host.driver = "none" THEN "eth" ELSE "raw"

SetEthMode == SkipDataFormat \/ SetDataFormat \/ Bind4 \/ Prefer4 \/ Bind6 \/ Prefer6 \/ AutoConnect
SetSim == GetSIMStatus \/ GetPINStatus \/ EnterSimPin
SetApn == GetProfile \/ CreateProfile \/ SetProfile
Program == \/ Detect \/ SetEthMode \/ LoopBack \/ SetSim \/ SetApn
           \/ RegistrationState \/ SetupDataCall \/ GetIPAddress \/ udhcpc_start
Next == Program \/ LoopBackInd \/ Attach \/ Restart

Spec == Init /\ [][Next]_vars
LiveSpec == Spec /\ WF_vars(Program) /\ WF_vars(SetupDataCall) /\ WF_vars(LoopBackInd) /\ WF_vars(Attach)

-----------------------------------------------------------------------------
(* Properties                                                              *)

Labels == {"detect", "format", "bind4", "pref4", "bind6", "pref6", "auto", "loopback", "sim", "pinstatus",
           "pin", "getprofile", "create", "setprofile", "registration", "loop", "address", "dhcp", "up"}

\* Whether the table of mux ids is read where it is meant to be: its place is computed
\* from a mux id, for -m and from the second session on, as if the ids were Quectel's.
Located ==
  \/ host.driver \in {"none", "sysfs"} \/ host.mode = 1
  \/ host.table = Quectels /\ cmd.mux <= 2
  \/ session = 1 /\ cmd.mux = 0

\* The state of the set-up: where qmi_main is and what detection left in PROFILE_T.
TypeOK ==
  /\ pc \in Labels /\ session \in 1..MaxSessions /\ faults \in 0..MaxFaults
  /\ prof.muxid \in 0..255 /\ prof.qmap \in 0..2
  /\ prof.adapter \in (IF Located THEN 0..9 ELSE -128..127)
  /\ {s_9x07, s_is_cdma, ps, prof.rawIP, prof.loopback} \subseteq BOOLEAN
  /\ sim \in {"SIM_ABSENT", "SIM_READY", "SIM_PIN", "SIM_PUK"}
  /\ driver \in {"eth", "raw"}

\* The modem can read every request: each field lies where the lengths say, in the
\* struct-laid messages and behind the variable ones (the composers of QMIThread.c
\* over MPQMUX.h).
Understood == ~modem.confused

\* Once the interface is up driver and modem frame packets alike, through restarts
\* and whatever the modem made of requestSetEthMode, even when its answer was lost
\* (ql_raw_ip_mode_check); a failed DHCP, and a lost answer with QMAP, excepted.
FramingAgrees ==
  pc = "up" /\ trouble \cap {"dhcp", "stuck"} = {} /\ (Qmap => "SetDataFormat" \notin trouble)
    => Framed

\* The call's data port is bound to the mux id that was found, and that is the one
\* the driver has for the adapter that is brought up, also after a restart and with
\* -m: unless the table was read at the wrong place.
BoundToAdapter ==
  modem.call # NoCall /\ trouble \cap {"SetDataFormat", "BindMux"} = {} =>
    /\ modem.call.mux = (IF Qmap THEN prof.muxid ELSE 0)
    /\ Qmap /\ Located => prof.muxid = AdapterMux(prof.adapter)

\* The call is the one asked for, of the technology the network is of in whatever
\* order it gives its account: APN and profile are for 3GPP only, and a CDMA call
\* without credentials gets the default ones.  And the profile of the command line
\* is in the modem, whether it was missing, different or right, unless a request for
\* it went unanswered.
CallAsAsked ==
  modem.call # NoCall /\ ~cmd.loopback =>
    /\ modem.call.tech = (IF IsCdma THEN 2 ELSE 1)
    /\ modem.call.apn = (IF IsCdma THEN Null ELSE cmd.apn)
    /\ modem.call.pdp = (IF IsCdma THEN 0 ELSE cmd.pdp)
    /\ modem.call.user = (IF IsCdma /\ Empty(cmd.user) THEN "ctnet@mycdma.cn" ELSE cmd.user)
    /\ cmd.apn # Null /\ trouble \cap {"GetProfile", "CreateProfile", "ModifyProfile"} = {}
         => modem.profile = Wanted

\* With a SIM that stays usable the link comes up, whatever was lost on the way, as
\* long as the program speaks to the modem's generation (s_9x07).
Suited == (modem.gen = "old") # s_9x07
LinkComesUp == <>[](modem.pin = "ready" /\ Suited) => []<>(pc = "up")

=============================================================================
