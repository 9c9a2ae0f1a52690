--------------------------- MODULE DiallingProofs ---------------------------
(***************************************************************************)
(* Proofs about Dialling: for either kind of modem, with a proxy or        *)
(* without, for any number of tries, faults and stops.                     *)
(***************************************************************************)
EXTENDS Dialling, TLAPS

USE DEF main, status, profile, mbim, iface, queues, device, world

\* The initialisation, before the registration is asked for.
Starting ==
  {"handshake", "style", "nat", "setnat", "reboot", "sim", "pin", "profile", "define",
   "contexts", "store", "storeContext", "configure", "open", "caps", "services", "version",
   "radio", "simSeen"}

\* requestRegistrationState, of either kind of modem.
Registering == {"reg", "creg", "regSeen", "packet", "packetSeen", "attach", "attachSeen"}

\* An event is handled, or still to be handled after a signal or a query of the
\* registration, only if poll() has reported one.
EventInv ==
  /\ pc = "event" \/ devReady => devq # <<>>
  /\ pc \in Starting \cup {"connect", "poll", "event"} => ~devReady
  /\ pc \in Registering /\ back # "check" => ~devReady

\* Nothing went wrong so far, and nobody stopped the program.
Calmly == faults = MaxFaults /\ stops = mode.stops

\* A device thread that has left says so last, in a session that goes on; without a
\* fault a session begins without a word of one.
GoneInv ==
  /\ SessionOpen => \A i \in DOMAIN devq : devq[i] = "DISCONNECTED" => reader # "run"
  /\ pc = "connect" => reader = "none" /\ (Calmly => devq = <<>>)

\* No device thread outlives its session without a fault, and none of an MBIM modem:
\* there the process ends with the session.
LeftInv ==
  /\ Calmly => /\ left = {} /\ reader \notin {"deaf", "cut"}
               /\ mode.ops = "at" /\ pc \in {"begin", "after"} => reader # "run"
  /\ mode.ops = "mbim" => /\ left = {} /\ reader \notin {"deaf", "cut"} /\ ~restart
                          /\ pc = "begin" => reader # "run"

\* Where main is before a modem can have been told to restart in this session.
Early == {"begin", "connect", "handshake", "style", "nat", "setnat", "reboot",
          "quit", "join", "after", "exited"}

\* Nobody stops the program.
NoStop ==
  /\ ctl = {} /\ ~drain /\ sigq \in Seq({"START", "CHECK"})
  /\ pc \notin {"STOP", "deactivate", "downSeen", "release", "close"}

\* A modem that is about to restart was told to in this session, whose device
\* thread is still there.
BootInv ==
  /\ modem.booting => modem.present /\ mode.ops = "at"
  /\ Calmly => /\ modem.booting => reader = "run" /\ pc \notin Early
               /\ pc \in {"handshake", "style", "nat", "setnat", "reboot"} => Reachable

\* Restarts ordered, and the one that is about to be.
Restarts == reboots + (IF pc = "reboot" THEN 1 ELSE 0)

\* The NAT mode is changed, and the modem restarted, only towards what the style
\* asks for; and the style is found out to be another at most once, by mistake.
RestartInv ==
  /\ reboots \in Nat
  /\ modem.asr /\ ~asr => reboots = 0 /\ pc \notin {"nat", "setnat", "reboot"}
  /\ pc = "setnat" => modem.nat # asr
  /\ pc = "reboot" => modem.nat = asr
  /\ Restarts <= (IF modem.nat = asr THEN 1 ELSE 0) + (IF asr /\ ~Calmly THEN 1 ELSE 0)

-----------------------------------------------------------------------------
(* Types                                                                   *)

\* A command costs at most one of the faults that are left.
LEMMA CommandType ==
  ASSUME Types, NEW o, NEW can, Command(o, can)
  PROVE  faults' \in 0..MaxFaults
BY RequestAssumption DEF Command, Types

\* So does one that the modems of the two styles write differently.
LEMMA StyledType ==
  ASSUME Types, NEW o, NEW can, Styled(o, can)
  PROVE  faults' \in 0..MaxFaults
BY CommandType DEF Styled, Types

\* And everything that goes wrong without a command.
LEMMA FaultyType == ASSUME Types, Faulty PROVE faults' \in 0..MaxFaults
BY RequestAssumption DEF Faulty, Types

\* A modem with one field changed is one.
LEMMA FieldType ==
  ASSUME NEW m \in Modem, NEW b \in BOOLEAN, NEW a \in Addresses \cup {0}
  PROVE  /\ [m EXCEPT !.nat = b] \in Modem
         /\ [m EXCEPT !.booting = b] \in Modem
         /\ [m EXCEPT !.context = b] \in Modem
         /\ [m EXCEPT !.open = b] \in Modem
         /\ [m EXCEPT !.present = b] \in Modem
         /\ [m EXCEPT !.call = a] \in Modem
         /\ [m EXCEPT !.sim = "entered"] \in Modem
         /\ [m EXCEPT !.apn = "other"] \in Modem
         /\ [m EXCEPT !.apn = "ours"] \in Modem
         /\ [m EXCEPT !.reg = "home"] \in Modem
         /\ [m EXCEPT !.reg = "attached"] \in Modem
BY DEF Modem

\* A call that comes up has an address and belongs to a profile.
LEMMA CallType ==
  ASSUME NEW m \in Modem, NEW a \in Addresses \cup {0}
  PROVE  /\ [m EXCEPT !.call = a, !.bearer = "ours"] \in Modem
         /\ [m EXCEPT !.call = a, !.bearer = "other"] \in Modem
BY DEF Modem

\* A call ends, with its context or with the MBIM function.
LEMMA CallEndsType ==
  ASSUME NEW m \in Modem
  PROVE  /\ [m EXCEPT !.call = 0] \in Modem
         /\ [m EXCEPT !.call = 0, !.context = FALSE] \in Modem
         /\ [m EXCEPT !.call = 0, !.open = FALSE] \in Modem
         /\ [m EXCEPT !.open = FALSE, !.call = 0] \in Modem
<1>. DEFINE n == [m EXCEPT !.call = 0]
<1>1. n \in Modem BY DEF Modem
<1>2. /\ [m EXCEPT !.call = 0, !.context = FALSE] = [n EXCEPT !.context = FALSE]
      /\ [m EXCEPT !.call = 0, !.open = FALSE] = [n EXCEPT !.open = FALSE]
      /\ [m EXCEPT !.open = FALSE, !.call = 0] = [n EXCEPT !.open = FALSE]
  BY DEF Modem
<1>0. [m EXCEPT !.call = 0] \in Modem BY <1>1
<1>. HIDE DEF n
<1>3. [n EXCEPT !.context = FALSE] \in Modem /\ [n EXCEPT !.open = FALSE] \in Modem
  BY <1>1 DEF Modem
<1>. QED BY <1>0, <1>2, <1>3

\* The network is lost, and the call with it.
LEMMA DetachedType ==
  ASSUME NEW m \in Modem
  PROVE  [m EXCEPT !.reg = "none", !.call = 0, !.context = FALSE] \in Modem
<1>. DEFINE r == [m EXCEPT !.reg = "none"]
<1>1. r \in Modem BY DEF Modem
<1>2. [m EXCEPT !.reg = "none", !.call = 0, !.context = FALSE]
        = [r EXCEPT !.call = 0, !.context = FALSE]
  BY DEF Modem
<1>. HIDE DEF r
<1>. QED BY <1>1, <1>2, CallEndsType

\* The modem switched off.
LEMMA OffType == ASSUME Types PROVE Off \in Modem
<1>. DEFINE a == [modem EXCEPT !.reg = "none", !.call = 0, !.context = FALSE]
            b == [a EXCEPT !.present = FALSE, !.open = FALSE, !.booting = FALSE]
<1>1. modem \in Modem BY DEF Types
<1>2. a \in Modem BY <1>1, DetachedType
<1>3. Off = [b EXCEPT !.sim = IF modem.sim = "entered" THEN "pin" ELSE modem.sim]
  BY <1>1 DEF Off, Modem
<1>4. modem.sim \in {"ready", "pin", "entered"} BY <1>1 DEF Modem
<1>. HIDE DEF a
<1>5. b \in Modem BY <1>2 DEF Modem
<1>. HIDE DEF b
<1>. QED BY <1>3, <1>4, <1>5 DEF Modem

\* What the modem reports of a state.
LEMMA ReportType ==
  ASSUME Types, NEW m \in Modem
  PROVE  /\ [seen EXCEPT !["ready"] = Said(m)["ready"]] \in States
         /\ [seen EXCEPT !["reg"] = Said(m)["reg"]] \in States
         /\ [seen EXCEPT !["packet"] = Said(m)["packet"]] \in States
         /\ [seen EXCEPT !["act"] = Said(m)["act"]] \in States
BY DEF Types, States, Said

\* The modem's fields that handlers read.
LEMMA ReadType ==
  ASSUME Types
  PROVE  /\ modem \in Modem
         /\ modem.call \in Addresses \cup {0} /\ modem.apn \in {"undefined", "other", "ours"}
BY DEF Types, Modem

\* A command is carried out or not.
LEMMA DoesType ==
  ASSUME Types, NEW o, NEW m \in Modem, Does(o, m)
  PROVE  modem' \in Modem
BY DEF Does, Types

\* A command that reports a state.
LEMMA ReportsType ==
  ASSUME Types, NEW p, NEW o, NEW f \in {"ready", "reg", "packet", "act"}, NEW can,
         NEW m \in Modem, NEW next, Reports(p, o, f, can, m, next)
  PROVE  /\ modem' \in Modem /\ faults' \in 0..MaxFaults
         /\ seen' \in States /\ cache' \in States
         /\ o = "done" => Goto(next)
<1>1. Command(o, modem.open /\ can) /\ Does(o, m) BY DEF Reports
<1>2. seen \in States /\ cache \in States BY DEF Types
<1>3. CASE o = "done"
  <2>1. seen' = [seen EXCEPT ![f] = Said(m)[f]] BY <1>3 DEF Reports
  <2>2. seen' \in States BY <2>1, ReportType
  <2>. QED BY <1>1, <1>2, <1>3, <2>2, CommandType, DoesType DEF Reports
<1>4. CASE o # "done" BY <1>1, <1>2, <1>4, CommandType, DoesType DEF Reports
<1>. QED BY <1>3, <1>4

\* requestSetupDataCall leaves the loop's own variables alone.
LEMMA SetUpType == ASSUME NEW r, SetUp(r) PROVE back' = back /\ t' = t
BY DEF SetUp, Goto

\* Signals and events go to the end of their queues.
LEMMA QueueType ==
  ASSUME Types
  PROVE  /\ Append(sigq, "START") \in Seq({"START", "CHECK", "STOP"})
         /\ Append(sigq, "CHECK") \in Seq({"START", "CHECK", "STOP"})
         /\ Append(sigq, "STOP") \in Seq({"START", "CHECK", "STOP"})
         /\ Append(devq, "NETWORK") \in Seq({"NETWORK", "CALLS", "DISCONNECTED"})
         /\ Append(devq, "CALLS") \in Seq({"NETWORK", "CALLS", "DISCONNECTED"})
         /\ Append(devq, "DISCONNECTED") \in Seq({"NETWORK", "CALLS", "DISCONNECTED"})
BY DEF Types

\* The queues of a session begin empty.
LEMMA EmptyType ==
  /\ <<>> \in Seq({"START", "CHECK", "STOP"})
  /\ <<>> \in Seq({"START", "CHECK"})
  /\ <<>> \in Seq({"NETWORK", "CALLS", "DISCONNECTED"})
OBVIOUS

\* After a registration, wherever it was asked for.
LEMMA RegisteredType ==
  ASSUME Types, NEW p \in BOOLEAN, Registered(p)
  PROVE  /\ ps' = p /\ st' = st /\ hold' \in BOOLEAN /\ devReady' \in BOOLEAN
         /\ sigq' \in Seq({"START", "CHECK", "STOP"})
         /\ back' \in {back, "poll"} /\ t' = t
<1>0. /\ back \in {"poll", "check", "network"} /\ hold \in BOOLEAN /\ devReady \in BOOLEAN
      /\ sigq \in Seq({"START", "CHECK", "STOP"})
  BY DEF Types
<1>1. CASE back = "poll" BY <1>0, <1>1, QueueType DEF Registered, Goto
<1>2. CASE back = "check" BY <1>0, <1>2 DEF Registered, Return
<1>3. CASE back = "network" BY <1>0, <1>3, QueueType DEF Registered, Return
<1>. QED BY <1>0, <1>1, <1>2, <1>3

\* The interface has an address of the profile, or none.
LEMMA LinkChangeType ==
  ASSUME Types, NEW up \in BOOLEAN, LinkChange(up)
  PROVE  link' \in BOOLEAN /\ addr' \in Addresses \cup {0} /\ net' \in Addresses \cup {0}
BY DEF Types, LinkChange

\* The commands of at_init, and the reboot it may order, keep every variable within
\* its type.
LEMMA AtInitType ==
  ASSUME Types,
         AtHandshake \/ AtStyle \/ AtNat \/ AtSetNat \/ AtReboot \/ AtSimStatus
         \/ AtEnterSimPin \/ AtGetProfile \/ AtDefineProfile \/ AtGetContexts
         \/ AtSetProfile
  PROVE  Types'
<1>1. CASE AtHandshake
  BY <1>1, CommandType, ZenonT(60)
     DEF AtHandshake, Outcomes, Goto, AtInit, Calm, Types
<1>2. CASE AtStyle
  BY <1>2, CommandType
     DEF AtStyle, Outcomes, Goto, AtInit, Calm, Types
<1>3. CASE AtNat
  BY <1>3, CommandType, ZenonT(60)
     DEF AtNat, Outcomes, Goto, AtInit, Calm, Types
<1>4. CASE AtSetNat
  BY <1>4, CommandType, FieldType, ZenonT(60)
     DEF AtSetNat, Outcomes, Does, Goto, AtInit, Calm, Types
<1>5. CASE AtReboot
  BY <1>5, CommandType, FieldType, ZenonT(60)
     DEF AtReboot, Outcomes, Does, Goto, AtInit, Calm, Types
<1>6. CASE AtSimStatus
  BY <1>6, CommandType, ZenonT(60)
     DEF AtSimStatus, Outcomes, Goto, AtInit, Calm, Types
<1>7. CASE AtEnterSimPin
  BY <1>7, CommandType, FieldType, ZenonT(60)
     DEF AtEnterSimPin, Outcomes, Does, Goto, AtInit, Calm, Types
<1>8. CASE AtGetProfile
  <2>1. PICK o \in Outcomes :
          /\ Command(o, TRUE)
          /\ \/ \E p : Goto(p) /\ UNCHANGED old
             \/ modem.apn # "undefined" /\ ToSetProfile(modem.apn)
    BY <1>8, Zenon DEF AtGetProfile
  <2>2. back' = back /\ t' = t /\ old' \in {"other", "ours"}
    <3>1. old \in {"other", "ours"} BY DEF Types
    <3>. QED BY <2>1, <3>1, ReadType DEF Goto, ToSetProfile
  <2>3. faults' \in 0..MaxFaults BY <2>1, CommandType
  <2>. QED BY <1>8, <2>2, <2>3 DEF AtGetProfile, AtInit, Calm, Types
<1>9. CASE AtDefineProfile
  BY <1>9, CommandType, FieldType, ZenonT(60)
     DEF AtDefineProfile, Outcomes, Does, Goto, AtInit, Calm, Types
<1>10. CASE AtGetContexts
  BY <1>10, CommandType, ZenonT(60)
     DEF AtGetContexts, Outcomes, ToSetProfile, Goto, AtInit, Calm, Types
<1>11. CASE AtSetProfile
  BY <1>11, CommandType, FieldType, ZenonT(60)
     DEF AtSetProfile, Outcomes, Does, Goto, AtInit, Calm, Types
<1>. QED BY <1>1, <1>2, <1>3, <1>4, <1>5, <1>6, <1>7, <1>8, <1>9, <1>10, <1>11

\* So do its registration queries (AT+CGREG? and the ones that follow it).
LEMMA AtRegisterType ==
  ASSUME Types,
         AtOperator \/ AtRegistration
  PROVE  Types'
<1>1. CASE AtOperator
  BY <1>1, CommandType, RegisteredType, QueueType, ZenonT(60)
     DEF AtOperator, Outcomes, Goto, AtOnly, Calm, Types
<1>2. CASE AtRegistration
  BY <1>2, CommandType, RegisteredType, QueueType, ZenonT(60)
     DEF AtRegistration, Outcomes, AtOnly, Calm, Types
<1>. QED BY <1>1, <1>2

\* So do the commands that set up, query and take down a call by AT commands.
LEMMA AtCallType ==
  ASSUME Types,
         AtContextActive \/ AtActivate \/ AtBind \/ AtWait \/ AtQueryStatus
         \/ AtQueryBinding \/ AtQueryContext \/ AtGetIPAddress \/ AtDeactivate
  PROVE  Types'
<1>1. CASE AtContextActive
  <2>1. PICK o \in Outcomes :
          /\ Command(o, TRUE)
          /\ IF o = "done" THEN Goto(IF modem.context THEN "bind" ELSE "activate") ELSE Failed(o)
    BY <1>1 DEF AtContextActive
  <2>2. back' = back /\ t' = t BY <2>1 DEF Goto, Failed, SetUp
  <2>3. faults' \in 0..MaxFaults BY <2>1, CommandType
  <2>. QED BY <1>1, <2>2, <2>3 DEF AtContextActive, AtCalls, AtOnly, Calm, Types
<1>2. CASE AtActivate
  BY <1>2, CommandType, FieldType, ZenonT(60)
     DEF AtActivate, Outcomes, Does, Goto, Failed, SetUp, AtCalls, AtOnly, Calm, Types
<1>3. CASE AtBind
  <2>1. PICK o \in Outcomes, a \in Addresses :
           /\ Styled(o, modem.reg # "none" /\ (modem.asr => modem.context))
           /\ Does(o, IF modem.call # 0 THEN modem
                      ELSE [modem EXCEPT !.call = a,
                              !.bearer = IF modem.apn = "ours" THEN "ours" ELSE "other"])
           /\ IF o = "done" /\ asr THEN SetUp("ok")
              ELSE IF o = "done" THEN pc' = "wait" /\ t' = 0 /\ UNCHANGED back
              ELSE Failed(o)
           /\ devq' = IF o = "done" /\ asr THEN Append(devq, "CALLS") ELSE devq
    BY <1>3 DEF AtBind
  <2>. DEFINE m == IF modem.call # 0 THEN modem
                   ELSE [modem EXCEPT !.call = a,
                           !.bearer = IF modem.apn = "ours" THEN "ours" ELSE "other"]
  <2>2. m \in Modem
    <3>1. a \in Addresses \cup {0} /\ modem \in Modem BY ReadType
    <3>2. /\ [modem EXCEPT !.call = a, !.bearer = "ours"] \in Modem
          /\ [modem EXCEPT !.call = a, !.bearer = "other"] \in Modem
      BY <3>1, CallType
    <3>. QED BY <3>1, <3>2
  <2>3. modem' \in Modem /\ faults' \in 0..MaxFaults BY <2>1, <2>2, DoesType, StyledType
  <2>4. back' = back /\ t' \in {0, t} BY <2>1, SetUpType DEF Failed
  <2>5. devq' \in {devq, Append(devq, "CALLS")} BY <2>1
  <2>6. AtCalls BY <1>3 DEF AtBind
  <2>7. t' \in 0..Tries BY <2>4, RequestAssumption DEF Types
  <2>8. devq' \in Seq({"NETWORK", "CALLS", "DISCONNECTED"}) BY <2>5, QueueType DEF Types
  <2>. QED BY <2>3, <2>4, <2>6, <2>7, <2>8 DEF AtCalls, AtOnly, Calm, Types
<1>4. CASE AtWait
  <2>1. PICK o \in Outcomes :
           /\ Styled(o, modem.call # 0)
           /\ CASE ~Heard(o) -> SetUp("negative") /\ UNCHANGED devq
                [] o = "refused" /\ t + 1 < Tries
                     -> t' = t + 1 /\ UNCHANGED <<pc, back, devq>>
                [] OTHER -> SetUp("ok") /\ devq' = Append(devq, "CALLS")
    BY <1>4 DEF AtWait
  <2>2. faults' \in 0..MaxFaults BY <2>1, StyledType
  <2>3. \/ back' = back /\ t' = t /\ devq' \in {devq, Append(devq, "CALLS")}
        \/ t + 1 < Tries /\ t' = t + 1 /\ back' = back /\ devq' = devq
    BY <2>1, SetUpType DEF Heard
  <2>4. t' \in 0..Tries /\ back' = back /\ devq' \in {devq, Append(devq, "CALLS")}
    BY <2>3, RequestAssumption DEF Types
  <2>5. AtCalls /\ modem' = modem BY <1>4 DEF AtWait
  <2>. QED BY <2>2, <2>4, <2>5, QueueType DEF AtCalls, AtOnly, Calm, Types
<1>5. CASE AtQueryStatus
  BY <1>5, StyledType
     DEF AtQueryStatus, Outcomes, Queried, Goto, AtStatus, AtOnly, Calm, Types
<1>6. CASE AtQueryBinding
  BY <1>6, StyledType, ZenonT(60)
     DEF AtQueryBinding, Outcomes, Goto, Queried, AtStatus, AtOnly, Calm, Types
<1>7. CASE AtQueryContext
  BY <1>7, StyledType
     DEF AtQueryContext, Outcomes, Queried, Goto, AtStatus, AtOnly, Calm, Types
<1>8. CASE AtGetIPAddress
  <2>1. PICK o \in Outcomes :
           LET a == IF o = "done" THEN AtAddress ELSE 0
           IN /\ Styled(o, TRUE)
              /\ addr' = IF a # 0 THEN a ELSE addr
              /\ GotAddress(a # 0)
    BY <1>8 DEF AtGetIPAddress
  <2>2. AtAddress \in Addresses \cup {0}
    BY ReadType, RequestAssumption DEF AtAddress
  <2>3. addr' \in Addresses \cup {0} /\ faults' \in 0..MaxFaults BY <2>1, <2>2, StyledType DEF Types
  <2>4. st' \in {"unknown", "conn", "disc"} /\ back' = back /\ t' = t
    BY <2>1 DEF GotAddress, Goto, Types
  <2>. QED BY <1>8, <2>3, <2>4 DEF AtGetIPAddress, AtStatus, AtOnly, Calm, Types
<1>9. CASE AtDeactivate
  <2>1. [modem EXCEPT !.call = 0] \in Modem BY CallEndsType, ReadType
  <2>2. modem' \in Modem /\ faults' \in 0..MaxFaults
    BY <1>9, <2>1, StyledType, DoesType DEF AtDeactivate
  <2>. QED BY <1>9, <2>2 DEF AtDeactivate, Goto, AtStatus, AtOnly, Calm, Types
<1>. QED BY <1>1, <1>2, <1>3, <1>4, <1>5, <1>6, <1>7, <1>8, <1>9

\* The same of mbim_init: opening the MBIM function, its services and the radio.
LEMMA MbimInitType ==
  ASSUME Types,
         MbimConfigure \/ MbimOpen \/ MbimCaps \/ MbimServices \/ MbimVersion
         \/ MbimRadio
  PROVE  Types'
<1>1. CASE MbimConfigure
  BY <1>1, CommandType
     DEF MbimConfigure, Step, Outcomes, Goto, MbimInit, MbimOnly, Calm, Types
<1>2. CASE MbimOpen
  <2>1. [modem EXCEPT !.open = TRUE] \in Modem BY FieldType, ReadType
  <2>2. modem' \in Modem /\ faults' \in 0..MaxFaults
    BY <1>2, <2>1, CommandType, DoesType DEF MbimOpen
  <2>3. /\ back' = back
        /\ t' = t \/ (t + 1 < Tries /\ t' = t + 1)
    BY <1>2 DEF MbimOpen, Goto, Outcomes, Heard
  <2>4. t' \in 0..Tries BY <2>3, RequestAssumption DEF Types
  <2>. QED BY <1>2, <2>2, <2>3, <2>4 DEF MbimOpen, MbimInit, MbimOnly, Calm, Types
<1>3. CASE MbimCaps
  BY <1>3, CommandType
     DEF MbimCaps, Step, Outcomes, Goto, MbimInit, MbimOnly, Calm, Types
<1>4. CASE MbimServices
  BY <1>4, CommandType, ZenonT(60)
     DEF MbimServices, Step, Outcomes, Goto, MbimInit, MbimOnly, Calm, Types
<1>5. CASE MbimVersion
  BY <1>5, CommandType
     DEF MbimVersion, Step, Outcomes, Goto, MbimInit, MbimOnly, Calm, Types
<1>6. CASE MbimRadio
  BY <1>6, CommandType
     DEF MbimRadio, Step, Outcomes, Goto, MbimInit, MbimOnly, Calm, Types
<1>. QED BY <1>1, <1>2, <1>3, <1>4, <1>5, <1>6

\* The same of the SIM, the registration and the packet service by MBIM.
LEMMA MbimRegisterType ==
  ASSUME Types,
         MbimSimStatus \/ MbimSimSeen \/ MbimRegister \/ MbimRegisterSeen
         \/ MbimPacketService \/ MbimPacketSeen \/ MbimAttach \/ MbimAttachSeen
  PROVE  Types'
<1>1. CASE MbimSimStatus
  <2>1. PICK o \in Outcomes :
           Reports("sim", o, "ready", TRUE, modem, "simSeen") /\ (o # "done" => Goto("reg"))
    BY <1>1 DEF MbimSimStatus
  <2>2. /\ modem' \in Modem /\ faults' \in 0..MaxFaults
        /\ seen' \in States /\ cache' \in States
        /\ o = "done" => Goto("simSeen")
    BY <2>1, ReadType, ReportsType
  <2>3. back' = back /\ t' = t BY <2>1, <2>2 DEF Goto
  <2>. QED BY <1>1, <2>2, <2>3 DEF MbimSimStatus, MbimAsks, MbimOnly, Calm, Silent, Types
<1>2. CASE MbimSimSeen
  BY <1>2
     DEF MbimSimSeen, Makes, Goto, MbimAsks, MbimOnly, Calm, Silent, Types
<1>3. CASE MbimRegister
  <2>1. PICK o \in Outcomes :
           /\ Reports("reg", o, "reg", TRUE, modem, "regSeen")
           /\ IF o = "done" THEN Silent ELSE Registered(FALSE)
    BY <1>3 DEF MbimRegister
  <2>2. /\ modem' \in Modem /\ faults' \in 0..MaxFaults
        /\ seen' \in States /\ cache' \in States
        /\ o = "done" => Goto("regSeen")
    BY <2>1, ReadType, ReportsType
  <2>3. /\ ps' \in BOOLEAN /\ st' = st /\ hold' \in BOOLEAN /\ devReady' \in BOOLEAN
        /\ sigq' \in Seq({"START", "CHECK", "STOP"})
        /\ back' \in {back, "poll"} /\ t' = t
    <3>1. CASE o = "done" BY <2>1, <2>2, <3>1 DEF Silent, Goto, Types
    <3>2. CASE o # "done" BY <2>1, <3>2, RegisteredType
    <3>. QED BY <3>1, <3>2
  <2>. QED BY <1>3, <2>2, <2>3 DEF MbimRegister, MbimAsks, MbimOnly, Calm, Types
<1>4. CASE MbimRegisterSeen
  BY <1>4, RegisteredType, QueueType, ZenonT(60)
     DEF MbimRegisterSeen, Makes, Goto, Silent, MbimAsks, MbimOnly, Calm, Types
<1>5. CASE MbimPacketService
  <2>1. PICK o \in Outcomes :
           /\ Reports("packet", o, "packet", TRUE, modem, "packetSeen")
           /\ IF o = "done" THEN Silent ELSE Registered(TRUE)
    BY <1>5 DEF MbimPacketService
  <2>2. /\ modem' \in Modem /\ faults' \in 0..MaxFaults
        /\ seen' \in States /\ cache' \in States
        /\ o = "done" => Goto("packetSeen")
    BY <2>1, ReadType, ReportsType
  <2>3. /\ ps' \in BOOLEAN /\ st' = st /\ hold' \in BOOLEAN /\ devReady' \in BOOLEAN
        /\ sigq' \in Seq({"START", "CHECK", "STOP"})
        /\ back' \in {back, "poll"} /\ t' = t
    <3>1. CASE o = "done" BY <2>1, <2>2, <3>1 DEF Silent, Goto, Types
    <3>2. CASE o # "done" BY <2>1, <3>2, RegisteredType
    <3>. QED BY <3>1, <3>2
  <2>. QED BY <1>5, <2>2, <2>3 DEF MbimPacketService, MbimAsks, MbimOnly, Calm, Types
<1>6. CASE MbimPacketSeen
  BY <1>6, RegisteredType, QueueType, ZenonT(60)
     DEF MbimPacketSeen, Makes, Goto, Silent, MbimAsks, MbimOnly, Calm, Types
<1>7. CASE MbimAttach
  <2>1. [modem EXCEPT !.reg = "attached"] \in Modem BY FieldType, ReadType
  <2>2. PICK o \in Outcomes :
           /\ Reports("attach", o, "packet", modem.reg # "none",
                      [modem EXCEPT !.reg = "attached"], "attachSeen")
           /\ IF o = "done" THEN Silent ELSE Registered(FALSE)
    BY <1>7 DEF MbimAttach
  <2>3. /\ modem' \in Modem /\ faults' \in 0..MaxFaults
        /\ seen' \in States /\ cache' \in States
        /\ o = "done" => Goto("attachSeen")
    BY <2>1, <2>2, ReportsType
  <2>. QED BY <1>7, <2>2, <2>3, RegisteredType, ZenonT(60)
           DEF MbimAttach, Goto, Silent, MbimAsks, MbimOnly, Calm, Types
<1>8. CASE MbimAttachSeen
  BY <1>8, RegisteredType, QueueType, ZenonT(60)
     DEF MbimAttachSeen, Makes, MbimAsks, MbimOnly, Calm, Types
<1>. QED BY <1>1, <1>2, <1>3, <1>4, <1>5, <1>6, <1>7, <1>8

\* The same of MBIM's connect, query and disconnect, with the address that follows.
LEMMA MbimCallType ==
  ASSUME Types,
         MbimConnect \/ MbimConnectSeen \/ MbimQueryConnect \/ MbimQuerySeen
         \/ MbimGetIPAddress \/ MbimDisconnect \/ MbimDisconnectSeen \/ MbimClose
  PROVE  Types'
<1>1. CASE MbimConnect
  <2>1. PICK o \in Outcomes, a \in Addresses :
           /\ \/ Reports("dial", o, "act", modem.reg = "attached", Up(a), "dialSeen")
              \/ Reports("redial", o, "act", modem.reg = "attached", Up(a), "dialSeen")
           /\ o # "done" => \E r \in {"positive", "negative"} : Error(r) /\ SetUp(r)
    BY <1>1 DEF MbimConnect
  <2>2. Up(a) \in Modem
    <3>1. a \in Addresses \cup {0} /\ modem \in Modem BY ReadType
    <3>2. [modem EXCEPT !.call = a, !.bearer = "ours"] \in Modem BY <3>1, CallType
    <3>. QED BY <3>1, <3>2 DEF Up
  <2>3. /\ modem' \in Modem /\ faults' \in 0..MaxFaults
        /\ seen' \in States /\ cache' \in States
        /\ o = "done" => Goto("dialSeen")
    BY <2>1, <2>2, ReportsType
  <2>4. back' = back /\ t' = t BY <2>1, <2>3, SetUpType DEF Goto
  <2>. QED BY <1>1, <2>3, <2>4 DEF MbimConnect, Silent, MbimAsks, MbimOnly, Calm, Types
<1>2. CASE MbimConnectSeen
  <2>1. back' = back /\ t' = t BY <1>2 DEF MbimConnectSeen, SetUp, Goto
  <2>2. cache' = seen /\ UNCHANGED <<seen, modem, faults>> BY <1>2 DEF MbimConnectSeen, Makes
  <2>. QED BY <1>2, <2>1, <2>2 DEF MbimConnectSeen, MbimAsks, MbimOnly, Calm, Silent, Types
<1>3. CASE MbimQueryConnect
  BY <1>3, CommandType, FieldType, ReportType, ZenonT(60)
     DEF MbimQueryConnect, Outcomes, Reports, Does, Goto,
         Queried, MbimAsks, MbimOnly, Calm, Types
<1>4. CASE MbimQuerySeen
  BY <1>4
     DEF MbimQuerySeen, Makes, Queried, Goto, MbimAsks, MbimOnly, Calm, Types
<1>5. CASE MbimGetIPAddress
  BY <1>5, CommandType, ReadType
     DEF MbimGetIPAddress, Outcomes, GotAddress, Goto, MbimOnly, Calm, Types
<1>6. CASE MbimDisconnect
  <2>1. [modem EXCEPT !.call = 0] \in Modem BY CallEndsType, ReadType
  <2>2. PICK o \in Outcomes :
           /\ Reports("deactivate", o, "act", TRUE, [modem EXCEPT !.call = 0], "downSeen")
           /\ o # "done" => Goto("release")
    BY <1>6 DEF MbimDisconnect
  <2>3. /\ modem' \in Modem /\ faults' \in 0..MaxFaults
        /\ seen' \in States /\ cache' \in States
        /\ o = "done" => Goto("downSeen")
    BY <2>1, <2>2, ReportsType
  <2>. QED BY <1>6, <2>2, <2>3
           DEF MbimDisconnect, Goto, Silent, MbimAsks, MbimOnly, Calm, Types
<1>7. CASE MbimDisconnectSeen
  BY <1>7
     DEF MbimDisconnectSeen, Makes, Goto, MbimAsks, MbimOnly, Calm, Silent, Types
<1>8. CASE MbimClose
  BY <1>8, CommandType, FieldType, CallEndsType, ZenonT(60)
     DEF MbimClose, Outcomes, Does, Goto, Types
<1>. QED BY <1>1, <1>2, <1>3, <1>4, <1>5, <1>6, <1>7, <1>8

\* A session that begins, ends or starts over keeps every variable within its type.
LEMMA SessionType ==
  ASSUME Types,
         Begin \/ Connect \/ Quit \/ Join \/ Again \/ Exit
  PROVE  Types'
<1>1. CASE Begin
  BY <1>1, EmptyType
     DEF Begin, Goto, Main, Types
<1>2. CASE Connect
  <2>1. reader' \in {"run", "dead"} /\ back' = "poll" /\ t' = 0 BY <1>2 DEF Connect
  <2>2. UNCHANGED <<status, addr, iface, restart, alarm, queues, drain, left>> /\ Main
    BY <1>2 DEF Connect
  <2>. QED BY <2>1, <2>2, RequestAssumption DEF Main, Types
<1>3. CASE Quit
  BY <1>3, LinkChangeType
     DEF Quit, Goto, Main, Types
<1>4. CASE Join
  BY <1>4, EmptyType
     DEF Join, Goto, Main, Types
<1>5. CASE Again
  BY <1>5
     DEF Again, Goto, Main, Types
<1>6. CASE Exit
  BY <1>6
     DEF Exit, Goto, Main, Types
<1>. QED BY <1>1, <1>2, <1>3, <1>4, <1>5, <1>6

\* An event is taken only from a queue that has one.
LEMMA EventTaken ==
  ASSUME Types, EventInv, NEW e, Event(e)
  PROVE  devq' \in Seq({"NETWORK", "CALLS", "DISCONNECTED"})
<1>1. devq \in Seq({"NETWORK", "CALLS", "DISCONNECTED"}) /\ devq # <<>>
  BY DEF Types, EventInv, Event
<1>2. devq' = Tail(devq) BY DEF Event
<1>. QED BY <1>1, <1>2

\* The loop's poll(), its signals and its device events keep every variable within
\* its type: a queue is only read when it has something.
LEMMA LoopType ==
  ASSUME Types, EventInv,
         PollTimeout \/ PollSignal \/ PollEvent \/ StartRefused \/ Start \/ Dialled
         \/ Check \/ Checked \/ Stop \/ Release \/ DeviceGone \/ NetworkChanged
         \/ CallListChanged
  PROVE  Types'
<1>1. CASE PollTimeout
  BY <1>1, EmptyType
     DEF PollTimeout, Main, Types
<1>2. CASE PollSignal
  <2>1. sigq \in Seq({"START", "CHECK", "STOP"}) /\ sigq # <<>> BY <1>2 DEF PollSignal, Types
  <2>2. Tail(sigq) \in Seq({"START", "CHECK", "STOP"}) BY <2>1
  <2>3. (devq # <<>>) \in BOOLEAN OBVIOUS
  <2>. QED BY <1>2, <2>2, <2>3, ZenonT(60) DEF PollSignal, Goto, Main, Types
<1>3. CASE PollEvent
  BY <1>3, EmptyType
     DEF PollEvent, Goto, Main, Types
<1>4. CASE StartRefused
  BY <1>4
     DEF StartRefused, Handled, Main, Types
<1>5. CASE Start
  BY <1>5
     DEF Start, Goto, Main, Types
<1>6. CASE Dialled
  BY <1>6
     DEF Dialled, Handled, Main, Types
<1>7. CASE Check
  BY <1>7
     DEF Check, Goto, Main, Types
<1>8. CASE Checked
  BY <1>8, LinkChangeType, QueueType
     DEF Checked, Handled, Main, Types
<1>9. CASE Stop
  BY <1>9
     DEF Stop, Goto, Main, Types
<1>10. CASE Release
  BY <1>10, LinkChangeType
     DEF Release, Goto, Main, Types
<1>11. CASE DeviceGone
  <2>1. devq' \in Seq({"NETWORK", "CALLS", "DISCONNECTED"})
    BY <1>11, EventTaken DEF DeviceGone
  <2>. QED BY <1>11, LinkChangeType, <2>1
       DEF DeviceGone, Goto, Main, Types
<1>12. CASE NetworkChanged
  <2>1. devq' \in Seq({"NETWORK", "CALLS", "DISCONNECTED"})
    BY <1>12, EventTaken DEF NetworkChanged
  <2>. QED BY <1>12, <2>1
       DEF NetworkChanged, Main, Types
<1>13. CASE CallListChanged
  <2>1. devq' \in Seq({"NETWORK", "CALLS", "DISCONNECTED"})
    BY <1>13, EventTaken DEF CallListChanged
  <2>. QED BY <1>13, QueueType, <2>1, ZenonT(60)
       DEF CallListChanged, Handled, Main, Types
<1>. QED BY <1>1, <1>2, <1>3, <1>4, <1>5, <1>6, <1>7, <1>8, <1>9, <1>10, <1>11, <1>12, <1>13

\* The device thread that reports, gives up or ends keeps the types.
LEMMA ReaderType ==
  ASSUME Types,
         ReaderStop \/ ReaderQuit \/ ReaderIdle \/ ReaderNotices
  PROVE  Types'
<1>1. CASE ReaderStop
  BY <1>1
     DEF ReaderStop, Device, Types
<1>2. CASE ReaderQuit \/ ReaderIdle \/ ReaderNotices
  <2>1. Leaves BY <1>2 DEF ReaderQuit, ReaderIdle, ReaderNotices
  <2>. QED BY <2>1, QueueType DEF Leaves, Says, Device, Types
<1>. QED BY <1>1, <1>2

\* And the threads that earlier sessions left behind.
LEMMA LeftType == ASSUME Types, Left PROVE Types'
<1>1. CASE LeftStop
  BY <1>1 DEF LeftStop, Device, Types
<1>2. CASE LeftQuit \/ LeftIdle \/ LeftHangup
  <2>1. PICK rest \in SUBSET left : LeftLeaves(rest) /\ ctl' \in {ctl, ctl \ {"QUIT"}}
    BY <1>2 DEF LeftQuit, LeftIdle, LeftHangup
  <2>2. /\ devq' \in {devq, Append(devq, "DISCONNECTED")}
        /\ left' = rest /\ reader' \in {reader, "cut"} /\ drain' = drain /\ Device
    BY <2>1 DEF LeftLeaves, Says
  <2>3. devq' \in Seq({"NETWORK", "CALLS", "DISCONNECTED"}) BY <2>2, QueueType DEF Types
  <2>4. /\ reader' \in {"none", "run", "deaf", "cut", "dead"}
        /\ left' \in SUBSET {"waits", "drains"} /\ ctl' \in SUBSET {"STOP", "QUIT"}
    BY <2>1, <2>2 DEF Types
  <2>. QED BY <2>2, <2>3, <2>4 DEF Device, Types
<1>3. CASE Deafens BY <1>3 DEF Deafens, Device, Types
<1>. QED BY <1>1, <1>2, <1>3 DEF Left, Leaving

\* Signals from outside, alarms and delays that end keep the types.
LEMMA SignalsType ==
  ASSUME Types,
         PostStop \/ AlarmFires \/ HoldExpires
  PROVE  Types'
<1>1. CASE PostStop
  <2>1. stops' \in 0..mode.stops BY <1>1, RequestAssumption DEF PostStop, Types
  <2>2. sigq' \in Seq({"START", "CHECK", "STOP"}) BY <1>1, QueueType DEF PostStop, Types
  <2>3. ctl' \in SUBSET {"STOP", "QUIT"} BY <1>1 DEF PostStop, Types
  <2>4. restart' \in BOOLEAN BY <1>1 DEF PostStop
  <2>. QED BY <1>1, <2>1, <2>2, <2>3, <2>4 DEF PostStop, Types
<1>2. CASE AlarmFires
  BY <1>2, QueueType, ZenonT(60)
     DEF AlarmFires, Main, Types
<1>3. CASE HoldExpires
  BY <1>3
     DEF HoldExpires, Main, Types
<1>. QED BY <1>1, <1>2, <1>3

\* A modem that is unplugged, comes back or restarts and a network that goes and
\* comes keep the types.
LEMMA NetworkType ==
  ASSUME Types,
         CallDrops \/ Detach \/ Attach \/ Suspend \/ Unplug \/ Replug
  PROVE  Types'
<1>1. CASE CallDrops
  BY <1>1, FaultyType, FieldType, CallEndsType, QueueType, ZenonT(60)
     DEF CallDrops, Tells, Outside, Types
<1>2. CASE Detach
  <2>1. modem' \in Modem /\ faults' \in 0..MaxFaults
    BY <1>2, FaultyType, DetachedType DEF Detach, Types
  <2>2. devq' = devq \/ devq' = Append(devq, "NETWORK") BY <1>2 DEF Detach, Tells
  <2>3. devq' \in Seq({"NETWORK", "CALLS", "DISCONNECTED"}) BY <2>2, QueueType DEF Types
  <2>. QED BY <1>2, <2>1, <2>3 DEF Detach, Outside, Types
<1>3. CASE Attach
  <2>1. modem' \in Modem BY <1>3, FieldType, ReadType, ZenonT(60) DEF Attach
  <2>2. devq' \in Seq({"NETWORK", "CALLS", "DISCONNECTED"})
    <3>1. devq' = devq \/ devq' = Append(devq, "NETWORK") BY <1>3 DEF Attach, Tells
    <3>. QED BY <3>1, QueueType DEF Types
  <2>. QED BY <1>3, <2>1, <2>2 DEF Attach, Outside, Types
<1>4. CASE Suspend
  BY <1>4, FaultyType, FieldType, CallEndsType, ZenonT(60)
     DEF Suspend, Outside, Types
<1>5. CASE Unplug
  BY <1>5, FaultyType, OffType
     DEF Unplug, Outside, Types
<1>6. CASE Replug
  BY <1>6, FieldType
     DEF Replug, Outside, Types
<1>. QED BY <1>1, <1>2, <1>3, <1>4, <1>5, <1>6

-----------------------------------------------------------------------------
(* Commands                                                                *)

\* What a command of either kind leaves alone: it is answered by a modem that
\* stays what it is, and it does not stop the session.
Steady ==
  /\ UNCHANGED <<mode, asr, restart, device, stops, reboots>>
  /\ ctl' = ctl \/ pc = "close"
  /\ sigq' \in {sigq, Append(sigq, "CHECK"), Append(sigq, "START")}
  /\ devq' \in {devq, Append(devq, "CALLS")}
  /\ faults' \in 0..faults
  /\ modem'.present = modem.present /\ modem'.booting = modem.booting
  /\ modem'.asr = modem.asr /\ modem'.nat = modem.nat
  /\ pc' \notin {"begin", "connect", "handshake", "style", "nat", "setnat", "reboot"}
  /\ pc' \in Early => mode.ops = "mbim" \/ pc = "close"
  /\ pc' \in {"STOP", "deactivate", "downSeen", "release", "close"}
       => pc \in {"deactivate", "downSeen", "release"}

\* A command uses up one fault or none.
LEMMA CommandFaults ==
  ASSUME Types, NEW o, NEW can, Command(o, can) \/ Styled(o, can)
  PROVE  faults' \in 0..faults
BY DEF Command, Styled, Types

\* After a registration main asks for the call or goes back to its loop.
LEMMA RegisteredSteps ==
  ASSUME Types, NEW p, Registered(p)
  PROVE  /\ pc' \in {"poll", "event", "checked", "query"}
         /\ sigq' \in {sigq, Append(sigq, "CHECK"), Append(sigq, "START")}
<1>0. back \in {"poll", "check", "network"} BY DEF Types
<1>1. CASE back = "poll" BY <1>1 DEF Registered, Goto
<1>2. CASE back = "check" BY <1>2 DEF Registered, Return
<1>3. CASE back = "network" BY <1>3 DEF Registered, Return
<1>. QED BY <1>0, <1>1, <1>2, <1>3

\* Every AT command after the initialisation's first five.
LEMMA AtSteady ==
  ASSUME Types,
         AtSimStatus \/ AtEnterSimPin \/ AtGetProfile \/ AtDefineProfile
         \/ AtGetContexts \/ AtSetProfile \/ AtOperator \/ AtRegistration
         \/ AtContextActive \/ AtActivate \/ AtBind \/ AtWait \/ AtQueryStatus
         \/ AtQueryBinding \/ AtQueryContext \/ AtGetIPAddress \/ AtDeactivate
  PROVE  Steady
<1>. USE DEF Goto, Outcomes, Calm, Steady, Early, At
<1>1. CASE AtSimStatus BY <1>1, CommandFaults DEF AtSimStatus, AtInit, Modem
<1>2. CASE AtEnterSimPin
  BY <1>2, CommandFaults, ReadType
     DEF AtEnterSimPin, Does, AtInit, Modem
<1>3. CASE AtGetProfile BY <1>3, CommandFaults DEF AtGetProfile, ToSetProfile, AtInit, Modem
<1>4. CASE AtDefineProfile
  BY <1>4, CommandFaults, ReadType
     DEF AtDefineProfile, Does, AtInit, Modem
<1>5. CASE AtGetContexts
  BY <1>5, CommandFaults
     DEF AtGetContexts, ToSetProfile, AtInit, Modem
<1>6. CASE AtSetProfile
  BY <1>6, CommandFaults, ReadType
     DEF AtSetProfile, Does, AtInit, Modem
<1>7. CASE AtOperator BY <1>7, CommandFaults, RegisteredSteps DEF AtOperator, AtOnly, Modem
<1>8. CASE AtRegistration
  BY <1>8, CommandFaults, RegisteredSteps
     DEF AtRegistration, AtOnly, Modem
<1>9. CASE AtContextActive
  BY <1>9, CommandFaults
     DEF AtContextActive, Failed, SetUp, AtCalls, AtOnly, Modem
<1>10. CASE AtActivate
  BY <1>10, CommandFaults, ReadType
     DEF AtActivate, Does, Failed, SetUp, AtCalls, AtOnly, Modem
<1>11. CASE AtBind
  BY <1>11, CommandFaults, ReadType
     DEF AtBind, Does, SetUp, Failed, AtCalls, AtOnly, Modem
<1>12. CASE AtWait BY <1>12, CommandFaults DEF AtWait, SetUp, AtCalls, AtOnly, Modem
<1>13. CASE AtQueryStatus
  BY <1>13, CommandFaults
     DEF AtQueryStatus, Queried, AtStatus, AtOnly, Modem
<1>14. CASE AtQueryBinding
  BY <1>14, CommandFaults
     DEF AtQueryBinding, Queried, AtStatus, AtOnly, Modem
<1>15. CASE AtQueryContext
  BY <1>15, CommandFaults
     DEF AtQueryContext, Queried, AtStatus, AtOnly, Modem
<1>16. CASE AtGetIPAddress
  BY <1>16, CommandFaults
     DEF AtGetIPAddress, GotAddress, AtStatus, AtOnly, Modem
<1>17. CASE AtDeactivate
  BY <1>17, CommandFaults, ReadType
     DEF AtDeactivate, Does, AtStatus, AtOnly, Modem
<1>. QED BY <1>1, <1>2, <1>3, <1>4, <1>5, <1>6, <1>7, <1>8, <1>9, <1>10, <1>11, <1>12,
         <1>13, <1>14, <1>15, <1>16, <1>17

\* Every MBIM command.
LEMMA MbimSteady ==
  ASSUME Types,
         MbimConfigure \/ MbimOpen \/ MbimCaps \/ MbimServices \/ MbimVersion
         \/ MbimRadio \/ MbimSimStatus \/ MbimSimSeen \/ MbimRegister
         \/ MbimRegisterSeen \/ MbimPacketService \/ MbimPacketSeen
         \/ MbimAttach \/ MbimAttachSeen \/ MbimConnect \/ MbimConnectSeen
         \/ MbimQueryConnect \/ MbimQuerySeen \/ MbimGetIPAddress
         \/ MbimDisconnect \/ MbimDisconnectSeen \/ MbimClose
  PROVE  Steady
<1>. USE DEF Goto, Outcomes, Calm, Steady, Early, Mbim, MbimOnly
<1>0. faults \in 0..faults BY RequestAssumption DEF Types
<1>1. CASE MbimConfigure BY <1>1, CommandFaults DEF MbimConfigure, Step, MbimInit, Modem
<1>2. CASE MbimOpen BY <1>2, CommandFaults, ReadType DEF MbimOpen, Does, MbimInit, Modem
<1>3. CASE MbimCaps BY <1>3, CommandFaults DEF MbimCaps, Step, MbimInit, Modem
<1>4. CASE MbimServices BY <1>4, CommandFaults DEF MbimServices, Step, MbimInit, Modem
<1>5. CASE MbimVersion BY <1>5, CommandFaults DEF MbimVersion, Step, MbimInit, Modem
<1>6. CASE MbimRadio BY <1>6, CommandFaults DEF MbimRadio, Step, MbimInit, Modem
<1>7. CASE MbimSimStatus
  BY <1>7, CommandFaults, ReadType
     DEF MbimSimStatus, Reports, Does, MbimAsks, Silent, Modem
<1>8. CASE MbimSimSeen BY <1>8, <1>0 DEF MbimSimSeen, Makes, MbimAsks, Silent, Modem
<1>9. CASE MbimRegister
  BY <1>9, CommandFaults, RegisteredSteps, ReadType
     DEF MbimRegister, Reports, Does, Silent, MbimAsks, Modem
<1>10. CASE MbimRegisterSeen
  BY <1>10, <1>0, RegisteredSteps
     DEF MbimRegisterSeen, Makes, Silent, MbimAsks, Modem
<1>11. CASE MbimPacketService
  BY <1>11, CommandFaults, RegisteredSteps, ReadType
     DEF MbimPacketService, Reports, Does, Silent, MbimAsks, Modem
<1>12. CASE MbimPacketSeen
  BY <1>12, <1>0, RegisteredSteps
     DEF MbimPacketSeen, Makes, Silent, MbimAsks, Modem
<1>13. CASE MbimAttach
  BY <1>13, CommandFaults, RegisteredSteps, ReadType
     DEF MbimAttach, Reports, Does, Silent, MbimAsks, Modem
<1>14. CASE MbimAttachSeen
  BY <1>14, <1>0, RegisteredSteps
     DEF MbimAttachSeen, Makes, MbimAsks, Modem
<1>15. CASE MbimConnect
  BY <1>15, CommandFaults, ReadType
     DEF MbimConnect, Reports, Does, Up, SetUp, MbimAsks, Silent, Modem
<1>16. CASE MbimConnectSeen
  BY <1>16, <1>0
     DEF MbimConnectSeen, Makes, SetUp, MbimAsks, Silent, Modem
<1>17. CASE MbimQueryConnect
  BY <1>17, CommandFaults, ReadType
     DEF MbimQueryConnect, Reports, Does, Queried, MbimAsks, Modem
<1>18. CASE MbimQuerySeen BY <1>18, <1>0 DEF MbimQuerySeen, Makes, Queried, MbimAsks, Modem
<1>19. CASE MbimGetIPAddress BY <1>19, CommandFaults DEF MbimGetIPAddress, GotAddress, Modem
<1>20. CASE MbimDisconnect
  BY <1>20, CommandFaults, ReadType
     DEF MbimDisconnect, Reports, Does, MbimAsks, Silent, Modem
<1>21. CASE MbimDisconnectSeen
  BY <1>21, <1>0
     DEF MbimDisconnectSeen, Makes, MbimAsks, Silent, Modem
<1>22. CASE MbimClose BY <1>22, CommandFaults, ReadType DEF MbimClose, Does, Modem
<1>. QED BY <1>1, <1>2, <1>3, <1>4, <1>5, <1>6, <1>7, <1>8, <1>9, <1>10, <1>11, <1>12,
         <1>13, <1>14, <1>15, <1>16, <1>17, <1>18, <1>19, <1>20, <1>21, <1>22

\* A word that is not the device thread's last one does not end the session.
LEMMA GoneAppend ==
  ASSUME Types, GoneInv, NEW e \in {"NETWORK", "CALLS"}, devq' = Append(devq, e),
         reader' = reader, pc' # "connect", SessionOpen' => SessionOpen
  PROVE  GoneInv'
BY DEF GoneInv, Types

\* Restarts are not counted, and none is ordered.
LEMMA RestartKept ==
  ASSUME Types, RestartInv, UNCHANGED <<mode, asr, reboots>>, faults' \in 0..faults,
         stops' \in {stops, stops - 1},
         modem'.asr = modem.asr, modem'.nat = modem.nat,
         pc' = pc \/ pc' \notin {"nat", "setnat", "reboot"}
  PROVE  RestartInv'
<1>1. Calmly' => Calmly BY RequestAssumption DEF Calmly, Types
<1>2. reboots \in Nat /\ Restarts' <= Restarts /\ Restarts \in Nat /\ Restarts' \in Nat
  BY DEF RestartInv, Restarts
<1>3. (IF asr /\ ~Calmly THEN 1 ELSE 0) <= (IF asr' /\ ~Calmly' THEN 1 ELSE 0)
  BY <1>1
<1>. QED BY <1>2, <1>3 DEF RestartInv

\* Who has been calm so far was so before.
LEMMA CalmlyBefore ==
  ASSUME Types, mode' = mode, faults' \in 0..faults, stops' \in {stops, stops - 1}, Calmly'
  PROVE  Calmly
BY RequestAssumption DEF Calmly, Types

\* Signals that are not stops.
LEMMA NoStopAppend ==
  ASSUME NoStop
  PROVE  /\ Append(sigq, "CHECK") \in Seq({"START", "CHECK"})
         /\ Append(sigq, "START") \in Seq({"START", "CHECK"})
BY DEF NoStop

\* Commands belong to sessions.
LEMMA CommandOpen ==
  ASSUME AtCommand \/ MbimCommand
  PROVE  SessionOpen
<1>1. CASE AtCommand
  BY <1>1 DEF AtCommand, AtHandshake, AtStyle, AtNat, AtSetNat, AtReboot, AtSimStatus,
       AtEnterSimPin, AtGetProfile, AtDefineProfile, AtGetContexts, AtSetProfile, AtOperator,
       AtRegistration, AtContextActive, AtActivate, AtBind, AtWait, AtQueryStatus,
       AtQueryBinding, AtQueryContext, AtGetIPAddress, AtDeactivate, At, SessionOpen
<1>2. CASE MbimCommand
  BY <1>2 DEF MbimCommand, MbimConfigure, MbimOpen, MbimCaps, MbimServices, MbimVersion,
       MbimRadio, MbimSimStatus, MbimSimSeen, MbimRegister, MbimRegisterSeen, MbimPacketService,
       MbimPacketSeen, MbimAttach, MbimAttachSeen, MbimConnect, MbimConnectSeen,
       MbimQueryConnect, MbimQuerySeen, MbimGetIPAddress, MbimDisconnect, MbimDisconnectSeen,
       MbimClose, Step, Reports, Makes, Mbim, SessionOpen
<1>. QED BY <1>1, <1>2

\* What a command keeps true.
LEMMA SteadyKeeps ==
  ASSUME Types, GoneInv, LeftInv, Calmly => NoStop, BootInv, RestartInv, Steady, SessionOpen
  PROVE  GoneInv' /\ LeftInv' /\ (Calmly' => NoStop') /\ BootInv' /\ RestartInv'
<1>1. GoneInv'
  <2>1. CASE devq' = devq BY <2>1 DEF GoneInv, Steady
  <2>2. CASE devq' = Append(devq, "CALLS") BY <2>2, GoneAppend DEF Steady
  <2>. QED BY <2>1, <2>2 DEF Steady
<1>6. LeftInv'
  <2>1. Calmly' => Calmly BY CalmlyBefore DEF Steady
  <2>2. pc' \in {"begin", "after"} => mode.ops = "mbim" \/ pc = "close" BY DEF Steady, Early
  <2>3. Calmly' /\ mode.ops = "at" => pc' \notin {"begin", "after"} BY <2>1, <2>2 DEF NoStop
  <2>4. UNCHANGED <<mode, restart, left, reader>> /\ pc' # "begin" BY DEF Steady
  <2>. QED BY <2>1, <2>3, <2>4 DEF LeftInv
<1>2. Calmly' => Calmly BY CalmlyBefore DEF Steady
<1>3. Calmly' => NoStop'
  <2>. SUFFICES ASSUME Calmly' PROVE NoStop'
    OBVIOUS
  <2>1. NoStop BY <1>2
  <2>2. sigq' \in Seq({"START", "CHECK"}) BY <2>1, NoStopAppend DEF Steady, NoStop
  <2>. QED BY <2>1, <2>2 DEF Steady, NoStop
<1>4. BootInv'
  <2>1. modem.booting => pc # "close" \/ ~Calmly BY DEF NoStop
  <2>. QED BY <1>2, <2>1 DEF BootInv, Steady, Reachable, Early
<1>5. RestartInv' BY RestartKept DEF Steady
<1>. QED BY <1>1, <1>3, <1>4, <1>5, <1>6

-----------------------------------------------------------------------------
(* The initialisation up to the restart of the modem                       *)

\* What the first five commands of atc_init leave alone.
InitSteady ==
  /\ UNCHANGED <<mode, device, ctl, sigq, devq, stops>>
  /\ mode.ops = "at" /\ SessionOpen
  /\ faults' \in 0..faults
  /\ modem'.present = modem.present /\ modem'.asr = modem.asr

\* The first five commands do so.
LEMMA InitIsSteady ==
  ASSUME Types, AtHandshake \/ AtStyle \/ AtNat \/ AtSetNat \/ AtReboot
  PROVE  InitSteady
<1>. USE DEF Outcomes, AtInit, Calm, InitSteady, At, SessionOpen
<1>1. CASE AtHandshake BY <1>1, CommandFaults DEF AtHandshake
<1>2. CASE AtStyle BY <1>2, CommandFaults DEF AtStyle
<1>3. CASE AtNat BY <1>3, CommandFaults DEF AtNat
<1>4. CASE AtSetNat BY <1>4, CommandFaults, ReadType DEF AtSetNat, Does, Modem
<1>5. CASE AtReboot BY <1>5, CommandFaults, ReadType DEF AtReboot, Does, Modem
<1>. QED BY <1>1, <1>2, <1>3, <1>4, <1>5

\* Nobody stops the session and the device thread stays.
LEMMA InitKeepsStop ==
  ASSUME Types, GoneInv, LeftInv, Calmly => NoStop, InitSteady,
         pc' \in {"style", "after", "nat", "sim", "setnat", "reboot"}, Calmly' => pc' # "after"
  PROVE  GoneInv' /\ LeftInv' /\ (Calmly' => NoStop')
<1>1. GoneInv' BY DEF GoneInv, InitSteady
<1>4. LeftInv' BY CalmlyBefore DEF LeftInv, InitSteady
<1>2. Calmly' => Calmly BY CalmlyBefore DEF InitSteady
<1>3. Calmly' => NoStop' BY <1>2 DEF NoStop, InitSteady
<1>. QED BY <1>1, <1>3, <1>4

\* Without a fault a command reaches the modem and its answer comes back: only a
\* modem that cannot carry it out refuses it.
LEMMA CalmCommand ==
  ASSUME Types, NoStop, Reachable, NEW o \in Outcomes, NEW can, Command(o, can), Calmly'
  PROVE  o = "done" \/ (o = "refused" /\ ~can)
BY RequestAssumption DEF Types, NoStop, Command, Free, Calmly, Outcomes

\* The first command of atc_init keeps what is known of restarts and of the modem.
LEMMA HandshakeKeeps ==
  ASSUME Types, GoneInv, LeftInv, Calmly => NoStop, BootInv, RestartInv, AtHandshake
  PROVE  GoneInv' /\ LeftInv' /\ (Calmly' => NoStop') /\ BootInv' /\ RestartInv'
<1>1. PICK o \in Outcomes : Command(o, TRUE) /\ Goto(IF Heard(o) THEN "style" ELSE "after")
  BY DEF AtHandshake
<1>2. pc = "handshake" /\ mode.ops = "at" /\ modem' = modem /\ UNCHANGED <<asr, reboots>>
  BY DEF AtHandshake, At, AtInit
<1>4. InitSteady BY InitIsSteady
<1>8. Calmly' => Calmly /\ Reachable BY <1>2, <1>4, CalmlyBefore DEF BootInv, InitSteady
<1>3. pc' \in {"style", "after"} /\ (Calmly' => pc' # "after")
  BY <1>1, <1>8, CalmCommand DEF Goto, Heard
<1>5. GoneInv' /\ LeftInv' /\ (Calmly' => NoStop') BY <1>3, <1>4, InitKeepsStop
<1>6. BootInv'
  <2>1. Calmly' => Calmly /\ ~modem.booting /\ Reachable
    BY <1>2, <1>4, CalmlyBefore DEF BootInv, InitSteady, Early
  <2>. QED BY <1>2, <1>3, <1>4, <2>1 DEF BootInv, InitSteady, Early, Reachable
<1>7. RestartInv' BY <1>2, <1>3, <1>4, RestartKept DEF InitSteady
<1>. QED BY <1>5, <1>6, <1>7

\* The style is found out: wrongly only by a fault.
LEMMA StyleKeeps ==
  ASSUME Types, GoneInv, LeftInv, Calmly => NoStop, BootInv, RestartInv, AtStyle
  PROVE  GoneInv' /\ LeftInv' /\ (Calmly' => NoStop') /\ BootInv' /\ RestartInv'
<1>1. PICK o \in Outcomes :
         /\ Command(o, ~modem.asr)
         /\ asr' = (asr \/ o # "done")
         /\ Goto(IF ~mode.proxy THEN "nat" ELSE IF Heard(o) THEN "sim" ELSE "after")
  BY DEF AtStyle
<1>2. pc = "style" /\ mode.ops = "at" /\ modem' = modem /\ reboots' = reboots
  BY DEF AtStyle, At, AtInit
<1>3. pc' \in {"nat", "sim", "after"} /\ (pc' = "after" => ~Heard(o)) BY <1>1 DEF Goto
<1>4. InitSteady BY InitIsSteady
<1>6. Calmly' => Calmly /\ ~modem.booting /\ Reachable
  BY <1>2, <1>4, CalmlyBefore DEF BootInv, InitSteady, Early
<1>7. BootInv' BY <1>2, <1>3, <1>4, <1>6 DEF BootInv, InitSteady, Early, Reachable
<1>8. Calmly' => o = "done" \/ (o = "refused" /\ modem.asr)
  BY <1>1, <1>6, CalmCommand
<1>5. GoneInv' /\ LeftInv' /\ (Calmly' => NoStop')
  BY <1>3, <1>4, <1>8, InitKeepsStop DEF Heard
<1>9. o = "done" => ~modem.asr BY <1>1 DEF Command, Happens
<1>10. RestartInv'
  <2>0. reboots \in Nat BY DEF RestartInv
  <2>1. asr \in BOOLEAN /\ modem.asr \in BOOLEAN /\ modem.nat \in BOOLEAN
    BY DEF Types, Modem
  <2>2. CASE asr' = asr
    <3>1. pc' # "reboot" /\ pc' # "setnat" BY <1>3
    <3>2. ~asr => ~modem.asr BY <1>1, <1>9, <2>1, <2>2
    <3>3. Restarts' = reboots /\ Restarts = reboots BY <1>2, <2>0, <3>1 DEF Restarts
    <3>. QED BY <1>2, <1>6, <2>1, <2>2, <3>1, <3>2, <3>3 DEF RestartInv
  <2>3. CASE ~asr /\ asr'
    <3>1. o # "done" BY <1>1, <2>1, <2>3
    <3>2. Calmly' => modem.asr BY <1>8, <3>1
    <3>3. modem.asr => reboots = 0 BY <2>3 DEF RestartInv
    <3>4. pc' # "reboot" /\ pc' # "setnat" BY <1>3
    <3>5. Restarts' = reboots /\ Restarts = reboots BY <1>2, <2>0, <3>4 DEF Restarts
    <3>6. reboots \in Nat /\ reboots <= 1 BY <2>1, <2>3, <3>5 DEF RestartInv
    <3>7. ~Calmly' => Restarts' <= (IF modem'.nat = asr' THEN 1 ELSE 0) + 1
      BY <3>5, <3>6
    <3>8. Calmly' => Restarts' = 0 BY <3>2, <3>3, <3>5
    <3>9. Restarts' <= (IF modem'.nat = asr' THEN 1 ELSE 0) + (IF asr' /\ ~Calmly' THEN 1 ELSE 0)
      <4>1. (IF modem'.nat = asr' THEN 1 ELSE 0) \in {0, 1} OBVIOUS
      <4>2. CASE Calmly' BY <2>3, <3>8, <4>1, <4>2
      <4>3. CASE ~Calmly' BY <2>3, <3>7, <4>1, <4>3
      <4>. QED BY <4>2, <4>3
    <3>. QED BY <1>2, <2>3, <3>4, <3>6, <3>9 DEF RestartInv
  <2>. QED BY <1>1, <2>1, <2>2, <2>3
<1>. QED BY <1>5, <1>7, <1>10

\* A NAT mode that fits is left alone.
LEMMA NatKeeps ==
  ASSUME Types, GoneInv, LeftInv, Calmly => NoStop, BootInv, RestartInv, AtNat
  PROVE  GoneInv' /\ LeftInv' /\ (Calmly' => NoStop') /\ BootInv' /\ RestartInv'
<1>0. PICK o \in Outcomes :
         /\ Command(o, TRUE)
         /\ Goto(IF ~Heard(o) THEN "after"
                 ELSE IF o = "done" /\ modem.nat # asr THEN "setnat" ELSE "sim")
  BY DEF AtNat
<1>2. InitSteady BY InitIsSteady
<1>7. Calmly' => o = "done" \/ o = "refused"
  <2>1. Calmly' => Calmly /\ Reachable
    BY <1>2, CalmlyBefore DEF AtNat, At, BootInv, InitSteady
  <2>. QED BY <1>0, <2>1, CalmCommand
<1>1. /\ pc = "nat" /\ mode.ops = "at" /\ modem' = modem /\ UNCHANGED <<asr, reboots>>
      /\ pc' \in {"after", "setnat", "sim"} /\ (pc' = "setnat" => modem.nat # asr)
      /\ Calmly' => pc' # "after"
  BY <1>0, <1>7 DEF AtNat, At, AtInit, Goto, Heard
<1>3. GoneInv' /\ LeftInv' /\ (Calmly' => NoStop') BY <1>1, <1>2, InitKeepsStop
<1>4. Calmly' => Calmly /\ ~modem.booting /\ Reachable
  BY <1>1, <1>2, CalmlyBefore DEF BootInv, InitSteady, Early
<1>5. BootInv' BY <1>1, <1>2, <1>4 DEF BootInv, InitSteady, Early, Reachable
<1>6. RestartInv'
  <2>1. reboots \in Nat BY DEF RestartInv
  <2>2. Restarts' = reboots /\ Restarts = reboots BY <1>1, <2>1 DEF Restarts
  <2>3. Calmly' => Calmly BY <1>4
  <2>4. (modem.asr /\ ~asr) => FALSE BY <1>1 DEF RestartInv
  <2>. QED BY <1>1, <2>1, <2>2, <2>3, <2>4 DEF RestartInv
<1>. QED BY <1>3, <1>5, <1>6

\* The modem is told to restart only when its NAT mode has been changed.
LEMMA SetNatKeeps ==
  ASSUME Types, GoneInv, LeftInv, Calmly => NoStop, BootInv, RestartInv, AtSetNat
  PROVE  GoneInv' /\ LeftInv' /\ (Calmly' => NoStop') /\ BootInv' /\ RestartInv'
<1>0. modem.nat \in BOOLEAN /\ asr \in BOOLEAN /\ modem \in Modem BY DEF Types, Modem
<1>1. PICK o \in Outcomes :
         /\ Command(o, TRUE) /\ Does(o, [modem EXCEPT !.nat = asr])
         /\ Goto(IF o = "done" THEN "reboot" ELSE "sim")
  BY DEF AtSetNat
<1>2. pc = "setnat" /\ mode.ops = "at" /\ UNCHANGED <<asr, reboots>>
  BY DEF AtSetNat, At, AtInit
<1>3. /\ pc' \in {"reboot", "sim"} /\ modem'.booting = modem.booting
      /\ modem'.nat \in {modem.nat, asr} /\ (pc' = "reboot" => modem'.nat = asr)
  BY <1>0, <1>1 DEF Goto, Does, Happens, Modem
<1>4. InitSteady BY InitIsSteady
<1>5. GoneInv' /\ LeftInv' /\ (Calmly' => NoStop') BY <1>3, <1>4, InitKeepsStop
<1>6. Calmly' => Calmly /\ ~modem.booting /\ Reachable
  BY <1>2, <1>4, CalmlyBefore DEF BootInv, InitSteady, Early
<1>7. BootInv' BY <1>2, <1>3, <1>4, <1>6 DEF BootInv, InitSteady, Early, Reachable
<1>8. RestartInv'
  <2>1. reboots \in Nat /\ modem.nat # asr BY <1>2 DEF RestartInv
  <2>2. Restarts = reboots BY <1>2, <2>1 DEF Restarts
  <2>3. reboots <= (IF asr /\ ~Calmly THEN 1 ELSE 0) BY <2>1, <2>2 DEF RestartInv
  <2>4. Calmly' => Calmly BY <1>6
  <2>5. reboots <= (IF asr' /\ ~Calmly' THEN 1 ELSE 0) BY <1>2, <2>1, <2>3, <2>4
  <2>6. ~(modem'.asr /\ ~asr') BY <1>2, <1>4 DEF RestartInv, InitSteady
  <2>7. Restarts' <= (IF modem'.nat = asr' THEN 1 ELSE 0) + (IF asr' /\ ~Calmly' THEN 1 ELSE 0)
    <3>1. CASE pc' = "reboot"
      <4>1. Restarts' = reboots + 1 BY <1>2, <3>1 DEF Restarts
      <4>. QED BY <1>2, <1>3, <2>1, <2>5, <3>1, <4>1
    <3>2. CASE pc' # "reboot"
      <4>1. Restarts' = reboots BY <1>2, <2>1, <3>2 DEF Restarts
      <4>. QED BY <2>1, <2>5, <4>1
    <3>. QED BY <3>1, <3>2
  <2>. QED BY <1>2, <1>3, <2>1, <2>6, <2>7 DEF RestartInv
<1>. QED BY <1>5, <1>7, <1>8

\* The restart that was to be ordered is counted when it is.
LEMMA RebootKeeps ==
  ASSUME Types, GoneInv, LeftInv, Calmly => NoStop, BootInv, RestartInv, AtReboot
  PROVE  GoneInv' /\ LeftInv' /\ (Calmly' => NoStop') /\ BootInv' /\ RestartInv'
<1>0. modem \in Modem BY DEF Types
<1>1. PICK o \in Outcomes :
         /\ Command(o, TRUE) /\ Does(o, [modem EXCEPT !.booting = TRUE])
         /\ reboots' = IF Happens(o) THEN reboots + 1 ELSE reboots
  BY DEF AtReboot
<1>2. pc = "reboot" /\ mode.ops = "at" /\ asr' = asr /\ pc' = "sim"
  BY DEF AtReboot, At, AtInit, Goto
<1>3. modem'.nat = modem.nat /\ (modem'.booting => modem.booting \/ Happens(o))
  BY <1>0, <1>1 DEF Does, Modem
<1>4. InitSteady BY InitIsSteady
<1>5. GoneInv' /\ LeftInv' /\ (Calmly' => NoStop') BY <1>2, <1>4, InitKeepsStop
<1>6. Calmly' => Calmly /\ ~modem.booting /\ Reachable
  BY <1>2, <1>4, CalmlyBefore DEF BootInv, InitSteady, Early
<1>7. BootInv'
  <2>1. Happens(o) => Reachable BY <1>1 DEF Happens, Command
  <2>2. modem'.booting => modem'.present
    BY <1>3, <1>4, <2>1 DEF BootInv, InitSteady, Reachable
  <2>. QED BY <1>2, <1>4, <1>6, <2>2 DEF BootInv, InitSteady, Early, Reachable
<1>8. RestartInv'
  <2>1. reboots \in Nat BY DEF RestartInv
  <2>2. Restarts = reboots + 1 BY <1>2 DEF Restarts
  <2>3. Restarts' = reboots' /\ reboots' \in Nat /\ reboots' <= reboots + 1
    BY <1>1, <1>2, <2>1 DEF Restarts
  <2>4. Calmly' => Calmly BY <1>6
  <2>5. ~(modem'.asr /\ ~asr') BY <1>2, <1>4 DEF RestartInv, InitSteady
  <2>6. reboots + 1 <= (IF modem.nat = asr THEN 1 ELSE 0) + (IF asr /\ ~Calmly THEN 1 ELSE 0)
    BY <2>2 DEF RestartInv
  <2>7. Restarts' <= (IF modem'.nat = asr' THEN 1 ELSE 0) + (IF asr' /\ ~Calmly' THEN 1 ELSE 0)
    BY <1>2, <1>3, <2>1, <2>3, <2>4, <2>6
  <2>. QED BY <1>2, <2>3, <2>5, <2>7 DEF RestartInv
<1>. QED BY <1>5, <1>7, <1>8

-----------------------------------------------------------------------------
(* Sessions and their loop                                                 *)

\* Whoever finds a modem starts its initialisation.
LEMMA ConnectGoes ==
  ASSUME Types, Connect
  PROVE  /\ pc' \in {"after", "style", "handshake", "configure", "open"}
         /\ reader' = IF modem.present THEN "run" ELSE "dead"
         /\ (pc' = "after") <=> (~modem.present \/ devq # <<>>)
BY DEF Connect

\* Main's own steps leave the modem alone, and do not order a restart.
LEMMA MainSteady ==
  ASSUME Types, Session \/ Loop
  PROVE  /\ UNCHANGED <<mode, asr, modem, faults, stops, reboots>>
         /\ pc' \notin {"nat", "setnat", "reboot"}
<1>. USE DEF Main, Goto
<1>0. CASE Connect BY <1>0, ConnectGoes DEF Connect
<1>1. CASE Begin \/ Quit \/ Join \/ Again \/ Exit BY <1>1 DEF Begin, Quit, Join, Again, Exit
<1>2. CASE PollTimeout \/ PollEvent \/ StartRefused \/ Start \/ Dialled
  BY <1>2 DEF PollTimeout, PollEvent, StartRefused, Start, Dialled, Handled
<1>3. CASE PollSignal
  <2>1. Head(sigq) \in {"START", "CHECK", "STOP"} BY <1>3 DEF PollSignal, Types
  <2>. QED BY <1>3, <2>1 DEF PollSignal
<1>4. CASE Check \/ Checked \/ Stop \/ Release
  BY <1>4 DEF Check, Checked, Stop, Release, Handled
<1>5. CASE DeviceGone \/ NetworkChanged \/ CallListChanged
  BY <1>5 DEF DeviceGone, NetworkChanged, CallListChanged, Handled
<1>. QED BY <1>0, <1>1, <1>2, <1>3, <1>4, <1>5 DEF Session, Loop

\* So what says how often the modem was restarted stays true.
LEMMA MainRestart == ASSUME Types, RestartInv, Session \/ Loop PROVE RestartInv'
<1>1. faults' \in 0..faults BY MainSteady, RequestAssumption DEF Types
<1>. QED BY <1>1, MainSteady, RestartKept

\* A session begins without a word of the last one's device thread.
LEMMA SessionGone == ASSUME Types, GoneInv, Session PROVE GoneInv'
<1>0. Calmly' => Calmly BY MainSteady DEF Calmly
<1>. USE DEF GoneInv, Goto, SessionOpen
<1>1. CASE Begin BY <1>1 DEF Begin
<1>2. CASE Connect
  <2>1. devq' = devq /\ (devq # <<>> => pc' = "after") /\ pc' # "connect" BY <1>2 DEF Connect
  <2>. QED BY <2>1
<1>3. CASE Quit BY <1>3 DEF Quit
<1>4. CASE Join BY <1>4 DEF Join
<1>5. CASE Again BY <1>5 DEF Again
<1>6. CASE Exit BY <1>6 DEF Exit
<1>. QED BY <1>1, <1>2, <1>3, <1>4, <1>5, <1>6 DEF Session

\* The loop's own steps put no word of the device thread into the queue.
LEMMA LoopGone == ASSUME Types, EventInv, GoneInv, Loop PROVE GoneInv'
<1>. USE DEF Goto
<1>1. CASE \/ PollTimeout \/ PollEvent \/ StartRefused \/ Start \/ Dialled
           \/ Check \/ Checked \/ Stop \/ Release
  <2>1. UNCHANGED <<devq, reader>> /\ pc' # "connect" /\ SessionOpen
    BY <1>1 DEF PollTimeout, PollEvent, StartRefused, Start, Dialled, Check, Checked, Stop,
                Release, Handled, SessionOpen
  <2>. QED BY <2>1 DEF GoneInv
<1>2. CASE PollSignal
  <2>1. Head(sigq) \in {"START", "CHECK", "STOP"} BY <1>2 DEF PollSignal, Types
  <2>. QED BY <1>2, <2>1 DEF PollSignal, GoneInv, SessionOpen
<1>3. CASE DeviceGone \/ NetworkChanged \/ CallListChanged
  <2>1. devq \in Seq({"NETWORK", "CALLS", "DISCONNECTED"}) /\ devq # <<>>
    BY <1>3 DEF DeviceGone, NetworkChanged, CallListChanged, Event, EventInv, Types
  <2>2. devq' = Tail(devq) /\ reader' = reader /\ pc' # "connect" /\ SessionOpen
    BY <1>3 DEF DeviceGone, NetworkChanged, CallListChanged, Event, Handled, SessionOpen
  <2>3. \A i \in DOMAIN Tail(devq) : i + 1 \in DOMAIN devq /\ Tail(devq)[i] = devq[i + 1]
    BY <2>1
  <2>. QED BY <2>2, <2>3 DEF GoneInv
<1>. QED BY <1>1, <1>2, <1>3 DEF Loop

\* A device thread stays behind only when its init failed or its session began with
\* the word of another.
LEMMA SessionLeft == ASSUME Types, GoneInv, LeftInv, Session PROVE LeftInv'
<1>0. mode' = mode /\ (Calmly' => Calmly) BY MainSteady DEF Calmly
<1>. USE DEF LeftInv, Goto
<1>1. CASE Begin
  <2>0. mode.ops \in {"at", "mbim"} BY RequestAssumption DEF Types
  <2>1. Calmly \/ mode.ops = "mbim" => ~Alive BY <1>1, <2>0 DEF Begin, Alive
  <2>. QED BY <1>0, <1>1, <2>1 DEF Begin
<1>2. CASE Connect
  <2>1. UNCHANGED <<left, restart>> /\ reader' \in {"run", "dead"} /\ pc' # "begin"
    BY <1>2 DEF Connect
  <2>2. Calmly /\ pc' = "after" => reader' = "dead" BY <1>2 DEF Connect, GoneInv
  <2>. QED BY <1>0, <2>1, <2>2
<1>3. CASE Quit BY <1>0, <1>3 DEF Quit
<1>4. CASE Join BY <1>0, <1>4 DEF Join
<1>5. CASE Again BY <1>0, <1>5 DEF Again
<1>6. CASE Exit BY <1>0, <1>6 DEF Exit
<1>. QED BY <1>1, <1>2, <1>3, <1>4, <1>5, <1>6 DEF Session

\* None stays behind while the loop runs.
LEMMA LoopLeft == ASSUME Types, LeftInv, Loop PROVE LeftInv'
<1>0. mode' = mode /\ (Calmly' => Calmly) BY MainSteady DEF Calmly
<1>1. UNCHANGED <<left, reader, restart>>
  BY DEF Loop, PollTimeout, PollSignal, PollEvent, StartRefused, Start, Dialled, Check, Checked,
         Stop, Release, DeviceGone, NetworkChanged, CallListChanged
<1>2. pc' \notin {"begin", "after"}
  <2>1. CASE PollSignal
    <3>1. Head(sigq) \in {"START", "CHECK", "STOP"} BY <2>1 DEF PollSignal, Types
    <3>. QED BY <2>1, <3>1 DEF PollSignal, Goto
  <2>2. CASE Loop /\ ~PollSignal
    BY <2>2 DEF Loop, PollTimeout, PollEvent, StartRefused, Start, Dialled, Check, Checked,
                Stop, Release, DeviceGone, NetworkChanged, CallListChanged, Goto, Handled
  <2>. QED BY <2>1, <2>2
<1>. QED BY <1>0, <1>1, <1>2 DEF LeftInv

\* Nobody but a signal stops a session.
LEMMA SessionNoStop ==
  ASSUME Types, Calmly => NoStop, Session
  PROVE  Calmly' => NoStop'
<1>. SUFFICES ASSUME Calmly' PROVE NoStop'
  OBVIOUS
<1>0. NoStop BY MainSteady DEF Calmly
<1>. USE <1>0 DEF NoStop, Goto
<1>1. CASE Begin BY <1>1, EmptyType DEF Begin
<1>2. CASE Connect BY <1>2, ConnectGoes DEF Connect
<1>3. CASE Quit BY <1>3 DEF Quit
<1>4. CASE Join BY <1>4, EmptyType DEF Join
<1>5. CASE Again BY <1>5 DEF Again
<1>6. CASE Exit BY <1>6 DEF Exit
<1>. QED BY <1>1, <1>2, <1>3, <1>4, <1>5, <1>6 DEF Session

\* The loop does not stop a session either unless a stop was sent to it.
LEMMA LoopNoStop ==
  ASSUME Types, Calmly => NoStop, Loop
  PROVE  Calmly' => NoStop'
<1>. SUFFICES ASSUME Calmly' PROVE NoStop'
  OBVIOUS
<1>0. NoStop BY MainSteady DEF Calmly
<1>. USE DEF NoStop, Goto, Handled
<1>1. CASE PollEvent \/ StartRefused \/ Start \/ Dialled \/ DeviceGone \/ NetworkChanged
  <2>1. UNCHANGED <<sigq, ctl, drain>>
    BY <1>1 DEF PollEvent, StartRefused, Start, Dialled, DeviceGone, NetworkChanged
  <2>2. pc' \in {"event", "poll", "dial", "quit", "reg"}
    BY <1>1 DEF PollEvent, StartRefused, Start, Dialled, DeviceGone, NetworkChanged
  <2>. QED BY <1>0, <2>1, <2>2
<1>4. CASE Stop \/ Release BY <1>0, <1>4 DEF Stop, Release
<1>5. CASE PollTimeout BY <1>0, <1>5 DEF PollTimeout
<1>2. CASE PollSignal
  <2>1. sigq \in Seq({"START", "CHECK"}) /\ sigq # <<>> BY <1>0, <1>2 DEF PollSignal
  <2>2. Tail(sigq) \in Seq({"START", "CHECK"}) /\ Head(sigq) \in {"START", "CHECK"} BY <2>1
  <2>. QED BY <1>0, <1>2, <2>2 DEF PollSignal
<1>3. CASE Check \/ Checked \/ CallListChanged
  <2>1. sigq' \in Seq({"START", "CHECK"})
    BY <1>0, <1>3, NoStopAppend DEF Check, Checked, CallListChanged
  <2>. QED BY <1>0, <1>3, <2>1 DEF Check, Checked, CallListChanged
<1>. QED BY <1>1, <1>2, <1>3, <1>4, <1>5 DEF Loop

\* Between sessions no modem is about to restart; one begins with a modem there.
LEMMA SessionBoot ==
  ASSUME Types, GoneInv, BootInv, Session
  PROVE  BootInv'
<1>0. UNCHANGED <<mode, modem, faults>> /\ (Calmly' <=> Calmly) BY MainSteady DEF Calmly
<1>. USE DEF BootInv, Goto, Early, Reachable
<1>1. CASE Begin BY <1>0, <1>1 DEF Begin
<1>2. CASE Connect
  <2>1. pc = "connect" /\ (modem.booting => ~Calmly) BY <1>2 DEF Connect
  <2>2. Calmly /\ pc' # "after" => modem.present /\ reader' = "run" BY <1>2 DEF Connect
  <2>. QED BY <1>0, <1>2, <2>1, <2>2, ConnectGoes DEF Connect
<1>3. CASE Quit BY <1>0, <1>3 DEF Quit
<1>4. CASE Join BY <1>0, <1>4 DEF Join
<1>5. CASE Again BY <1>0, <1>5 DEF Again
<1>6. CASE Exit BY <1>0, <1>6 DEF Exit
<1>. QED BY <1>1, <1>2, <1>3, <1>4, <1>5, <1>6 DEF Session

\* A session's loop ends without a stop only when its device thread has left.
LEMMA LoopBoot ==
  ASSUME Types, EventInv, GoneInv, Calmly => NoStop, BootInv, Loop
  PROVE  BootInv'
<1>0. UNCHANGED <<mode, modem, faults>> /\ (Calmly' <=> Calmly) BY MainSteady DEF Calmly
<1>. USE DEF BootInv, Goto, Early, Reachable, Handled
<1>1. CASE \/ PollTimeout \/ PollEvent \/ StartRefused \/ Start \/ Dialled
           \/ Check \/ Checked \/ Stop \/ NetworkChanged \/ CallListChanged
  BY <1>0, <1>1 DEF PollTimeout, PollEvent, StartRefused, Start, Dialled, Check, Checked, Stop,
                    NetworkChanged, CallListChanged
<1>2. CASE PollSignal
  <2>1. Head(sigq) \in {"START", "CHECK", "STOP"} BY <1>2 DEF PollSignal, Types
  <2>. QED BY <1>0, <1>2, <2>1 DEF PollSignal
<1>3. CASE Release
  <2>1. ~Calmly BY <1>3 DEF Release, NoStop
  <2>. QED BY <1>0, <1>3, <2>1 DEF Release
<1>4. CASE DeviceGone
  <2>1. devq \in Seq({"NETWORK", "CALLS", "DISCONNECTED"}) /\ devq # <<>>
    BY <1>4 DEF DeviceGone, Event, EventInv, Types
  <2>2. 1 \in DOMAIN devq /\ devq[1] = "DISCONNECTED" BY <1>4, <2>1 DEF DeviceGone, Event
  <2>3. reader # "run" BY <1>4, <2>2 DEF GoneInv, SessionOpen, DeviceGone, Event
  <2>. QED BY <1>0, <1>4, <2>3 DEF DeviceGone
<1>. QED BY <1>1, <1>2, <1>3, <1>4 DEF Loop

-----------------------------------------------------------------------------
(* Device thread, signals and network                                      *)

\* The device thread says its last word when it leaves; without a fault it leaves
\* only when the modem has gone.
LEMMA ReaderKeeps ==
  ASSUME Types, GoneInv, LeftInv, Calmly => NoStop, BootInv, RestartInv,
         Reader \/ ReaderNotices
  PROVE  GoneInv' /\ LeftInv' /\ (Calmly' => NoStop') /\ BootInv' /\ RestartInv'
<1>1. /\ Alive /\ UNCHANGED <<mode, pc, asr, sigq, modem, faults, stops, reboots, restart, left>>
      /\ Calmly' <=> Calmly
  BY DEF Reader, ReaderStop, ReaderQuit, ReaderIdle, ReaderNotices, Leaves, Says, Device, Calmly,
         Alive
<1>2. RestartInv' BY <1>1 DEF RestartInv, Restarts
<1>0. pc # "connect" BY <1>1 DEF Alive, GoneInv
<1>3. CASE ReaderStop
  <2>1. ~Calmly BY <1>3 DEF ReaderStop, NoStop
  <2>2. reader' = reader /\ devq' = devq BY <1>3 DEF ReaderStop
  <2>3. GoneInv' BY <1>0, <1>1, <2>2 DEF GoneInv, SessionOpen
  <2>4. LeftInv' BY <1>1, <2>2 DEF LeftInv
  <2>. QED BY <1>1, <1>2, <2>1, <2>3, <2>4 DEF BootInv
<1>4. CASE ReaderQuit \/ ReaderIdle \/ ReaderNotices
  <2>1. reader' = "dead" /\ UNCHANGED <<ctl, drain>>
    BY <1>4 DEF ReaderQuit, ReaderIdle, ReaderNotices, Leaves, Says, Device
  <2>2. GoneInv' BY <1>0, <1>1, <2>1 DEF GoneInv
  <2>3. Calmly => ~modem.present
    BY <1>4 DEF ReaderQuit, ReaderIdle, ReaderNotices, NoStop, LeftInv
  <2>4. BootInv' BY <1>1, <2>1, <2>3 DEF BootInv, Reachable
  <2>5. LeftInv' BY <1>1, <2>1 DEF LeftInv
  <2>. QED BY <1>1, <1>2, <2>1, <2>2, <2>4, <2>5 DEF NoStop
<1>. QED BY <1>3, <1>4 DEF Reader

\* Where a thread was left behind something has failed before.
LEMMA LeftKeeps ==
  ASSUME Types, GoneInv, LeftInv, BootInv, RestartInv, Left
  PROVE  GoneInv' /\ LeftInv' /\ (Calmly' => NoStop') /\ BootInv' /\ RestartInv'
<1>1. /\ left # {} /\ UNCHANGED <<mode, pc, asr, modem, faults, stops, reboots, restart>>
      /\ \/ reader' = reader /\ devq' = devq
         \/ reader' = "deaf" /\ Alive /\ devq' = devq
         \/ reader' = IF Alive THEN "cut" ELSE reader
  <2>1. CASE LeftStop BY <2>1 DEF LeftStop, Device
  <2>2. CASE LeftQuit BY <2>2 DEF LeftQuit, LeftLeaves, Says, Device
  <2>3. CASE Leaving BY <2>3 DEF Leaving, LeftIdle, LeftHangup, LeftLeaves, Says, Device
  <2>4. CASE Deafens BY <2>4 DEF Deafens, Device, Alive, Reachable
  <2>. QED BY <2>1, <2>2, <2>3, <2>4 DEF Left
<1>2. mode.ops \in {"at", "mbim"} BY RequestAssumption DEF Types
<1>3. ~Calmly /\ ~Calmly' /\ mode.ops = "at"
  <2>1. ~Calmly BY <1>1 DEF LeftInv
  <2>2. ~Calmly' BY <1>1, <2>1 DEF Calmly
  <2>3. mode.ops # "mbim" BY <1>1 DEF LeftInv
  <2>. QED BY <1>2, <2>1, <2>2, <2>3
<1>4. GoneInv'
  <2>1. CASE reader' = reader /\ devq' = devq BY <1>1, <1>3, <2>1 DEF GoneInv, SessionOpen
  <2>2. CASE reader' \in {"deaf", "cut"} /\ Alive BY <1>1, <2>2 DEF GoneInv, Alive
  <2>3. CASE ~Alive /\ reader' = reader BY <1>1, <1>3, <2>3 DEF GoneInv, Alive
  <2>. QED BY <1>1, <2>1, <2>2, <2>3
<1>5. LeftInv' BY <1>1, <1>3 DEF LeftInv
<1>6. BootInv' BY <1>1, <1>3 DEF BootInv
<1>7. RestartInv' BY <1>1, <1>3 DEF RestartInv, Restarts
<1>. QED BY <1>3, <1>4, <1>5, <1>6, <1>7

\* Signals other than a stop do not stop the session.
LEMMA SignalsKeep ==
  ASSUME Types, GoneInv, LeftInv, Calmly => NoStop, BootInv, RestartInv, Signals
  PROVE  GoneInv' /\ LeftInv' /\ (Calmly' => NoStop') /\ BootInv' /\ RestartInv'
<1>1. /\ UNCHANGED <<mode, pc, asr, reader, devq, modem, reboots, drain, left>>
      /\ faults' \in 0..faults /\ stops' \in {stops, stops - 1}
      /\ restart' \in {restart, FALSE}
  <2>0. faults \in 0..faults BY RequestAssumption DEF Types
  <2>1. CASE PostStop BY <2>0, <2>1 DEF PostStop
  <2>2. CASE AlarmFires BY <2>0, <2>2 DEF AlarmFires, Main
  <2>3. CASE HoldExpires BY <2>0, <2>3 DEF HoldExpires, Main
  <2>. QED BY <2>1, <2>2, <2>3 DEF Signals
<1>3. Calmly' => Calmly BY <1>1, CalmlyBefore
<1>2. GoneInv' /\ LeftInv'
  <2>1. GoneInv' BY <1>1, <1>3 DEF GoneInv, SessionOpen
  <2>2. ~restart => ~restart' BY <1>1
  <2>3. LeftInv' BY <1>1, <1>3, <2>2 DEF LeftInv
  <2>. QED BY <2>1, <2>3
<1>4. BootInv' BY <1>1, <1>3 DEF BootInv, Reachable
<1>5. RestartInv'
  <2>1. asr' = asr BY DEF Signals, PostStop, AlarmFires, HoldExpires, Main
  <2>. QED BY <1>1, <2>1, RestartKept
<1>6. Calmly' => NoStop'
  <2>1. CASE PostStop
    <3>1. ~Calmly' BY <2>1, RequestAssumption DEF PostStop, Calmly, Types
    <3>. QED BY <3>1
  <2>2. CASE AlarmFires
    BY <1>1, <1>3, <2>2, NoStopAppend DEF AlarmFires, NoStop
  <2>3. CASE HoldExpires BY <1>1, <1>3, <2>3 DEF HoldExpires, NoStop
  <2>. QED BY <2>1, <2>2, <2>3 DEF Signals
<1>. QED BY <1>2, <1>4, <1>5, <1>6

\* What modem and network leave alone.
LEMMA NetworkSteady ==
  ASSUME Types, BootInv, Network
  PROVE  /\ UNCHANGED <<mode, main, asr, restart, device, ctl, sigq, devReady, stops, reboots>>
         /\ devq' \in {devq, Append(devq, "CALLS"), Append(devq, "NETWORK")}
         /\ devq' # devq => reader \in {"run", "deaf"}
         /\ faults' \in 0..faults
         /\ modem'.asr = modem.asr /\ modem'.nat = modem.nat
         /\ modem'.booting => modem.booting /\ modem'.present = modem.present
<1>0. modem \in Modem /\ faults \in 0..faults BY RequestAssumption DEF Types
<1>. USE DEF Outside, Tells, Faulty, Modem
<1>1. CASE CallDrops BY <1>0, <1>1 DEF CallDrops
<1>2. CASE Detach BY <1>0, <1>2 DEF Detach
<1>3. CASE Attach BY <1>0, <1>3 DEF Attach
<1>4. CASE Suspend BY <1>0, <1>4 DEF Suspend
<1>5. CASE Unplug BY <1>0, <1>5 DEF Unplug, Off
<1>6. CASE Replug BY <1>0, <1>6 DEF Replug, BootInv
<1>. QED BY <1>1, <1>2, <1>3, <1>4, <1>5, <1>6 DEF Network

\* A modem disappears without a fault only when it restarts.
LEMMA NetworkKeeps ==
  ASSUME Types, GoneInv, LeftInv, Calmly => NoStop, BootInv, RestartInv, Network
  PROVE  GoneInv' /\ LeftInv' /\ (Calmly' => NoStop') /\ BootInv' /\ RestartInv'
<1>2. Calmly' => Calmly BY CalmlyBefore, NetworkSteady
<1>7. LeftInv' BY <1>2, NetworkSteady DEF LeftInv
<1>1. GoneInv'
  <2>0. pc' = pc /\ reader' = reader BY NetworkSteady
  <2>1. CASE devq' = devq BY <1>2, <2>0, <2>1 DEF GoneInv, SessionOpen
  <2>2. CASE devq' # devq
    <3>1. /\ devq' \in {Append(devq, "CALLS"), Append(devq, "NETWORK")}
          /\ reader \in {"run", "deaf"}
      BY <2>2, NetworkSteady
    <3>2. pc' # "connect" BY <2>0, <3>1 DEF GoneInv
    <3>. QED BY <2>0, <3>1, <3>2, GoneAppend DEF SessionOpen
  <2>. QED BY <2>1, <2>2
<1>3. Calmly' => NoStop' BY <1>2, NetworkSteady DEF NoStop
<1>4. RestartInv' BY RestartKept, NetworkSteady
<1>5. Calmly' /\ pc \in {"handshake", "style", "nat", "setnat", "reboot"} => modem'.present
  <2>. SUFFICES ASSUME Calmly', pc \in {"handshake", "style", "nat", "setnat", "reboot"}
                PROVE  modem'.present
    OBVIOUS
  <2>1. ~modem.booting /\ Reachable BY <1>2 DEF BootInv, Early
  <2>2. ~Faulty BY <1>2, RequestAssumption DEF Faulty, Calmly, Types
  <2>3. Attach \/ Replug
    BY <2>1, <2>2 DEF Network, CallDrops, Detach, Suspend, Unplug
  <2>. QED BY <2>1, <2>3 DEF Attach, Replug, Reachable, Types, Modem
<1>6. BootInv' BY <1>2, <1>5, NetworkSteady DEF BootInv, Reachable
<1>. QED BY <1>1, <1>3, <1>4, <1>6, <1>7

-----------------------------------------------------------------------------
(* Events are handled only when there are any                              *)

\* After a registration main handles an event only if poll() reported it earlier.
LEMMA RegisteredEvents ==
  ASSUME Types, EventInv, pc \in Registering, NEW p, Registered(p), devq' = devq
  PROVE  EventInv'
<1>. USE DEF EventInv, Registering, Starting, Goto
<1>0. back \in {"poll", "check", "network"} BY DEF Types
<1>1. CASE back = "poll" BY <1>1 DEF Registered
<1>2. CASE back = "check" BY <1>2 DEF Registered, Return
<1>3. CASE back = "network" BY <1>3 DEF Registered, Return
<1>. QED BY <1>0, <1>1, <1>2, <1>3

\* An event in the queue stays there while another comes.
LEMMA AppendNotEmpty ==
  ASSUME Types, NEW e
  PROVE  Append(devq, e) # <<>>
BY DEF Types

\* No AT command leaves main with an event to handle that poll() did not report.
LEMMA AtEvents ==
  ASSUME Types, EventInv,
         AtHandshake \/ AtStyle \/ AtNat \/ AtSetNat \/ AtReboot \/ AtSimStatus
         \/ AtEnterSimPin \/ AtGetProfile \/ AtDefineProfile \/ AtGetContexts
         \/ AtSetProfile \/ AtOperator \/ AtRegistration \/ AtContextActive
         \/ AtActivate \/ AtBind \/ AtWait \/ AtQueryStatus \/ AtQueryBinding
         \/ AtQueryContext \/ AtGetIPAddress \/ AtDeactivate
  PROVE  EventInv'
<1>. USE DEF Goto, Outcomes, Calm, EventInv, Starting, Registering, At
<1>1. CASE AtHandshake BY <1>1 DEF AtHandshake, AtInit
<1>2. CASE AtStyle BY <1>2 DEF AtStyle, AtInit
<1>3. CASE AtNat BY <1>3 DEF AtNat, AtInit
<1>4. CASE AtSetNat BY <1>4 DEF AtSetNat, Does, AtInit
<1>5. CASE AtReboot BY <1>5 DEF AtReboot, Does, AtInit
<1>6. CASE AtSimStatus BY <1>6 DEF AtSimStatus, AtInit
<1>7. CASE AtEnterSimPin BY <1>7 DEF AtEnterSimPin, Does, AtInit
<1>8. CASE AtGetProfile BY <1>8 DEF AtGetProfile, ToSetProfile, AtInit
<1>9. CASE AtDefineProfile BY <1>9 DEF AtDefineProfile, Does, AtInit
<1>10. CASE AtGetContexts BY <1>10 DEF AtGetContexts, ToSetProfile, AtInit
<1>11. CASE AtSetProfile BY <1>11 DEF AtSetProfile, Does, AtInit
<1>12. CASE AtOperator BY <1>12, RegisteredEvents DEF AtOperator, AtOnly
<1>13. CASE AtRegistration BY <1>13, RegisteredEvents DEF AtRegistration, AtOnly
<1>14. CASE AtContextActive BY <1>14 DEF AtContextActive, Failed, SetUp, AtCalls, AtOnly
<1>15. CASE AtActivate BY <1>15 DEF AtActivate, Does, Failed, SetUp, AtCalls, AtOnly
<1>16. CASE AtBind BY <1>16, AppendNotEmpty DEF AtBind, Does, SetUp, Failed, AtCalls, AtOnly
<1>17. CASE AtWait BY <1>17, AppendNotEmpty DEF AtWait, SetUp, AtCalls, AtOnly
<1>18. CASE AtQueryStatus BY <1>18 DEF AtQueryStatus, Queried, AtStatus, AtOnly
<1>19. CASE AtQueryBinding BY <1>19 DEF AtQueryBinding, Queried, AtStatus, AtOnly
<1>20. CASE AtQueryContext BY <1>20 DEF AtQueryContext, Queried, AtStatus, AtOnly
<1>21. CASE AtGetIPAddress BY <1>21 DEF AtGetIPAddress, GotAddress, AtStatus, AtOnly
<1>22. CASE AtDeactivate BY <1>22 DEF AtDeactivate, Does, AtStatus, AtOnly
<1>. QED BY <1>1, <1>2, <1>3, <1>4, <1>5, <1>6, <1>7, <1>8, <1>9, <1>10, <1>11, <1>12,
         <1>13, <1>14, <1>15, <1>16, <1>17, <1>18, <1>19, <1>20, <1>21, <1>22

\* No MBIM command does.
LEMMA MbimEvents ==
  ASSUME Types, EventInv,
         MbimConfigure \/ MbimOpen \/ MbimCaps \/ MbimServices \/ MbimVersion
         \/ MbimRadio \/ MbimSimStatus \/ MbimSimSeen \/ MbimRegister
         \/ MbimRegisterSeen \/ MbimPacketService \/ MbimPacketSeen
         \/ MbimAttach \/ MbimAttachSeen \/ MbimConnect \/ MbimConnectSeen
         \/ MbimQueryConnect \/ MbimQuerySeen \/ MbimGetIPAddress
         \/ MbimDisconnect \/ MbimDisconnectSeen \/ MbimClose
  PROVE  EventInv'
<1>. USE DEF Goto, Outcomes, Calm, EventInv, Starting, Registering, Mbim, MbimOnly
<1>1. CASE MbimConfigure BY <1>1 DEF MbimConfigure, Step, MbimInit
<1>2. CASE MbimOpen BY <1>2 DEF MbimOpen, Does, MbimInit
<1>3. CASE MbimCaps BY <1>3 DEF MbimCaps, Step, MbimInit
<1>4. CASE MbimServices BY <1>4 DEF MbimServices, Step, MbimInit
<1>5. CASE MbimVersion BY <1>5 DEF MbimVersion, Step, MbimInit
<1>6. CASE MbimRadio BY <1>6 DEF MbimRadio, Step, MbimInit
<1>7. CASE MbimSimStatus BY <1>7 DEF MbimSimStatus, Reports, Does, MbimAsks, Silent
<1>8. CASE MbimSimSeen BY <1>8 DEF MbimSimSeen, Makes, MbimAsks, Silent
<1>9. CASE MbimRegister
  BY <1>9, RegisteredEvents
     DEF MbimRegister, Reports, Does, Silent, MbimAsks
<1>10. CASE MbimRegisterSeen
  BY <1>10, RegisteredEvents
     DEF MbimRegisterSeen, Makes, Silent, MbimAsks
<1>11. CASE MbimPacketService
  BY <1>11, RegisteredEvents
     DEF MbimPacketService, Reports, Does, Silent, MbimAsks
<1>12. CASE MbimPacketSeen
  BY <1>12, RegisteredEvents
     DEF MbimPacketSeen, Makes, Silent, MbimAsks
<1>13. CASE MbimAttach
  BY <1>13, RegisteredEvents
     DEF MbimAttach, Reports, Does, Silent, MbimAsks
<1>14. CASE MbimAttachSeen BY <1>14, RegisteredEvents DEF MbimAttachSeen, Makes, MbimAsks
<1>15. CASE MbimConnect BY <1>15 DEF MbimConnect, Reports, Does, Up, SetUp, MbimAsks, Silent
<1>16. CASE MbimConnectSeen BY <1>16 DEF MbimConnectSeen, Makes, SetUp, MbimAsks, Silent
<1>17. CASE MbimQueryConnect BY <1>17 DEF MbimQueryConnect, Reports, Does, Queried, MbimAsks
<1>18. CASE MbimQuerySeen BY <1>18 DEF MbimQuerySeen, Makes, Queried, MbimAsks
<1>19. CASE MbimGetIPAddress BY <1>19 DEF MbimGetIPAddress, GotAddress
<1>20. CASE MbimDisconnect BY <1>20 DEF MbimDisconnect, Reports, Does, MbimAsks, Silent
<1>21. CASE MbimDisconnectSeen BY <1>21 DEF MbimDisconnectSeen, Makes, MbimAsks, Silent
<1>22. CASE MbimClose BY <1>22 DEF MbimClose, Does
<1>. QED BY <1>1, <1>2, <1>3, <1>4, <1>5, <1>6, <1>7, <1>8, <1>9, <1>10, <1>11, <1>12,
         <1>13, <1>14, <1>15, <1>16, <1>17, <1>18, <1>19, <1>20, <1>21, <1>22

\* Nor do main's own steps: only poll(), seeing a queue that is not empty, says
\* that there is an event.
LEMMA MainEvents ==
  ASSUME Types, EventInv,
         Begin \/ Connect \/ Quit \/ Join \/ Again \/ Exit \/ PollTimeout
         \/ PollSignal \/ PollEvent \/ StartRefused \/ Start \/ Dialled \/ Check
         \/ Checked \/ Stop \/ Release \/ DeviceGone \/ NetworkChanged
         \/ CallListChanged
  PROVE  EventInv'
<1>. USE DEF Goto, EventInv, Starting, Registering, Main, Handled
<1>1. CASE Begin BY <1>1 DEF Begin
<1>2. CASE Connect BY <1>2 DEF Connect
<1>3. CASE Quit BY <1>3 DEF Quit
<1>4. CASE Join BY <1>4 DEF Join
<1>5. CASE Again BY <1>5 DEF Again
<1>6. CASE Exit BY <1>6 DEF Exit
<1>7. CASE PollTimeout BY <1>7 DEF PollTimeout
<1>8. CASE PollSignal
  <2>1. Head(sigq) \in {"START", "CHECK", "STOP"} BY <1>8 DEF PollSignal, Types
  <2>. QED BY <1>8, <2>1 DEF PollSignal
<1>9. CASE PollEvent BY <1>9 DEF PollEvent
<1>10. CASE StartRefused BY <1>10 DEF StartRefused
<1>11. CASE Start BY <1>11 DEF Start
<1>12. CASE Dialled BY <1>12 DEF Dialled
<1>13. CASE Check BY <1>13 DEF Check
<1>14. CASE Checked BY <1>14, AppendNotEmpty DEF Checked
<1>15. CASE Stop BY <1>15 DEF Stop
<1>16. CASE Release BY <1>16 DEF Release
<1>17. CASE DeviceGone BY <1>17 DEF DeviceGone, Event
<1>18. CASE NetworkChanged BY <1>18 DEF NetworkChanged, Event
<1>19. CASE CallListChanged BY <1>19 DEF CallListChanged, Event
<1>. QED BY <1>1, <1>2, <1>3, <1>4, <1>5, <1>6, <1>7, <1>8, <1>9, <1>10, <1>11, <1>12,
         <1>13, <1>14, <1>15, <1>16, <1>17, <1>18, <1>19

\* The device thread, signals and the network only add events.
LEMMA OtherEvents ==
  ASSUME Types, EventInv, BootInv, Reader \/ ReaderNotices \/ Left \/ Signals \/ Network
  PROVE  EventInv'
<1>1. UNCHANGED <<pc, back, devReady>>
      /\ devq' \in {devq, Append(devq, "CALLS"), Append(devq, "NETWORK"),
                    Append(devq, "DISCONNECTED")}
  <2>1. CASE Reader \/ ReaderNotices
    BY <2>1 DEF Reader, ReaderStop, ReaderQuit, ReaderIdle, ReaderNotices, Leaves, Says, Device
  <2>4. CASE Left
    BY <2>4 DEF Left, LeftStop, LeftQuit, Leaving, LeftIdle, LeftHangup, LeftLeaves, Deafens,
                Says, Device
  <2>2. CASE Signals BY <2>2 DEF Signals, PostStop, AlarmFires, HoldExpires, Main
  <2>3. CASE Network BY <2>3, NetworkSteady
  <2>. QED BY <2>1, <2>2, <2>3, <2>4
<1>2. devq # <<>> => devq' # <<>> BY <1>1, AppendNotEmpty
<1>. QED BY <1>1, <1>2 DEF EventInv

-----------------------------------------------------------------------------
(* Together                                                                *)

\* The inductive invariant.
IInv ==
  /\ Types /\ EventInv /\ GoneInv /\ LeftInv /\ (Calmly => NoStop) /\ BootInv /\ RestartInv

\* The program's and the modem's initial states.
LEMMA InitIInv == Init => IInv
<1>. SUFFICES ASSUME Init PROVE IInv
  OBVIOUS
<1>1. Types
  <2>1. modem \in Modem BY DEF Init
  <2>2. mode \in [ops : Modes, proxy : BOOLEAN, stops : 0..MaxStops] BY RequestAssumption DEF Init
  <2>3. 0 \in 0..Tries /\ faults \in 0..MaxFaults BY RequestAssumption DEF Init
  <2>10. stops \in 0..mode.stops
    <3>1. mode.stops \in Nat BY <2>2, RequestAssumption
    <3>. QED BY <3>1 DEF Init
  <2>4. Unknown \in States BY DEF Unknown, States
  <2>5. back = "poll" /\ t = 0 /\ st = "unknown" /\ reader = "none" /\ ctl = {} /\ left = {}
    BY DEF Init
  <2>6. {ps, hold, asr, link, restart, alarm, devReady, drain} \subseteq BOOLEAN BY DEF Init
  <2>7. addr \in Addresses \cup {0} /\ net \in Addresses \cup {0} /\ old \in {"other", "ours"} BY DEF Init
  <2>8. seen \in States /\ cache \in States BY <2>4 DEF Init
  <2>9. sigq = <<>> /\ devq = <<>> BY DEF Init
  <2>. QED BY <2>1, <2>2, <2>3, <2>5, <2>6, <2>7, <2>8, <2>9, <2>10, EmptyType DEF Types
<1>2. EventInv /\ GoneInv /\ LeftInv
  BY DEF Init, EventInv, GoneInv, LeftInv, Starting, Registering
<1>3. NoStop BY EmptyType DEF Init, NoStop
<1>4. BootInv BY DEF Init, BootInv, Early
<1>5. RestartInv
  <2>1. Restarts = 0 /\ reboots = 0 BY DEF Init, Restarts
  <2>. QED BY <2>1 DEF Init, RestartInv
<1>. QED BY <1>1, <1>2, <1>3, <1>4, <1>5 DEF IInv

\* Every step keeps the types.
LEMMA NextType == ASSUME Types, EventInv, Next PROVE Types'
BY AtInitType, AtRegisterType, AtCallType, MbimInitType, MbimRegisterType, MbimCallType,
   SessionType, LoopType, ReaderType, LeftType, SignalsType, NetworkType
   DEF Next, MainThread, AtCommand, MbimCommand, Session, Loop, Reader, Signals, Network

\* Every step keeps the inductive invariant.
LEMMA NextIInv == ASSUME IInv, [Next]_vars PROVE IInv'
<1>. USE DEF IInv
<1>1. CASE UNCHANGED vars
  BY <1>1 DEF vars, Types, EventInv, GoneInv, SessionOpen, LeftInv, Calmly, NoStop, BootInv, RestartInv, Restarts,
              Reachable
<1>2. CASE Next
  <2>1. Types' BY <1>2, NextType
  <2>2. CASE AtHandshake \/ AtStyle \/ AtNat \/ AtSetNat \/ AtReboot
    <3>1. EventInv' BY <2>2, AtEvents
    <3>. QED BY <2>1, <2>2, <3>1, HandshakeKeeps, StyleKeeps, NatKeeps, SetNatKeeps, RebootKeeps
  <2>3. CASE AtCommand /\ ~(AtHandshake \/ AtStyle \/ AtNat \/ AtSetNat \/ AtReboot)
    <3>1. Steady /\ SessionOpen BY <2>3, AtSteady, CommandOpen DEF AtCommand
    <3>2. EventInv' BY <2>3, AtEvents DEF AtCommand
    <3>. QED BY <2>1, <3>1, <3>2, SteadyKeeps
  <2>4. CASE MbimCommand
    <3>1. Steady /\ SessionOpen BY <2>4, MbimSteady, CommandOpen DEF MbimCommand
    <3>2. EventInv' BY <2>4, MbimEvents DEF MbimCommand
    <3>. QED BY <2>1, <3>1, <3>2, SteadyKeeps
  <2>5. CASE Session \/ Loop
    <3>1. EventInv' BY <2>5, MainEvents DEF Session, Loop
    <3>2. GoneInv' /\ LeftInv' BY <2>5, SessionGone, LoopGone, SessionLeft, LoopLeft
    <3>3. Calmly' => NoStop' BY <2>5, SessionNoStop, LoopNoStop
    <3>4. BootInv' BY <2>5, SessionBoot, LoopBoot
    <3>. QED BY <2>1, <2>5, <3>1, <3>2, <3>3, <3>4, MainRestart
  <2>6. CASE Reader \/ ReaderNotices \/ Left \/ Signals \/ Network
    <3>1. EventInv' BY <2>6, OtherEvents
    <3>. QED BY <2>1, <2>6, <3>1, ReaderKeeps, LeftKeeps, SignalsKeep, NetworkKeeps
  <2>. QED BY <1>2, <2>2, <2>3, <2>4, <2>5, <2>6 DEF Next, MainThread
<1>. QED BY <1>1, <1>2

\* The inductive invariant holds, for either kind of modem, any number of tries
\* and any number of faults and stops.
THEOREM Invariance == Spec => []IInv
<1>1. Init => IInv BY InitIInv
<1>2. IInv /\ [Next]_vars => IInv' BY NextIInv
<1>. QED BY <1>1, <1>2, PTL DEF Spec

\* atc_init and the loop of main.c: every variable keeps its type, no event is
\* taken from an empty queue, and the modem is restarted for its NAT mode once in
\* the life of the process, twice only if something failed or it was stopped.
THEOREM TypeCorrect == Spec => []TypeOK
<1>1. IInv => TypeOK
  <2>. SUFFICES ASSUME IInv
                PROVE  reboots \in 0..(1 + (MaxFaults - faults) + (mode.stops - stops))
    BY DEF IInv, TypeOK
  <2>1. reboots \in Nat /\ reboots <= Restarts BY DEF IInv, RestartInv, Restarts
  <2>2. faults \in 0..MaxFaults /\ stops \in 0..mode.stops BY DEF IInv, Types
  <2>3. Restarts <= (IF modem.nat = asr THEN 1 ELSE 0) + (IF asr /\ ~Calmly THEN 1 ELSE 0)
    BY DEF IInv, RestartInv
  <2>4. reboots <= 1 \/ (reboots <= 2 /\ ~Calmly) BY <2>1, <2>3 DEF Restarts
  <2>5. MaxFaults \in Nat /\ mode.stops \in Nat BY RequestAssumption DEF IInv, Types
  <2>6. MaxFaults - faults \in Nat /\ mode.stops - stops \in Nat BY <2>2, <2>5
  <2>7. ~Calmly => (MaxFaults - faults) + (mode.stops - stops) >= 1 BY <2>2, <2>5 DEF Calmly
  <2>. QED BY <2>1, <2>4, <2>6, <2>7
<1>. QED BY <1>1, Invariance, PTL
=============================================================================
