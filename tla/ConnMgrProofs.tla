--------------------------- MODULE ConnMgrProofs ---------------------------
(***************************************************************************)
(* Proofs about ConnMgr: for every choice of IP families and of what modem *)
(* and network do, with any number of faults and stops.                    *)
(***************************************************************************)
EXTENDS ConnMgr, TLAPS

\* An event is handled, or still to be handled after a signal, only if poll()
\* has reported one; no other step takes it from the queue.
EventInv ==
  /\ pc = "event" \/ devReady => devq # <<>>
  /\ pc \in {"connect", "init", "poll", "event"} => ~devReady

-----------------------------------------------------------------------------
(* Types                                                                   *)

SignalEvents == {"START", "CHECK", "STOP"}
DeviceEvents == {"NETWORK", "CALLS", "RESET", "DISCONNECTED"}
HandleType == [Families -> {"none", "live", "stale"}]
ModemType == [present : BOOLEAN, attached : BOOLEAN, call : [Families -> {0} \cup Addresses]]

USE DEF SignalEvents, DeviceEvents, HandleType, ModemType

\* A request costs at most one of the faults that are left.
LEMMA EndsType ==
  ASSUME TypeOK, NEW o, NEW hasId, Ends(o, hasId)
  PROVE  faults' \in 0..MaxFaults
BY BoundsAssumption DEF Ends, Fault, TypeOK

\* So does everything else that may go wrong.
LEMMA FaultType == ASSUME TypeOK, Fault PROVE faults' \in 0..MaxFaults
BY BoundsAssumption DEF Fault, TypeOK

\* An address that is asked for is the modem's or 0.
LEMMA GetIPAddressType ==
  ASSUME TypeOK, NEW f \in Families, NEW ok \in BOOLEAN, GetIPAddress(f, ok)
  PROVE  ip4' \in {0} \cup Addresses /\ faults' \in 0..MaxFaults
<1>1. modem.call[f] \in {0} \cup Addresses /\ ip4 \in {0} \cup Addresses /\ faults \in 0..MaxFaults
  BY DEF TypeOK
<1>2. CASE handle[f] = "none" /\ NoRequest /\ ip4' = IF f = "v4" THEN 0 ELSE ip4
  BY <1>1, <1>2 DEF NoRequest
<1>3. CASE \E o \in Outcomes :
             /\ Ends(o, f \in cid)
             /\ ip4' = IF f = "v4" THEN IF o = "answer" THEN modem.call[f] ELSE 0 ELSE ip4
  BY <1>1, <1>3, EndsType
<1>. QED BY <1>2, <1>3 DEF GetIPAddress

\* A call that begins, moves or ends leaves the others alone.
LEMMA CallsType ==
  ASSUME TypeOK, NEW f \in Families, NEW a \in {0} \cup Addresses
  PROVE  Calls(f, a) \in ModemType
BY DEF TypeOK, Calls

\* A deactivated call has ended, or the modem has not done it.
LEMMA DeactivateType ==
  ASSUME TypeOK, NEW f \in Families, Deactivate(f)
  PROVE  /\ handle' \in HandleType
         /\ modem' \in ModemType
         /\ faults' \in 0..MaxFaults
<1>1. Calls(f, 0) \in ModemType
  BY CallsType
<1>2. faults' \in 0..MaxFaults
  <2>1. CASE faults' = faults BY <2>1 DEF TypeOK
  <2>2. CASE \E o \in Outcomes : Ends(o, f \in cid) BY <2>2, EndsType
  <2>. QED BY <2>1, <2>2 DEF Deactivate, Outcomes, NoRequest
<1>. QED BY <1>1, <1>2 DEF Deactivate, TypeOK

\* Handles of calls that end without main become stale.
LEMMA CallsEndType ==
  ASSUME TypeOK, NEW F \in SUBSET Families, CallsEnd(F)
  PROVE  /\ handle' \in HandleType
         /\ modem' \in ModemType
BY DEF TypeOK, CallsEnd

\* usbnet_link_change: the address of the interface is one of the modem's.
LEMMA LinkChangeType ==
  ASSUME TypeOK, NEW l \in SUBSET Families, LinkChange(l)
  PROVE  /\ link' \in (SUBSET Families) \cup {{"unset"}}
         /\ net' \in {0} \cup Addresses /\ ip4' \in {0} \cup Addresses
<1>1. ip4 \in {0} \cup Addresses /\ net \in {0} \cup Addresses BY DEF TypeOK
<1>2. CASE link = l BY <1>1, <1>2 DEF LinkChange
<1>3. CASE link # l
  <2>1. link' = l /\ ip4' = (IF "v4" \in l THEN ip4 ELSE 0) /\ net' = Configured(l, ip4')
    BY <1>3 DEF LinkChange
  <2>2. ip4' \in {0} \cup Addresses BY <1>1, <2>1
  <2>3. Configured(l, ip4') \in {0} \cup Addresses BY <1>1, <2>2 DEF Configured
  <2>. QED BY <2>1, <2>2, <2>3
<1>. QED BY <1>2, <1>3

\* A signal, or an event, goes to the end of its queue.
LEMMA SignalType ==
  ASSUME NEW q \in Seq(SignalEvents), NEW e \in SignalEvents
  PROVE  Append(q, e) \in Seq(SignalEvents)
OBVIOUS

\* An event of the device thread goes to the end of the other queue.
LEMMA EventType ==
  ASSUME TypeOK, NEW e \in DeviceEvents
  PROVE  Append(devq, e) \in Seq(DeviceEvents)
BY DEF TypeOK

\* The queues of a session begin empty.
LEMMA EmptyType ==
  /\ <<>> \in Seq(SignalEvents)
  /\ <<>> \in Seq(DeviceEvents)
OBVIOUS

\* The globals of main.c as they are initialised.
LEMMA TypeInit == Init => TypeOK
<1>. SUFFICES ASSUME Init PROVE TypeOK
  OBVIOUS
<1>1. faults \in 0..MaxFaults /\ stops \in 0..MaxStops BY BoundsAssumption DEF Init
<1>2. modem \in ModemType
  BY DEF Init
<1>. QED BY <1>1, <1>2, EmptyType DEF Init, TypeOK, Families

\* The beginning and the end of a session.
LEMMA SessionType == ASSUME TypeOK, Session PROVE TypeOK'
<1>. USE DEF main, data, iface, queues, device, env, TypeOK
<1>1. CASE Begin BY <1>1, EmptyType DEF Begin
<1>2. CASE Connect BY <1>2 DEF Connect
<1>3. CASE InitFails
  <2>1. faults' \in 0..MaxFaults BY <1>3, FaultType DEF InitFails
  <2>. QED BY <1>3, <2>1 DEF InitFails
<1>4. CASE InitDone
  <2>1. faults' \in 0..MaxFaults /\ cid' \in SUBSET Enabled
    BY <1>4, FaultType DEF InitDone, GetClientIds
  <2>2. sigq' \in Seq(SignalEvents) BY <1>4, SignalType DEF InitDone
  <2>3. ps' \in BOOLEAN BY <1>4 DEF InitDone
  <2>. QED BY <1>4, <2>1, <2>2, <2>3 DEF InitDone
<1>5. CASE Quit
  <2>1. LinkChange({}) BY <1>5 DEF Quit
  <2>. QED BY <1>5, <2>1, LinkChangeType DEF Quit
<1>6. CASE Join
  <2>1. /\ sigq' \in Seq(SignalEvents)
        /\ devq' \in Seq(DeviceEvents)
        /\ pc' = "after" /\ ctl' = {} /\ devReady' \in BOOLEAN
    BY <1>6, EmptyType DEF Join
  <2>2. UNCHANGED <<fam, ps, st, hold, data, iface, restart, alarm, device, env>>
    BY <1>6 DEF Join
  <2>. QED BY <2>1, <2>2
<1>7. CASE Again BY <1>7 DEF Again
<1>8. CASE Exit BY <1>8 DEF Exit
<1>. QED BY <1>1, <1>2, <1>3, <1>4, <1>5, <1>6, <1>7, <1>8 DEF Session

\* What poll() returns with.
LEMMA LoopType == ASSUME TypeOK, Loop PROVE TypeOK'
<1>. USE DEF main, data, iface, queues, device, env, TypeOK
<1>1. CASE PollTimeout
  <2>1. sigq' \in Seq(SignalEvents) BY <1>1 DEF PollTimeout
  <2>. QED BY <1>1, <2>1 DEF PollTimeout
<1>2. CASE PollSignal
  <2>1. /\ Head(sigq) \in SignalEvents
        /\ Tail(sigq) \in Seq(SignalEvents)
    BY <1>2 DEF PollSignal
  <2>2. pc' \in {"start", "check", "hangup"} BY <1>2, <2>1 DEF PollSignal
  <2>3. devReady' \in BOOLEAN BY <1>2 DEF PollSignal
  <2>4. /\ sigq' = Tail(sigq) /\ alarm' = FALSE /\ fam' = "v4"
        /\ UNCHANGED <<ps, st, hold, data, iface, restart, devq, ctl, device, env>>
    BY <1>2 DEF PollSignal
  <2>5. fam' \in Families BY <2>4 DEF Families
  <2>6. sigq' \in Seq(SignalEvents) BY <2>1, <2>4
  <2>7. alarm' \in BOOLEAN BY <2>4
  <2>. QED BY <2>2, <2>3, <2>4, <2>5, <2>6, <2>7
<1>3. CASE PollEvent BY <1>3 DEF PollEvent
<1>. QED BY <1>1, <1>2, <1>3 DEF Loop

\* After a signal main waits again, or takes the event that poll() reported.
LEMMA HandledType ==
  ASSUME Handled
  PROVE  pc' \in {"poll", "event"} /\ fam' \in Families /\ devReady' \in BOOLEAN
BY DEF Handled, Families

\* The next family is dialled, or dialling is over.
LEMMA AfterDialType ==
  ASSUME AfterDial PROVE pc' \in {"dial", "dialled"} /\ fam' \in Families
BY DEF AfterDial, ToDial, Families

\* requestSetupDataCall, with all its outcomes.
LEMMA DialType == ASSUME TypeOK, Dial PROVE TypeOK'
<1>. USE DEF main, data, iface, queues, device, env
<1>1. PICK o \in Outcomes, a \in Addresses :
        LET up == modem.attached /\ (modem.call[fam] = 0 \/ RedialAccepted)
            retry == pc = "dial" /\ fam = "v4" /\ HasCredentials
            failed == IF retry THEN pc' = "redial" /\ UNCHANGED fam ELSE AfterDial
        IN /\ Ends(o, fam \in cid)
           /\ CASE o = "answer" /\ up ->
                     /\ modem' = IF modem.call[fam] = 0 THEN Calls(fam, a) ELSE modem
                     /\ handle' = [handle EXCEPT ![fam] = "live"]
                     /\ pc' = "address" /\ UNCHANGED fam
                [] o = "answer" /\ ~up -> failed /\ UNCHANGED <<modem, handle>>
                [] o \in {"none", "timeout"} ->
                     /\ \/ UNCHANGED modem
                        \/ modem.attached /\ modem.call[fam] = 0 /\ modem' = Calls(fam, a)
                     /\ IF o = "none" THEN pc' = "address" /\ UNCHANGED fam ELSE failed
                     /\ UNCHANGED handle
                [] o = "unsent" -> (AfterDial \/ failed) /\ UNCHANGED <<modem, handle>>
  BY DEF Dial
<1>2. faults' \in 0..MaxFaults BY <1>1, EndsType
<1>3. modem' = modem \/ modem' = Calls(fam, a) BY <1>1 DEF Outcomes
<1>4. handle' = handle \/ handle' = [handle EXCEPT ![fam] = "live"] BY <1>1 DEF Outcomes
<1>5. \/ pc' \in {"redial", "address"} /\ fam' = fam
      \/ AfterDial
  BY <1>1 DEF Outcomes
<1>6. modem' \in ModemType
  <2>1. fam \in Families /\ a \in {0} \cup Addresses BY DEF TypeOK
  <2>2. Calls(fam, a) \in ModemType
    BY <2>1, CallsType
  <2>. QED BY <1>3, <2>2 DEF TypeOK
<1>7. handle' \in HandleType BY <1>4 DEF TypeOK
<1>8. pc' \in {"redial", "address", "dial", "dialled"} /\ fam' \in Families
  BY <1>5, AfterDialType DEF TypeOK
<1>9. UNCHANGED <<ps, st, hold, cid, ip4, iface, restart, alarm, queues, devReady,
                  device, stops>>
  BY DEF Dial
<1>. QED BY <1>2, <1>6, <1>7, <1>8, <1>9 DEF TypeOK

\* SIG_EVENT_START
LEMMA StartType == ASSUME TypeOK, OnStart PROVE TypeOK'
<1>. USE DEF main, data, iface, queues, device, env, TypeOK
<1>1. CASE StartRefused BY <1>1, HandledType DEF StartRefused
<1>2. CASE Start
  <2>1. pc' \in {"dial", "dialled"} /\ fam' \in Families
    BY <1>2 DEF Start, ToDial, Families
  <2>. QED BY <1>2, <2>1 DEF Start
<1>3. CASE Dial BY <1>3, DialType
<1>4. CASE DialAddress
  <2>1. ip4' \in {0} \cup Addresses /\ faults' \in 0..MaxFaults
    BY <1>4, GetIPAddressType DEF DialAddress
  <2>2. st' \in [Families -> {"unknown", "conn", "disc"}] BY <1>4 DEF DialAddress
  <2>3. pc' \in {"dial", "dialled"} /\ fam' \in Families
    BY <1>4, AfterDialType DEF DialAddress
  <2>. QED BY <1>4, <2>1, <2>2, <2>3 DEF DialAddress
<1>5. CASE Dialled
  <2>1. hold' \in BOOLEAN /\ alarm' \in BOOLEAN BY <1>5 DEF Dialled, AnyDisconnected
  <2>2. pc' \in {"poll", "event"} /\ fam' \in Families /\ devReady' \in BOOLEAN
    BY <1>5, HandledType DEF Dialled
  <2>3. UNCHANGED <<ps, st, data, iface, restart, queues, device, env>>
    BY <1>5 DEF Dialled
  <2>. QED BY <2>1, <2>2, <2>3
<1>. QED BY <1>1, <1>2, <1>3, <1>4, <1>5 DEF OnStart

\* The next family is queried, or the check goes on.
LEMMA AfterQueryType ==
  ASSUME AfterQuery PROVE pc' \in {"query", "checked"} /\ fam' \in Families
BY DEF AfterQuery, Families

\* requestQueryDataCall for one family.
LEMMA QueryCallType == ASSUME TypeOK, QueryCall PROVE TypeOK'
<1>. USE DEF main, data, iface, queues, device, env
<1>1. CASE fam \in Enabled /\ st[fam] # "disc"
  <2>1. PICK q \in [ok : BOOLEAN, st : {"unknown", "conn", "disc"}] :
          /\ Query(fam, q)
          /\ st' = [st EXCEPT ![fam] = IF fam = "v4" /\ ~q.ok THEN "disc" ELSE q.st]
          /\ IF fam = "v4" /\ q = [ok |-> TRUE, st |-> "conn"]
               THEN pc' = (IF ip4 = 0 THEN "fetch" ELSE "verify") /\ UNCHANGED fam
               ELSE AfterQuery
    BY <1>1 DEF QueryCall
  <2>2. faults' \in 0..MaxFaults BY <2>1, EndsType DEF Query
  <2>3. handle' \in HandleType BY <2>1 DEF Query, TypeOK
  <2>4. st' \in [Families -> {"unknown", "conn", "disc"}] BY <2>1 DEF TypeOK
  <2>5. pc' \in {"fetch", "verify", "query", "checked"} /\ fam' \in Families
    BY <2>1, AfterQueryType DEF TypeOK
  <2>6. UNCHANGED <<ps, hold, cid, ip4, iface, restart, alarm, queues, devReady,
                    device, modem, stops>>
    BY DEF QueryCall
  <2>. QED BY <2>2, <2>3, <2>4, <2>5, <2>6 DEF TypeOK
<1>2. CASE ~(fam \in Enabled /\ st[fam] # "disc")
  <2>1. st' = [st EXCEPT ![fam] = "disc"] /\ AfterQuery /\ faults' = faults
    BY <1>2 DEF QueryCall, NoRequest
  <2>2. st' \in [Families -> {"unknown", "conn", "disc"}] BY <2>1 DEF TypeOK
  <2>3. pc' \in {"query", "checked"} /\ fam' \in Families BY <2>1, AfterQueryType
  <2>4. UNCHANGED <<ps, hold, handle, cid, ip4, iface, restart, alarm, queues, devReady,
                    device, modem, stops>>
    BY <1>2 DEF QueryCall
  <2>. QED BY <2>1, <2>2, <2>3, <2>4 DEF TypeOK
<1>. QED BY <1>1, <1>2

\* The end of a check: the link follows the families' status.
LEMMA CheckedType == ASSUME TypeOK, Checked PROVE TypeOK'
<1>. USE DEF main, data, iface, queues, device, env
<1>1. /\ link' \in (SUBSET Families) \cup {{"unset"}}
      /\ net' \in {0} \cup Addresses /\ ip4' \in {0} \cup Addresses
  <2>1. Connected \in SUBSET Families BY DEF Connected
  <2>2. CASE LinkChange({}) BY <2>2, LinkChangeType
  <2>3. CASE LinkChange(Connected) BY <2>1, <2>3, LinkChangeType
  <2>4. CASE UNCHANGED <<link, net, ip4>> BY <2>4 DEF TypeOK
  <2>. QED BY <2>2, <2>3, <2>4 DEF Checked
<1>2. sigq' \in Seq(SignalEvents) BY SignalType DEF Checked, TypeOK
<1>3. pc' \in {"poll", "event"} /\ fam' \in Families /\ devReady' \in BOOLEAN
  BY HandledType DEF Checked
<1>4. UNCHANGED <<ps, st, hold, handle, cid, restart, alarm, devq, ctl, device, env>>
  BY DEF Checked
<1>. QED BY <1>1, <1>2, <1>3, <1>4 DEF TypeOK

\* SIG_EVENT_CHECK
LEMMA CheckType == ASSUME TypeOK, OnCheck PROVE TypeOK'
<1>. USE DEF main, data, iface, queues, device, env, TypeOK
<1>1. CASE Check
  <2>1. ps' \in BOOLEAN /\ faults' \in 0..MaxFaults
    BY <1>1, EndsType DEF Check, Registration, NoRequest
  <2>. QED BY <1>1, <2>1 DEF Check
<1>2. CASE FetchAddress
  <2>1. ip4' \in {0} \cup Addresses /\ faults' \in 0..MaxFaults
    BY <1>2, GetIPAddressType DEF FetchAddress, Families
  <2>2. st' \in [Families -> {"unknown", "conn", "disc"}] BY <1>2 DEF FetchAddress
  <2>3. pc' \in {"verify", "query", "checked"} /\ fam' \in Families
    BY <1>2, AfterQueryType DEF FetchAddress
  <2>. QED BY <1>2, <2>1, <2>2, <2>3 DEF FetchAddress
<1>3. CASE VerifyAddress
  <2>1. ip4' \in {0} \cup Addresses /\ faults' \in 0..MaxFaults
    BY <1>3, GetIPAddressType DEF VerifyAddress, Families
  <2>2. pc' \in {"abandon", "query", "checked"} /\ fam' \in Families
    BY <1>3, AfterQueryType DEF VerifyAddress
  <2>. QED BY <1>3, <2>1, <2>2 DEF VerifyAddress
<1>4. CASE Abandon
  <2>1. /\ handle' \in HandleType
        /\ modem' \in ModemType
        /\ faults' \in 0..MaxFaults
    BY <1>4, DeactivateType DEF Abandon, Families
  <2>2. st' \in [Families -> {"unknown", "conn", "disc"}] BY <1>4 DEF Abandon
  <2>3. pc' \in {"query", "checked"} /\ fam' \in Families
    BY <1>4, AfterQueryType DEF Abandon
  <2>. QED BY <1>4, <2>1, <2>2, <2>3 DEF Abandon
<1>. QED BY <1>1, <1>2, <1>3, <1>4, QueryCallType, CheckedType DEF OnCheck

\* SIG_EVENT_STOP
LEMMA StopType == ASSUME TypeOK, OnStop PROVE TypeOK'
<1>. USE DEF main, data, iface, queues, device, env
<1>1. CASE Hangup
  <2>1. /\ handle' \in HandleType
        /\ modem' \in ModemType
        /\ faults' \in 0..MaxFaults
    <3>1. CASE Deactivate(fam) BY <3>1, DeactivateType DEF TypeOK
    <3>2. CASE NoRequest /\ UNCHANGED <<handle, modem>> BY <3>2 DEF NoRequest, TypeOK
    <3>. QED BY <1>1, <3>1, <3>2 DEF Hangup
  <2>2. pc' \in {pc, "release"} /\ fam' \in Families BY <1>1 DEF Hangup, Families
  <2>. QED BY <1>1, <2>1, <2>2 DEF Hangup, TypeOK
<1>2. CASE Release
  <2>1. /\ link' \in (SUBSET Families) \cup {{"unset"}}
        /\ net' \in {0} \cup Addresses /\ ip4' \in {0} \cup Addresses
    BY <1>2, LinkChangeType DEF Release
  <2>2. /\ handle' \in HandleType
        /\ modem' \in ModemType
    BY <1>2, CallsEndType, EnabledAssumption DEF Release, TypeOK
  <2>3. ctl' \in SUBSET {"STOP", "QUIT"} BY <1>2 DEF Release, TypeOK
  <2>4. pc' = "quit" /\ cid' = {} BY <1>2 DEF Release
  <2>5. UNCHANGED <<fam, ps, st, hold, restart, alarm, sigq, devq, devReady, device,
                    faults, stops>>
    BY <1>2 DEF Release
  <2>. QED BY <2>1, <2>2, <2>3, <2>4, <2>5 DEF TypeOK
<1>. QED BY <1>1, <1>2 DEF OnStop

\* The events of the device thread; EventInv says there is one to take.
LEMMA EventTypes == ASSUME TypeOK, EventInv, OnEvent PROVE TypeOK'
<1>. USE DEF main, data, iface, queues, device, env
<1>1. devq' \in Seq(DeviceEvents)
  <2>1. pc = "event" /\ devq' = Tail(devq)
    BY DEF OnEvent, DeviceGone, NetworkChanged, CallListChanged, ModemReset, Event
  <2>. QED BY <2>1 DEF EventInv, TypeOK
<1>2. CASE DeviceGone
  <2>1. /\ link' \in (SUBSET Families) \cup {{"unset"}}
        /\ net' \in {0} \cup Addresses /\ ip4' \in {0} \cup Addresses
    BY <1>2, LinkChangeType DEF DeviceGone
  <2>2. pc' = "quit"
        /\ UNCHANGED <<fam, ps, st, hold, handle, cid, restart, alarm, sigq, ctl, devReady,
                        device, env>>
    BY <1>2 DEF DeviceGone
  <2>. QED BY <1>1, <2>1, <2>2 DEF TypeOK
<1>3. CASE NetworkChanged
  <2>1. ps' \in BOOLEAN /\ faults' \in 0..MaxFaults
    BY <1>3, EndsType DEF NetworkChanged, Registration, TypeOK
  <2>2. sigq' \in Seq(SignalEvents)
    BY <1>3, SignalType DEF NetworkChanged, TypeOK
  <2>3. hold' \in BOOLEAN BY <1>3 DEF NetworkChanged
  <2>4. pc' \in {"poll", "event"} /\ fam' \in Families /\ devReady' \in BOOLEAN
    BY <1>3, HandledType DEF NetworkChanged
  <2>5. UNCHANGED <<st, data, iface, restart, alarm, ctl, device, modem, stops>>
    BY <1>3 DEF NetworkChanged
  <2>. QED BY <1>1, <2>1, <2>2, <2>3, <2>4, <2>5 DEF TypeOK
<1>4. CASE CallListChanged
  <2>1. sigq' \in Seq(SignalEvents)
    BY <1>4, SignalType DEF CallListChanged, TypeOK
  <2>2. hold' \in BOOLEAN BY <1>4 DEF CallListChanged
  <2>3. pc' \in {"poll", "event"} /\ fam' \in Families /\ devReady' \in BOOLEAN
    BY <1>4, HandledType DEF CallListChanged
  <2>4. UNCHANGED <<ps, st, data, iface, restart, alarm, ctl, device, env>>
    BY <1>4 DEF CallListChanged
  <2>. QED BY <1>1, <2>1, <2>2, <2>3, <2>4 DEF TypeOK
<1>5. CASE ModemReset
  <2>1. ctl' \in SUBSET {"STOP", "QUIT"} BY <1>5 DEF ModemReset, TypeOK
  <2>2. pc' = "quit" /\ restart' = TRUE
        /\ UNCHANGED <<fam, ps, st, hold, data, iface, alarm, sigq, devReady, device, env>>
    BY <1>5 DEF ModemReset
  <2>. QED BY <1>1, <2>1, <2>2 DEF TypeOK
<1>. QED BY <1>2, <1>3, <1>4, <1>5 DEF OnEvent

\* A device thread that leaves closes the device and says so.
LEMMA LeavesType ==
  ASSUME TypeOK, NEW q, Leaves(q),
         reader' \in {"none", "run", "dead"}, old' \in {"none", "stale", "run"}
  PROVE  TypeOK'
<1>. USE DEF main, data, iface, queues, device, env
<1>1. devq' \in Seq(DeviceEvents)
  BY EventType DEF Leaves, TypeOK
<1>2. ctl' \in SUBSET {"STOP", "QUIT"} /\ dev' \in BOOLEAN BY DEF Leaves, TypeOK
<1>3. UNCHANGED <<main, data, iface, restart, alarm, sigq, devReady, drain, env>>
  BY DEF Leaves
<1>. QED BY <1>1, <1>2, <1>3 DEF TypeOK

\* The device threads.
LEMMA DeviceType == ASSUME TypeOK, Device PROVE TypeOK'
<1>1. CASE ReaderStop
  BY <1>1 DEF ReaderStop, TypeOK, main, data, iface, env
<1>2. CASE ReaderQuit BY <1>2, LeavesType DEF ReaderQuit, TypeOK
<1>3. CASE ReaderHangup BY <1>3, LeavesType DEF ReaderHangup, TypeOK
<1>4. CASE OldWakes
  BY <1>4 DEF OldWakes, TypeOK, main, data, iface, queues, env
<1>5. CASE OldQuit BY <1>5, LeavesType DEF OldQuit, TypeOK
<1>6. CASE OldHangup BY <1>6, LeavesType DEF OldHangup, TypeOK
<1>. QED BY <1>1, <1>2, <1>3, <1>4, <1>5, <1>6 DEF Device

\* The signal handler, and time.
LEMMA SignalsType == ASSUME TypeOK, Signals \/ HoldExpires PROVE TypeOK'
<1>. USE DEF main, data, iface, queues, device, env
<1>1. CASE PostStop
  <2>1. /\ sigq' \in Seq(SignalEvents) /\ ctl' \in SUBSET {"STOP", "QUIT"}
    BY <1>1, SignalType DEF PostStop, TypeOK
  <2>2. restart' \in BOOLEAN /\ stops' \in 0..MaxStops
    <3>1. stops \in 0..MaxStops /\ stops > 0 /\ stops' = stops - 1 BY <1>1 DEF PostStop, TypeOK
    <3>2. stops' \in 0..MaxStops BY <3>1, BoundsAssumption
    <3>3. restart' \in BOOLEAN BY <1>1 DEF PostStop
    <3>. QED BY <3>2, <3>3
  <2>3. UNCHANGED <<main, data, iface, alarm, devq, devReady, device, modem, faults>>
    BY <1>1 DEF PostStop
  <2>. QED BY <2>1, <2>2, <2>3 DEF TypeOK
<1>2. CASE AlarmFires
  <2>1. sigq' \in Seq(SignalEvents) BY <1>2, SignalType DEF AlarmFires, TypeOK
  <2>2. alarm' \in BOOLEAN
        /\ UNCHANGED <<main, data, iface, restart, devq, ctl, devReady, device, env>>
    BY <1>2 DEF AlarmFires
  <2>. QED BY <2>1, <2>2 DEF TypeOK
<1>3. CASE HoldExpires
  <2>1. hold' \in BOOLEAN BY <1>3 DEF HoldExpires
  <2>2. UNCHANGED <<pc, fam, ps, st, data, iface, restart, alarm, queues, devReady,
                    device, env>>
    BY <1>3 DEF HoldExpires
  <2>. QED BY <2>1, <2>2 DEF TypeOK
<1>. QED BY <1>1, <1>2, <1>3 DEF Signals

\* Modem and network.
LEMMA NetworkType == ASSUME TypeOK, Network PROVE TypeOK'
<1>1. EnvStep
  BY DEF Network, CallDrops, Readdress, Detach, Attach, Reset, Unplug, Replug
<1>2. faults' \in 0..MaxFaults
  BY FaultType DEF Network, CallDrops, Readdress, Detach, Attach, Reset, Unplug, Replug, TypeOK
<1>3. devq' \in Seq(DeviceEvents)
  BY EventType
     DEF Network, CallDrops, Readdress, Detach, Attach, Reset, Unplug, Replug, Indicate, TypeOK
<1>4. /\ handle' \in HandleType
      /\ modem' \in ModemType
  <2>1. CASE \E f \in Families : CallDrops(f) BY <2>1, CallsEndType DEF CallDrops
  <2>2. CASE Readdress
    <3>1. 3 - modem.call["v4"] \in Addresses /\ "v4" \in Families
      BY <2>2 DEF Readdress, TypeOK, Addresses, Families
    <3>. QED BY <2>2, <3>1, CallsType DEF Readdress, TypeOK
  <2>3. CASE Detach \/ Reset
    <3>1. modem' = [modem EXCEPT !.attached = FALSE, !.call = [f \in Families |-> 0]]
      BY <2>3 DEF Detach, Reset
    <3>2. handle' = [f \in Families |-> IF handle[f] = "live" THEN "stale" ELSE handle[f]]
      BY <2>3 DEF Detach, Reset
    <3>3. handle' \in HandleType BY <3>2 DEF TypeOK
    <3>4. modem' \in ModemType
      BY <3>1 DEF TypeOK
    <3>. QED BY <3>3, <3>4
  <2>4. CASE Unplug BY <2>4 DEF Unplug, TypeOK
  <2>5. CASE Attach \/ Replug BY <2>5 DEF Attach, Replug, TypeOK
  <2>. QED BY <2>1, <2>2, <2>3, <2>4, <2>5 DEF Network
<1>. QED BY <1>1, <1>2, <1>3, <1>4 DEF EnvStep, TypeOK, main, iface, device

\* Every step of Next keeps the types.
LEMMA TypeNext == ASSUME TypeOK, EventInv, [Next]_vars PROVE TypeOK'
<1>1. CASE UNCHANGED vars
  BY <1>1 DEF TypeOK, vars, main, data, iface, queues, device, env
<1>. QED
  BY <1>1, SessionType, LoopType, StartType, CheckType, StopType, EventTypes, DeviceType,
     SignalsType, NetworkType
     DEF Next, Main

-----------------------------------------------------------------------------
(* Events                                                                  *)

\* No event is there before the first session.
LEMMA EventInit == Init => EventInv
BY DEF Init, EventInv

\* What a handler ends with, after it has taken an event or none.
LEMMA HandledEvent ==
  ASSUME Handled, devReady => devq' # <<>> PROVE EventInv'
BY DEF Handled, EventInv

\* A step of main inside a handler.
LEMMA EventKept ==
  ASSUME EventInv, UNCHANGED <<devq, devReady>>,
         pc' = pc \/ pc' \notin {"connect", "init", "poll", "event"}
  PROVE  EventInv'
BY DEF EventInv

\* Only a handler of events takes one, after poll() has reported it.
LEMMA MainEvent == ASSUME TypeOK, EventInv, Main PROVE EventInv'
<1>. USE DEF queues
<1>1. CASE Session
  <2>1. CASE Begin BY <2>1 DEF Begin, EventInv
  <2>2. CASE Connect BY <2>2 DEF Connect, EventInv
  <2>3. CASE InitDone BY <2>3 DEF InitDone, EventInv
  <2>4. CASE Join BY <2>4 DEF Join, EventInv
  <2>5. CASE InitFails \/ Quit \/ Again \/ Exit
    BY <2>5, EventKept DEF InitFails, Quit, Again, Exit
  <2>. QED BY <1>1, <2>1, <2>2, <2>3, <2>4, <2>5 DEF Session
<1>2. CASE Loop
  <2>1. CASE PollTimeout BY <2>1, EventKept DEF PollTimeout, main
  <2>2. CASE PollSignal
    <3>1. Head(sigq) \in SignalEvents BY <2>2 DEF PollSignal, TypeOK
    <3>2. pc' \in {"start", "check", "hangup"} /\ devReady' = (devq # <<>>) /\ devq' = devq
      BY <2>2, <3>1 DEF PollSignal
    <3>. QED BY <3>2 DEF EventInv
  <2>3. CASE PollEvent BY <2>3 DEF PollEvent, EventInv
  <2>. QED BY <1>2, <2>1, <2>2, <2>3 DEF Loop
<1>3. CASE OnStart
  <2>1. devq' = devq BY <1>3 DEF OnStart, StartRefused, Start, Dial, DialAddress, Dialled
  <2>2. CASE StartRefused \/ Dialled
    BY <2>1, <2>2, HandledEvent DEF StartRefused, Dialled, EventInv
  <2>3. CASE Start \/ Dial \/ DialAddress
    <3>1. devReady' = devReady BY <2>3 DEF Start, Dial, DialAddress
    <3>2. ToDial("v4") \/ AfterDial \/ pc' \in {"redial", "address"}
      BY <2>3 DEF Start, Dial, DialAddress, Outcomes
    <3>3. pc' \in {"dial", "dialled", "redial", "address"}
      BY <3>2, AfterDialType DEF ToDial
    <3>. QED BY <2>1, <3>1, <3>3, EventKept
  <2>. QED BY <1>3, <2>2, <2>3 DEF OnStart
<1>4. CASE OnCheck
  <2>1. CASE Checked BY <2>1, HandledEvent DEF Checked, EventInv
  <2>2. CASE Check \/ QueryCall \/ FetchAddress \/ VerifyAddress \/ Abandon
    <3>1. UNCHANGED <<devq, devReady>>
      BY <2>2 DEF Check, QueryCall, FetchAddress, VerifyAddress, Abandon
    <3>2. pc' \in {"query", "checked", "fetch", "verify", "abandon"}
      BY <2>2 DEF Check, QueryCall, FetchAddress, VerifyAddress, Abandon, AfterQuery
    <3>. QED BY <3>1, <3>2, EventKept
  <2>. QED BY <1>4, <2>1, <2>2 DEF OnCheck
<1>5. CASE OnStop BY <1>5, EventKept DEF OnStop, Hangup, Release
<1>6. CASE OnEvent
  <2>1. ~devReady BY <1>6 DEF OnEvent, DeviceGone, NetworkChanged, CallListChanged,
                              ModemReset, Event, EventInv
  <2>2. CASE NetworkChanged \/ CallListChanged
    BY <2>1, <2>2, HandledEvent DEF NetworkChanged, CallListChanged
  <2>3. CASE DeviceGone \/ ModemReset
    BY <2>1, <2>3 DEF DeviceGone, ModemReset, EventInv
  <2>. QED BY <1>6, <2>2, <2>3 DEF OnEvent
<1>. QED BY <1>1, <1>2, <1>3, <1>4, <1>5, <1>6 DEF Main

\* The device thread only adds events.
LEMMA EventAdded ==
  ASSUME TypeOK, EventInv, UNCHANGED <<pc, devReady>>,
         devq' = devq \/ \E e \in DeviceEvents : devq' = Append(devq, e)
  PROVE  EventInv'
<1>1. devq # <<>> => devq' # <<>>
  <2>1. devq \in Seq(DeviceEvents) BY DEF TypeOK
  <2>2. \A e \in DeviceEvents : Append(devq, e) # <<>>
    BY <2>1
  <2>. QED BY <2>2
<1>. QED BY <1>1 DEF EventInv

\* Every step of Next keeps EventInv.
LEMMA EventNext == ASSUME TypeOK, EventInv, [Next]_vars PROVE EventInv'
<1>. USE DEF main, queues
<1>1. CASE Device
  BY <1>1, EventAdded
     DEF Device, ReaderStop, ReaderQuit, ReaderHangup, OldWakes, OldQuit, OldHangup, Leaves
<1>2. CASE Signals \/ HoldExpires \/ UNCHANGED vars
  BY <1>2, EventAdded DEF Signals, PostStop, AlarmFires, HoldExpires, vars
<1>3. CASE Network
  BY <1>3, EventAdded
     DEF Network, CallDrops, Readdress, Detach, Attach, Reset, Unplug, Replug, Indicate, EnvStep
<1>. QED BY <1>1, <1>2, <1>3, MainEvent DEF Next

-----------------------------------------------------------------------------
(* The link                                                                *)

\* Where main has no session, or a session that has not reached its loop or
\* has left it.
Outside == {"begin", "connect", "init", "join", "after", "exited"}

LinkDown == link \cap Families = {}

\* An interface without a link has no address, and outside the loop there is
\* no link.
LinkInv ==
  /\ LinkDown => net = 0
  /\ pc \in Outside => LinkDown

\* usbnet_link_change configures the interface whenever it changes the link.
LEMMA LinkChangeInv ==
  ASSUME LinkDown => net = 0, NEW l \in SUBSET Families, LinkChange(l)
  PROVE  /\ (LinkDown => net = 0)'
         /\ l = {} => LinkDown'
<1>1. CASE link = l BY <1>1 DEF LinkChange, LinkDown
<1>2. CASE link # l
  <2>1. link' = l /\ net' = Configured(l, ip4') BY <1>2 DEF LinkChange
  <2>2. CASE l = {} BY <2>1, <2>2 DEF Configured, LinkDown
  <2>3. CASE l # {} BY <2>1, <2>3 DEF LinkDown
  <2>. QED BY <2>2, <2>3
<1>. QED BY <1>1, <1>2

\* A step that leaves the interface alone and does not leave the loop.
LEMMA LinkKept ==
  ASSUME LinkInv, UNCHANGED iface, pc' = pc \/ pc' \notin Outside \/ pc \in Outside
  PROVE  LinkInv'
BY DEF LinkInv, LinkDown, iface

\* The process starts with the link down.
LEMMA LinkInit == Init => LinkInv
BY DEF Init, LinkInv, LinkDown, Outside, Families

\* The beginning and the end of a session: only Quit takes the link down.
LEMMA SessionLink == ASSUME LinkInv, Session PROVE LinkInv'
<1>1. CASE Quit
  <2>1. LinkChange({}) BY <1>1 DEF Quit
  <2>. QED BY <2>1, LinkChangeInv DEF LinkInv
<1>2. CASE Begin \/ Connect \/ InitFails \/ InitDone \/ Join \/ Again \/ Exit
  <2>1. UNCHANGED iface /\ pc \in Outside
    BY <1>2 DEF Begin, Connect, InitFails, InitDone, Join, Again, Exit, iface, Outside
  <2>. QED BY <2>1, LinkKept
<1>. QED BY <1>1, <1>2 DEF Session

\* The loop itself does not touch the interface.
LEMMA LoopLink == ASSUME TypeOK, LinkInv, Loop PROVE LinkInv'
<1>1. UNCHANGED iface BY DEF Loop, PollTimeout, PollSignal, PollEvent
<1>2. CASE PollTimeout \/ PollEvent
  BY <1>1, <1>2, LinkKept DEF PollTimeout, PollEvent, main, Outside
<1>3. CASE PollSignal
  <2>1. Head(sigq) \in SignalEvents BY <1>3 DEF PollSignal, TypeOK
  <2>2. pc' \in {"start", "check", "hangup"} BY <1>3, <2>1 DEF PollSignal
  <2>. QED BY <1>1, <2>2, LinkKept DEF Outside
<1>. QED BY <1>2, <1>3 DEF Loop

\* Dialling leaves the link as it is: only a check adjusts it.
LEMMA StartLink == ASSUME LinkInv, OnStart PROVE LinkInv'
<1>1. UNCHANGED iface BY DEF OnStart, StartRefused, Start, Dial, DialAddress, Dialled
<1>2. pc' \notin Outside
  <2>1. CASE StartRefused \/ Dialled BY <2>1 DEF StartRefused, Dialled, Handled, Outside
  <2>2. CASE Start BY <2>2 DEF Start, ToDial, Outside
  <2>3. CASE DialAddress BY <2>3 DEF DialAddress, AfterDial, ToDial, Outside
  <2>4. CASE Dial
    <3>1. AfterDial => pc' \notin Outside BY DEF AfterDial, ToDial, Outside
    <3>2. pc' \in {"redial", "address"} \/ AfterDial BY <2>4 DEF Dial, Outcomes
    <3>. QED BY <3>1, <3>2 DEF Outside
  <2>. QED BY <2>1, <2>2, <2>3, <2>4 DEF OnStart
<1>. QED BY <1>1, <1>2, LinkKept

\* The end of a check is the only place that takes the link up.
LEMMA CheckLink == ASSUME LinkInv, OnCheck PROVE LinkInv'
<1>1. CASE Checked
  <2>1. pc' \notin Outside BY <1>1 DEF Checked, Handled, Outside
  <2>2. (LinkDown => net = 0)'
    <3>1. Connected \in SUBSET Families BY DEF Connected
    <3>2. CASE UNCHANGED <<link, net, ip4>> BY <3>2 DEF LinkInv, LinkDown
    <3>3. CASE LinkChange({}) BY <3>3, LinkChangeInv DEF LinkInv
    <3>4. CASE LinkChange(Connected) BY <3>1, <3>4, LinkChangeInv DEF LinkInv
    <3>. QED BY <1>1, <3>2, <3>3, <3>4 DEF Checked
  <2>. QED BY <2>1, <2>2 DEF LinkInv
<1>2. CASE Check \/ QueryCall \/ FetchAddress \/ VerifyAddress \/ Abandon
  <2>1. UNCHANGED iface
    BY <1>2 DEF Check, QueryCall, FetchAddress, VerifyAddress, Abandon
  <2>2. pc' \in {"query", "checked", "fetch", "verify", "abandon"}
    BY <1>2 DEF Check, QueryCall, FetchAddress, VerifyAddress, Abandon, AfterQuery
  <2>. QED BY <2>1, <2>2, LinkKept DEF Outside
<1>. QED BY <1>1, <1>2 DEF OnCheck

\* A stop takes the link down with the session's clients.
LEMMA StopLink == ASSUME LinkInv, OnStop PROVE LinkInv'
<1>1. CASE Hangup
  <2>1. UNCHANGED iface /\ (pc' = pc \/ pc' = "release") BY <1>1 DEF Hangup
  <2>. QED BY <2>1, LinkKept DEF Outside
<1>2. CASE Release
  <2>1. LinkChange({}) /\ pc' \notin Outside BY <1>2 DEF Release, Outside
  <2>. QED BY <2>1, LinkChangeInv DEF LinkInv
<1>. QED BY <1>1, <1>2 DEF OnStop

\* Of the events, only the loss of the device changes the link.
LEMMA EventLink == ASSUME LinkInv, OnEvent PROVE LinkInv'
<1>1. CASE DeviceGone
  <2>1. LinkChange({}) /\ pc' \notin Outside BY <1>1 DEF DeviceGone, Outside
  <2>. QED BY <2>1, LinkChangeInv DEF LinkInv
<1>2. CASE NetworkChanged \/ CallListChanged \/ ModemReset
  <2>1. UNCHANGED iface
    BY <1>2 DEF NetworkChanged, CallListChanged, ModemReset
  <2>2. pc' \notin Outside
    BY <1>2 DEF NetworkChanged, CallListChanged, ModemReset, Handled, Outside
  <2>. QED BY <2>1, <2>2, LinkKept
<1>. QED BY <1>1, <1>2 DEF OnEvent

\* What is not main leaves both the interface and main's place alone.
LEMMA OtherLink ==
  ASSUME LinkInv, Device \/ Signals \/ HoldExpires \/ Network \/ UNCHANGED vars
  PROVE  LinkInv'
<1>1. UNCHANGED iface /\ pc' = pc
  <2>1. CASE Device
    BY <2>1 DEF Device, ReaderStop, ReaderQuit, ReaderHangup, OldWakes, OldQuit,
                OldHangup, Leaves, main
  <2>2. CASE Signals \/ HoldExpires
    BY <2>2 DEF Signals, PostStop, AlarmFires, HoldExpires, main
  <2>3. CASE Network
    BY <2>3 DEF Network, CallDrops, Readdress, Detach, Attach, Reset, Unplug, Replug,
                EnvStep, main
  <2>4. CASE UNCHANGED vars BY <2>4 DEF vars, main
  <2>. QED BY <2>1, <2>2, <2>3, <2>4
<1>. QED BY <1>1, LinkKept

\* Every step of Next keeps LinkInv.
LEMMA LinkNext == ASSUME TypeOK, LinkInv, [Next]_vars PROVE LinkInv'
BY SessionLink, LoopLink, StartLink, CheckLink, StopLink, EventLink, OtherLink
   DEF Next, Main

-----------------------------------------------------------------------------
(* The call that was dialled                                               *)

\* The dial has gone on to the address with a handle from the modem, or without
\* an answer while the device thread drains or leaves.
AddressInv == pc = "address" => handle[fam] # "none" \/ Leaving

\* A device thread that drains or leaves does so for the rest of the session.
LEMMA AddressKept ==
  ASSUME TypeOK, AddressInv, pc' = pc, fam' = fam,
         reader' \in {reader, "dead"}, dev' \in {dev, FALSE}, drain' \in {drain, TRUE},
         \A f \in Families : handle'[f] = "none" => handle[f] = "none"
  PROVE  AddressInv'
<1>1. fam \in Families BY DEF TypeOK
<1>2. Leaving => Leaving'
  <2>1. reader # "run" => reader' # "run" OBVIOUS
  <2>2. ~dev => ~dev' OBVIOUS
  <2>3. drain => drain' OBVIOUS
  <2>. QED BY <2>1, <2>2, <2>3 DEF Leaving
<1>. QED BY <1>1, <1>2 DEF AddressInv

\* Only Dial leads there.
LEMMA MainAddress == ASSUME TypeOK, AddressInv, Main PROVE AddressInv'
<1>1. CASE Dial
  <2>. SUFFICES ASSUME pc' = "address" PROVE handle'[fam'] # "none" \/ Leaving'
    BY DEF AddressInv
  <2>1. UNCHANGED <<drain, reader, dev>> BY <1>1 DEF Dial, device
  <2>2. ~AfterDial BY DEF AfterDial, ToDial
  <2>. DEFINE up == modem.attached /\ (modem.call[fam] = 0 \/ RedialAccepted)
              retry == pc = "dial" /\ fam = "v4" /\ HasCredentials
              failed == IF retry THEN pc' = "redial" /\ UNCHANGED fam ELSE AfterDial
  <2>3. PICK o \in Outcomes :
          /\ Ends(o, fam \in cid)
          /\ fam' = fam
          /\ \/ handle' = [handle EXCEPT ![fam] = "live"]
             \/ o = "none"
    <3>1. ~failed BY <2>2
    <3>. HIDE DEF up, failed
    <3>2. PICK o \in Outcomes, a \in Addresses :
            /\ Ends(o, fam \in cid)
            /\ CASE o = "answer" /\ up ->
                      /\ modem' = IF modem.call[fam] = 0 THEN Calls(fam, a) ELSE modem
                      /\ handle' = [handle EXCEPT ![fam] = "live"]
                      /\ pc' = "address" /\ UNCHANGED fam
                 [] o = "answer" /\ ~up -> failed /\ UNCHANGED <<modem, handle>>
                 [] o \in {"none", "timeout"} ->
                      /\ \/ UNCHANGED modem
                         \/ modem.attached /\ modem.call[fam] = 0 /\ modem' = Calls(fam, a)
                      /\ IF o = "none" THEN pc' = "address" /\ UNCHANGED fam ELSE failed
                      /\ UNCHANGED handle
                 [] o = "unsent" -> (AfterDial \/ failed) /\ UNCHANGED <<modem, handle>>
      BY <1>1, Zenon DEF Dial, up, failed
    <3>3. CASE o = "answer" /\ up BY <3>2, <3>3
    <3>4. CASE o = "answer" /\ ~up BY <3>1, <3>2, <3>4
    <3>5. CASE o \in {"none", "timeout"} BY <3>1, <3>2, <3>5
    <3>6. CASE o = "unsent" BY <2>2, <3>1, <3>2, <3>6
    <3>. QED BY <3>2, <3>3, <3>4, <3>5, <3>6 DEF Outcomes
  <2>4. CASE handle' = [handle EXCEPT ![fam] = "live"] BY <2>3, <2>4 DEF TypeOK
  <2>5. CASE o = "none"
    <3>1. Leaving BY <2>3, <2>5 DEF Ends
    <3>. QED BY <2>1, <3>1 DEF Leaving
  <2>. QED BY <2>3, <2>4, <2>5
<1>2. CASE ~Dial
  <2>1. pc' # "address"
    <3>1. CASE Session
      BY <3>1 DEF Session, Begin, Connect, InitFails, InitDone, Quit, Join, Again, Exit
    <3>2. CASE Loop
      <4>1. sigq # <<>> => Head(sigq) \in {"START", "CHECK", "STOP"} BY DEF TypeOK
      <4>. QED BY <3>2, <4>1 DEF Loop, PollTimeout, PollSignal, PollEvent, main
    <3>3. CASE OnStart
      BY <1>2, <3>3 DEF OnStart, StartRefused, Start, DialAddress, Dialled, Handled, ToDial, AfterDial
    <3>4. CASE OnCheck
      BY <3>4 DEF OnCheck, Check, QueryCall, FetchAddress, VerifyAddress, Abandon, Checked,
                  AfterQuery, Handled
    <3>5. CASE OnStop BY <3>5 DEF OnStop, Hangup, Release
    <3>6. CASE OnEvent
      BY <3>6 DEF OnEvent, DeviceGone, NetworkChanged, CallListChanged, ModemReset, Handled
    <3>. QED BY <3>1, <3>2, <3>3, <3>4, <3>5, <3>6 DEF Main
  <2>. QED BY <2>1 DEF AddressInv
<1>. QED BY <1>1, <1>2

\* What is not main can only make the device thread leave, and a handle stale.
LEMMA OtherAddress ==
  ASSUME TypeOK, AddressInv, Device \/ Signals \/ HoldExpires \/ Network \/ UNCHANGED vars
  PROVE  AddressInv'
<1>1. pc' = pc /\ fam' = fam
  <2>1. CASE Device
    BY <2>1 DEF Device, ReaderStop, ReaderQuit, ReaderHangup, OldWakes, OldQuit,
                OldHangup, Leaves, main
  <2>2. CASE Signals \/ HoldExpires
    BY <2>2 DEF Signals, PostStop, AlarmFires, HoldExpires, main
  <2>3. CASE Network
    BY <2>3 DEF Network, CallDrops, Readdress, Detach, Attach, Reset, Unplug, Replug,
                EnvStep, main
  <2>4. CASE UNCHANGED vars BY <2>4 DEF vars, main
  <2>. QED BY <2>1, <2>2, <2>3, <2>4
<1>2. reader' \in {reader, "dead"} /\ dev' \in {dev, FALSE} /\ drain' \in {drain, TRUE}
  <2>1. CASE Device
    BY <2>1 DEF Device, ReaderStop, ReaderQuit, ReaderHangup, OldWakes, OldQuit,
                OldHangup, Leaves
  <2>2. CASE Signals \/ HoldExpires
    BY <2>2 DEF Signals, PostStop, AlarmFires, HoldExpires, device
  <2>3. CASE Network
    BY <2>3 DEF Network, CallDrops, Readdress, Detach, Attach, Reset, Unplug, Replug,
                EnvStep, device
  <2>4. CASE UNCHANGED vars BY <2>4 DEF vars, device
  <2>. QED BY <2>1, <2>2, <2>3, <2>4
<1>3. \A f \in Families : handle'[f] = "none" => handle[f] = "none"
  <2>1. CASE Device
    BY <2>1 DEF Device, ReaderStop, ReaderQuit, ReaderHangup, OldWakes, OldQuit,
                OldHangup, Leaves, data
  <2>2. CASE Signals \/ HoldExpires
    BY <2>2 DEF Signals, PostStop, AlarmFires, HoldExpires, data
  <2>3. CASE Network
    <3>1. \/ UNCHANGED handle
          \/ \E F : handle' = [f \in Families |->
                              IF f \in F /\ handle[f] = "live" THEN "stale" ELSE handle[f]]
          \/ handle' = [f \in Families |-> IF handle[f] = "live" THEN "stale" ELSE handle[f]]
      BY <2>3 DEF Network, CallDrops, CallsEnd, Readdress, Detach, Attach, Reset, Unplug, Replug
    <3>. QED BY <3>1
  <2>4. CASE UNCHANGED vars BY <2>4 DEF vars, data
  <2>. QED BY <2>1, <2>2, <2>3, <2>4
<1>. QED BY <1>1, <1>2, <1>3, AddressKept

\* Every step of Next keeps AddressInv.
LEMMA AddressNext == ASSUME TypeOK, AddressInv, [Next]_vars PROVE AddressInv'
BY MainAddress, OtherAddress DEF Next

\* Where a family becomes connected after a dial, the modem has its call.
LEMMA DialAddressCall ==
  ASSUME TypeOK, AddressInv, DialAddress, NEW f \in Families, st[f] # "conn", st'[f] = "conn"
  PROVE  modem.call[f] # 0 \/ Leaving
<1>1. PICK ok \in BOOLEAN : /\ GetIPAddress(fam, ok)
                            /\ st' = IF ok THEN [st EXCEPT ![fam] = "conn"] ELSE st
  BY DEF DialAddress
<1>2. ok /\ f = fam BY <1>1 DEF TypeOK
<1>3. CASE handle[fam] = "none" BY <1>3 DEF DialAddress, AddressInv
<1>4. CASE handle[fam] # "none"
  <2>1. PICK o \in Outcomes : /\ Ends(o, fam \in cid)
                              /\ o = "none" \/ (o = "answer" /\ modem.call[fam] # 0)
    BY <1>1, <1>2, <1>4 DEF GetIPAddress
  <2>. QED BY <1>2, <2>1 DEF Ends
<1>. QED BY <1>3, <1>4

-----------------------------------------------------------------------------
(* Theorems                                                                *)

IInv == TypeOK /\ EventInv /\ LinkInv /\ AddressInv

\* Everything below follows from IInv.
THEOREM Invariance == Spec => []IInv
<1>1. Init => IInv
  <2>1. Init => AddressInv BY DEF Init, AddressInv
  <2>. QED BY <2>1, TypeInit, EventInit, LinkInit DEF IInv
<1>2. IInv /\ [Next]_vars => IInv' BY TypeNext, EventNext, LinkNext, AddressNext DEF IInv
<1>. QED BY <1>1, <1>2, PTL DEF Spec

\* Every variable keeps its type; in particular main takes no event from an
\* empty queue, although poll() is asked once for two descriptors.
THEOREM TypeCorrect == Spec => []TypeOK
<1>1. IInv => TypeOK BY DEF IInv
<1>. QED BY <1>1, Invariance, PTL

\* Whichever way the process ends (a stop, a device that is gone, a reset, an
\* initialisation that fails), usbnet_link_change(0) has run since the link was
\* last up.
THEOREM ExitLinkDownCorrect == Spec => []ExitLinkDown
<1>1. IInv => ExitLinkDown BY DEF IInv, LinkInv, LinkDown, ExitLinkDown, Outside
<1>. QED BY <1>1, Invariance, PTL

\* A dial ends in CONNECTED only if the modem has the call, although requests that
\* come back without an answer count as successful (qmi_rsp_check): except while
\* the device thread drains or leaves.
THEOREM DialledMeansCallCorrect == Spec => DialledMeansCall
<1>1. IInv /\ [Next]_vars =>
        [\A f \in Families :
           pc = "address" /\ st[f] # "conn" /\ st'[f] = "conn" => modem.call[f] # 0 \/ Leaving]_vars
  <2>. SUFFICES ASSUME IInv, Next, pc = "address", NEW f \in Families, st[f] # "conn", st'[f] = "conn"
                PROVE  modem.call[f] # 0 \/ Leaving
    OBVIOUS
  <2>0. TypeOK /\ AddressInv BY DEF IInv
  <2>1. CASE Main
    <3>1. ~Session BY DEF Session, Begin, Connect, InitFails, InitDone, Quit, Join, Again, Exit
    <3>2. ~Loop BY DEF Loop, PollTimeout, PollSignal, PollEvent
    <3>3. OnStart => DialAddress BY DEF OnStart, StartRefused, Start, Dial, Dialled
    <3>4. ~OnCheck BY DEF OnCheck, Check, QueryCall, FetchAddress, VerifyAddress, Abandon, Checked
    <3>5. ~OnStop BY DEF OnStop, Hangup, Release
    <3>6. ~OnEvent BY DEF OnEvent, DeviceGone, NetworkChanged, CallListChanged, ModemReset, Event
    <3>7. DialAddress BY <2>1, <3>1, <3>2, <3>3, <3>4, <3>5, <3>6 DEF Main
    <3>. QED BY <2>0, <3>7, DialAddressCall
  <2>2. CASE Device
    BY <2>2 DEF Device, ReaderStop, ReaderQuit, ReaderHangup, OldWakes, OldQuit,
                OldHangup, Leaves, main
  <2>3. CASE Signals \/ HoldExpires
    BY <2>3 DEF Signals, PostStop, AlarmFires, HoldExpires, main
  <2>4. CASE Network
    BY <2>4 DEF Network, CallDrops, Readdress, Detach, Attach, Reset, Unplug, Replug,
                EnvStep, main
  <2>. QED BY <2>1, <2>2, <2>3, <2>4 DEF Next
<1>. QED BY <1>1, Invariance, PTL DEF Spec, DialledMeansCall
=============================================================================
