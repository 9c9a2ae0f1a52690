----------------------------- MODULE QmuxCodec -----------------------------
(***************************************************************************)
(* The QMUX requests quectel-CM composes (QMIThread.c) and the lookups it  *)
(* makes in a response.  A request is laid over a packed struct of         *)
(* MPQMUX.h, so three things must agree that nothing checks: the room of a *)
(* field in the struct, the length its TLV announces, and the length the   *)
(* message announces.  The modem walks the TLVs by the lengths announced.  *)
(***************************************************************************)
EXTENDS Integers, Sequences, FiniteSetsExt

Null == "(null)"                           \* a string that was not given

U8(type, v) == [type |-> type, len |-> 1, val |-> v]
U32(type, v) == [type |-> type, len |-> 4, val |-> v]
Endpoint(type, v) == [type |-> type, len |-> 8, val |-> v]
Text(type, s) == [type |-> type, len |-> Len(s), val |-> s]

TlvHeader == 3                                             \* sizeof(QMI_TLV_HDR)
Size(rooms) ==
  LET upto[n \in 0..Len(rooms)] == IF n = 0 THEN 0 ELSE upto[n - 1] + TlvHeader + rooms[n]
  IN upto[Len(rooms)]

\* ComposeQMUXMsg: rooms is where the fields lie, length what the header says.
ComposeQMUXMsg(service, req, rooms, tlvs, length) ==
  [service |-> service, req |-> req, rooms |-> rooms, tlvs |-> tlvs, length |-> length]

\* A message that fills its struct, and one that appends fields to its struct.
Filled(service, req, rooms, tlvs) == ComposeQMUXMsg(service, req, rooms, tlvs, Size(rooms))
Extent(tlvs) ==
  LET upto[n \in 0..Len(tlvs)] == IF n = 0 THEN 0 ELSE upto[n - 1] + TlvHeader + tlvs[n].len
  IN upto[Len(tlvs)]
Appended(service, req, rooms, tlvs, more) ==
  ComposeQMUXMsg(service, req, rooms, tlvs \o more, Size(rooms) + Extent(more))

\* The modem finds each field where the composer put it, and nothing else.
Readable(m) == /\ \A i \in DOMAIN m.rooms : m.tlvs[i].len = m.rooms[i]
               /\ m.length = Extent(m.tlvs)

Absent == [type |-> 0, len |-> 0, val |-> Null]
GetTLV(tlvs, type) ==
  LET of == {i \in DOMAIN tlvs : tlvs[i].type = type}
  IN IF of = {} THEN Absent ELSE tlvs[Min(of)]

If(cond, tlv) == IF cond THEN <<tlv>> ELSE <<>>

-----------------------------------------------------------------------------
(* The structs                                                             *)

SetDataFormatReq == <<1, 4, 4, 4, 4, 4, 8, 4, 4, 4>>
EthDataFormatReq == <<1, 4, 4>>
SetLoopBackReq == <<1, 4>>
GetRuntimeSettingsReq == <<4>>
BindMuxDataPortReq == <<8, 1, 4>>
IpFamilyPrefReq == <<1>>
AutoConnectReq == <<1>>
StartNwReq == <<>>
StopNwReq == <<4>>
ModifyProfileReq == <<2>>
GetProfileReq == <<2>>
CreateProfileReq == <<1, 1>>
DmsVerifyPinReq(pin) == <<3 + (Len(pin) - 1)>>
\* Mutant: the byte the struct has for the PIN is counted twice.
UimVerifyPinReq_Twice(pin) == <<2, 3 + Len(pin)>>

UimVerifyPinReq(pin) == <<2, 3 + (Len(pin) - 1)>>

-----------------------------------------------------------------------------
(* The requests                                                            *)

Empty(s) == s = Null \/ s = ""

WdsStartNwInterfaceReq(service, c, cdma, family) ==
  LET ct == cdma /\ Empty(c.user) /\ Empty(c.password)
      user == IF ct THEN "ctnet@mycdma.cn" ELSE c.user
      password == IF ct THEN "vnet.mobi" ELSE c.password
      auth == IF ct THEN 2 ELSE c.auth
  IN Appended(service, "StartNw", StartNwReq, <<>>,
       <<U8(48, IF cdma THEN 2 ELSE 1)>>
       \o If(c.apn # Null /\ ~cdma, Text(20, c.apn))
       \o If(user # Null, Text(23, user))
       \o If(password # Null, Text(24, password))
       \o If(user # Null /\ password # Null, U8(22, auth))
       \o <<U8(25, family)>>
       \o If(~cdma, U8(49, c.pdp)))

WdsStopNwInterfaceReq(service, handle) ==
  Filled(service, "StopNw", StopNwReq, <<U32(1, handle)>>)

WdsSetClientIPFamilyPref(service, family) ==
  Filled(service, "FamilyPref", IpFamilyPrefReq, <<U8(1, family)>>)

WdsSetAutoConnect(setting) ==
  Filled("WDS", "AutoConnect", AutoConnectReq, <<U8(1, setting)>>)

WdsSetQMUXBindMuxDataPort(service, mux) ==
  Filled(service, "BindMux", BindMuxDataPortReq,
         <<Endpoint(16, "hsusb"), U8(17, mux), U32(19, "tethered")>>)

\* Uplink aggregation is always asked for, so the return before its fields is not taken.
WdaSetDataFormat(qmap, version) ==
  IF qmap
  THEN Filled("WDA", "SetDataFormat", SetDataFormatReq,
         <<U8(16, "noqos"), U32(17, "ip"), U32(18, version), U32(19, version),
           U32(21, "datagrams"), U32(22, "size"), Endpoint(23, "hsusb"),
           U32(25, "padding"), U32(27, "datagrams"), U32(28, "size")>>)
  ELSE Filled("WDA", "SetDataFormat", EthDataFormatReq,
         <<U8(16, "noqos"), U32(17, "eth"), U32(19, 0)>>)

WdaSetLoopBackReq(state) ==
  Filled("WDA", "SetLoopBack", SetLoopBackReq, <<U8(1, state), U32(16, "replication")>>)

PinField(type, pin) == [type |-> type, len |-> 2 + Len(pin), val |-> pin]
DmsUIMVerifyPinReqSend(pin) ==
  Filled("DMS", "VerifyPin", DmsVerifyPinReq(pin), <<PinField(1, pin)>>)
UimVerifyPinReqSend(pin) ==
  Filled("UIM", "VerifyPin", UimVerifyPinReq(pin),
         <<[type |-> 1, len |-> 2, val |-> "session"], PinField(2, pin)>>)

ProfileField(pdp) == [type |-> 1, len |-> 2, val |-> pdp]
WdsCreateProfileSettingsReqSend(pdp) ==
  Filled("WDS", "CreateProfile", CreateProfileReq, <<U8(1, "3gpp"), U8(37, pdp)>>)
WdsGetProfileSettingsReqSend(pdp) ==
  Filled("WDS", "GetProfile", GetProfileReq, <<ProfileField(pdp)>>)
WdsModifyProfileSettingsReq(c, iptype) ==
  Appended("WDS", "ModifyProfile", ModifyProfileReq, <<ProfileField(c.pdp)>>,
    <<U8(17, iptype)>>
    \o If(c.apn # Null, Text(20, c.apn))
    \o If(c.user # Null, Text(27, c.user))
    \o If(c.password # Null, Text(28, c.password))
    \o If(c.user # Null /\ c.password # Null, U8(29, c.auth)))

WdsGetRuntimeSettingReq(service) ==
  Filled(service, "RuntimeSettings", GetRuntimeSettingsReq, <<U32(16, "mask")>>)

-----------------------------------------------------------------------------
(* CDMA carries a country or network code with the digit 0 as 10, less 111 *)
(* or 11: the decoders are checked against the encoding over every code.   *)

Undo(n) == IF n % 10 = 0 THEN (n - 10) \div 10 ELSE n \div 10
Leading(n) == IF n = 10 THEN 0 ELSE n

quectel_convert_cdma_mcc_2_ascii_mcc(mcc) ==
  LET n3 == mcc + 111
      n2 == Undo(n3)
      d1 == Leading(Undo(n2))
  IN CASE mcc = 1023 -> 3
       [] mcc # 1023 /\ d1 < 10 -> 100 * d1 + 10 * (n2 % 10) + (n3 % 10)
       [] OTHER -> 0

quectel_convert_cdma_mnc_2_ascii_mnc(imsi_11_12) ==
  LET n == imsi_11_12 + 11
      d1 == Leading(Undo(n))
  IN CASE imsi_11_12 = 127 -> 7
       [] imsi_11_12 # 127 /\ d1 < 10 -> 10 * d1 + (n % 10)
       [] OTHER -> 0

AsTen(d) == IF d = 0 THEN 10 ELSE d
Encoded(d1, d2, d3) == 100 * AsTen(d1) + 10 * AsTen(d2) + AsTen(d3) - 111

ASSUME MccDecoded ==
  \A d1, d2, d3 \in 0..9 :
    quectel_convert_cdma_mcc_2_ascii_mcc(Encoded(d1, d2, d3)) = 100 * d1 + 10 * d2 + d3
ASSUME MncDecoded ==
  \A d1, d2 \in 0..9 :
    quectel_convert_cdma_mnc_2_ascii_mnc(10 * AsTen(d1) + AsTen(d2) - 11) = 10 * d1 + d2
=============================================================================
