------------------------------ MODULE Ser2Mqtt ------------------------------
(***************************************************************************)
(* ser2mqtt: a Modbus line on one side, an MQTT broker on the other, two   *)
(* threads between them (main.c, serial.c, modbus.c, mqtt_client.c), and   *)
(* procd, which starts the process again when it ends.                     *)
(***************************************************************************)
EXTENDS JsonParse, FiniteSets, SequencesExt

CONSTANTS
  Frames,       \* what the devices on the line send: frames and noise
  MaxFrames,    \* how many of them
  MaxCommands,  \* commands published for the line
  MaxFaults     \* failed calls, broker outages, refusals and full ports

\* len is how many bytes the port passes on, good whether it was sent as a frame, and
\* flow the last flow control byte (0x11, 0x13) in it: the port swallows those.
ASSUME FramesAssumption ==
  Frames \subseteq [len : Nat \ {0}, good : BOOLEAN, flow : {"none", "start", "stop"}]

ASSUME BoundsAssumption == {MaxFrames, MaxCommands, MaxFaults} \subseteq Nat

VARIABLES
  line,     \* what the devices have sent
  quiet,    \* the last frame began when main waited with nothing received
  tty,      \* bytes the port has passed on and main has not read: <<frame, position>>
  stopped,  \* a flow control byte has stopped the port's output
  pc,       \* main: "down", "connect", "mac", "serial", "receive" or "publish"
  buf,      \* main: the bytes received so far, buf[255]
  reports,  \* what the broker was given: the text and the bytes it was made of
  broker,   \* whether the broker is up
  link,     \* the MQTT thread: "none", "lost", "wait", "up" or "subscribed"
  inbox,    \* commands on their way to the MQTT thread: <<number, payload>>
  asked,    \* commands published
  wire,     \* what was written to the port for which command, and whether it was full
  faults    \* faults left

serialVars == <<line, quiet, tty, stopped, buf>>
brokerVars == <<broker, link, inbox, asked>>
vars == <<line, quiet, tty, stopped, pc, buf, reports, broker, link, inbox, asked, wire, faults>>

\* Scaled down: 4 bytes, 250 bytes in message[512], 255 bytes in buf, 256 in bytes.
MinLength == 2
Room == 3
BufferSize == 4
MaxBytes == 2

PortOpen == pc \in {"receive", "publish"}
Connected == link \in {"up", "subscribed"}
Fails == faults > 0 /\ faults' = faults - 1
Fine == UNCHANGED faults

-----------------------------------------------------------------------------
(* Commands: JSON whose "msg", in any case, is hexadecimal                 *)

Msg == <<109, 115, 103>>
Chars(string) == [i \in DOMAIN string |-> IF string[i] \in 65..90 THEN string[i] + 32 ELSE string[i]]

\* cJSON_GetObjectItem(json, "msg")->valuestring, <<>> if there is none.
Named(items) == {i \in DOMAIN items : Chars(items[i].string) = Msg}
MsgOf(json) ==
  LET found == IF json.ok /\ json.val.t = "object" THEN Named(json.val.items) ELSE {}
      item == json.val.items[Min(found)].item
  IN IF found # {} /\ item.t = "string" THEN item.val ELSE <<>>

\* Faulty variant: digits in upper case are not known.
NibbleInLowerCase(c) == CASE c \in 48..57 -> c - 48 [] c \in 97..102 -> c - 87 [] OTHER -> 16

\* strtol of two characters: what is no digit ends the number.
Nibble(c) == CASE c \in 48..57 -> c - 48 [] c \in 97..102 -> c - 87 [] c \in 65..70 -> c - 55 [] OTHER -> 16
Pair(a, b) == CASE Nibble(a) = 16 -> 0 [] Nibble(a) < 16 /\ Nibble(b) = 16 -> Nibble(a)
                [] OTHER -> 16 * Nibble(a) + Nibble(b)

\* Faulty variant: the last pair needs a character behind it.
HexWithoutLast(string) ==
  [k \in 1..Min({(Len(string) - 1) \div 2, MaxBytes}) |-> Pair(string[2 * k - 1], string[2 * k])]

\* As many pairs as bytes[] holds; a digit without another is left out.
hex_to_bytes(string) ==
  [k \in 1..Min({Len(string) \div 2, MaxBytes}) |-> Pair(string[2 * k - 1], string[2 * k])]

\* What may be published, and the bytes its sender means to be written, if its "msg" is
\* made of digits: "011F"; "a0" as the second member; a number; a text without an end;
\* "010203", which is longer than bytes[]; "zz", which means nothing.
OneMember(item) == <<P("lbrace"), S(Msg), P("colon"), item, P("rbrace")>>
Payloads == <<
  [text |-> OneMember(S(<<48, 49, 49, 70>>)), digits |-> TRUE, meant |-> <<1, 31>>],
  [text |-> <<P("lbrace"), S(<<105>>), P("colon"), N(7), P("comma"),
              S(<<77, 83, 71>>), P("colon"), S(<<97, 48>>), P("rbrace"), P("rest")>>,
   digits |-> TRUE, meant |-> <<160>>],
  [text |-> OneMember(N(7)), digits |-> TRUE, meant |-> <<>>],
  [text |-> <<P("lbrace"), S(Msg), P("colon")>>, digits |-> TRUE, meant |-> <<>>],
  [text |-> OneMember(S(<<48, 49, 48, 50, 48, 51>>)), digits |-> TRUE, meant |-> <<1, 2, 3>>],
  [text |-> OneMember(S(<<122, 122>>)), digits |-> FALSE, meant |-> <<>>]>>

\* What each of them makes the program write.
Orders == [p \in DOMAIN Payloads |-> hex_to_bytes(MsgOf(cJSON_Parse(Payloads[p].text)))]

-----------------------------------------------------------------------------
(* Frames and reports                                                      *)

\* At least as long as a frame, with a function code and a CRC: no run of bytes has
\* a right CRC but those of one good frame, none of them swallowed.
FrameBytes(f) == [i \in 1..line[f].len |-> <<f, i>>]

\* Faulty variant: the CRC is not compared.
CheckWithoutCrc(bytes) == Len(bytes) >= MinLength /\ bytes[1][2] = 1 /\ line[bytes[1][1]].good

Intact(f) == line[f].good /\ line[f].flow = "none"
check_modbus_rtu_format(bytes) ==
  Len(bytes) >= MinLength /\ Intact(bytes[1][1]) /\ bytes = FrameBytes(bytes[1][1])

\* {"msg"colon"..."}, cut off where message[] ends.
Message(bytes) ==
  <<P("lbrace"), S(Msg), P("colon")>> \o (IF Len(bytes) <= Room THEN <<S(bytes), P("rbrace")>> ELSE <<>>)

-----------------------------------------------------------------------------
(* The main thread                                                         *)

\* A port that is opened again is not stopped.
Exit ==
  /\ pc' = "down" /\ link' = "none" /\ inbox' = <<>>
  /\ tty' = <<>> /\ stopped' = FALSE /\ buf' = <<>>

\* procd, respawn.
Start == pc = "down" /\ pc' = "connect" /\ Fine /\ UNCHANGED <<serialVars, reports, brokerVars, wire>>

mqtt_init ==
  /\ pc = "connect" /\ Fine
  /\ IF broker THEN pc' = "mac" /\ link' = "wait" /\ UNCHANGED <<tty, stopped, buf, inbox>> ELSE Exit
  /\ UNCHANGED <<line, quiet, reports, broker, asked, wire>>

get_mac_address ==
  /\ pc = "mac"
  /\ \/ pc' = "serial" /\ Fine /\ UNCHANGED <<tty, stopped, buf, link, inbox>>
     \/ Exit /\ Fails
  /\ UNCHANGED <<line, quiet, reports, broker, asked, wire>>

\* INPCK, ICRNL and IGNCR are cleared in c_iflag, IXON is not: see StoppedBy.
serial_init ==
  /\ pc = "serial"
  /\ \/ pc' = "receive" /\ Fine /\ UNCHANGED <<tty, stopped, buf, link, inbox>>
     \/ Exit /\ Fails
  /\ UNCHANGED <<line, quiet, reports, broker, asked, wire>>

\* What the bytes 0x11 and 0x13 of a frame do to the output of the port.
StoppedBy(frame) ==
  CASE frame.flow = "stop" -> TRUE [] frame.flow = "start" -> FALSE [] OTHER -> stopped

\* What serial_receive_modbus returns is published if it is a frame.
Received(bytes) ==
  IF check_modbus_rtu_format(bytes) THEN pc' = "publish" /\ buf' = bytes ELSE pc' = "receive" /\ buf' = <<>>

\* Faulty variant: one byte more than the buffer holds.
ReceivePastEnd ==
  /\ pc = "receive" /\ tty # <<>>
  /\ tty' = Tail(tty)
  /\ LET bytes == Append(buf, Head(tty))
     IN IF Len(bytes) = BufferSize + 1 THEN Received(bytes) ELSE buf' = bytes /\ UNCHANGED pc
  /\ Fine /\ UNCHANGED <<line, quiet, stopped, reports, brokerVars, wire>>

\* A byte.  The silence behind it is measured from right before to right after: it is
\* never long, unless the thread is held up in between.
ReceiveByte ==
  /\ pc = "receive" /\ tty # <<>>
  /\ tty' = Tail(tty)
  /\ LET bytes == Append(buf, Head(tty))
     IN \/ Len(bytes) = BufferSize /\ Received(bytes) /\ Fine
        \/ Len(bytes) < BufferSize /\ buf' = bytes /\ UNCHANGED pc /\ Fine
        \/ Len(bytes) \in MinLength..(BufferSize - 1) /\ Received(bytes) /\ Fails
  /\ UNCHANGED <<line, quiet, stopped, reports, brokerVars, wire>>

\* Faulty variant: a timeout starts over.
SilenceForgets ==
  /\ pc = "receive" /\ tty = <<>> /\ buf # <<>>
  /\ buf' = <<>>
  /\ Fine /\ UNCHANGED <<line, quiet, tty, stopped, pc, reports, brokerVars, wire>>

\* No byte for a second.
Silence ==
  /\ pc = "receive" /\ tty = <<>> /\ buf # <<>>
  /\ Received(buf)
  /\ Fine /\ UNCHANGED <<line, quiet, tty, stopped, reports, brokerVars, wire>>

\* select fails, and what was received is forgotten; or read does, which counts as a
\* timeout.
ReceiveFails ==
  /\ pc = "receive" /\ buf # <<>>
  /\ (buf' = <<>> /\ UNCHANGED pc) \/ Received(buf)
  /\ Fails /\ UNCHANGED <<line, quiet, tty, stopped, reports, brokerVars, wire>>

\* Before the broker has answered it may take a message or not.
mqtt_publish ==
  /\ pc = "publish"
  /\ pc' = "receive" /\ buf' = <<>>
  /\ \/ /\ Connected \/ link = "wait"
        /\ reports' = Append(reports, [text |-> Message(buf), bytes |-> buf])
     \/ ~Connected /\ UNCHANGED reports
  /\ Fine /\ UNCHANGED <<line, quiet, tty, stopped, brokerVars, wire>>

-----------------------------------------------------------------------------
(* The MQTT thread                                                         *)

\* libmosquitto connects again; the session is a clean one.
Reconnect ==
  /\ link = "lost" /\ broker
  /\ link' = "wait"
  /\ Fine /\ UNCHANGED <<serialVars, pc, reports, broker, inbox, asked, wire>>

on_connect ==
  /\ link = "wait"
  /\ \/ link' = "up" /\ Fine /\ UNCHANGED <<pc, tty, stopped, buf, inbox>>
     \/ Exit /\ Fails
  /\ UNCHANGED <<line, quiet, reports, broker, asked, wire>>

\* serial_send_hex: the port takes what it has room for, and a stopped one runs full.
Written(bytes, taken) ==
  Append(wire, [number |-> Head(inbox)[1], bytes |-> SubSeq(bytes, 1, taken), full |-> taken < Len(bytes)])

on_message ==
  /\ link = "subscribed" /\ inbox # <<>>
  /\ LET bytes == Orders[Head(inbox)[2]]
     IN \/ wire' = (IF PortOpen /\ bytes # <<>> THEN Written(bytes, Len(bytes)) ELSE wire) /\ Fine
        \/ /\ \E taken \in 0..(Len(bytes) - 1) : PortOpen /\ wire' = Written(bytes, taken)
           /\ IF stopped THEN Fine ELSE Fails
  /\ inbox' = Tail(inbox)
  /\ UNCHANGED <<serialVars, pc, reports, broker, link, asked>>

-----------------------------------------------------------------------------
(* The devices on the line, and the broker                                 *)

SendFrame ==
  /\ Len(line) < MaxFrames
  /\ \E frame \in Frames :
       /\ line' = Append(line, frame)
       /\ tty' = IF PortOpen THEN tty \o [i \in 1..frame.len |-> <<Len(line) + 1, i>>] ELSE tty
       /\ stopped' = (PortOpen /\ StoppedBy(frame))
  /\ quiet' = (pc = "receive" /\ tty = <<>> /\ buf = <<>>)
  /\ Fine /\ UNCHANGED <<pc, buf, reports, brokerVars, wire>>

\* QoS 0 and a clean session: only who is subscribed is sent a command.
Command ==
  /\ broker /\ asked < MaxCommands
  /\ asked' = asked + 1
  /\ \E p \in DOMAIN Payloads :
       inbox' = IF link = "subscribed" THEN Append(inbox, <<asked', p>>) ELSE inbox
  /\ Fine /\ UNCHANGED <<serialVars, pc, reports, broker, link, wire>>

Subscribed ==
  /\ link = "up" /\ broker
  /\ link' = "subscribed"
  /\ Fine /\ UNCHANGED <<serialVars, pc, reports, broker, inbox, asked, wire>>

BrokerDown ==
  /\ broker /\ Fails
  /\ broker' = FALSE /\ inbox' = <<>>
  /\ link' = IF link = "none" THEN link ELSE "lost"
  /\ UNCHANGED <<serialVars, pc, reports, asked, wire>>

BrokerUp ==
  /\ ~broker /\ broker' = TRUE
  /\ Fine /\ UNCHANGED <<serialVars, pc, reports, link, inbox, asked, wire>>

-----------------------------------------------------------------------------

Init ==
  /\ line = <<>> /\ quiet = FALSE /\ tty = <<>> /\ stopped = FALSE
  /\ pc = "down" /\ buf = <<>> /\ reports = <<>>
  /\ broker = TRUE /\ link = "none" /\ inbox = <<>> /\ asked = 0
  /\ wire = <<>> /\ faults = MaxFaults

Main ==
  Start \/ mqtt_init \/ get_mac_address \/ serial_init
    \/ ReceiveByte \/ Silence \/ ReceiveFails \/ mqtt_publish
Mosquitto == Reconnect \/ on_connect \/ on_message
Next == Main \/ Mosquitto \/ SendFrame \/ Command \/ Subscribed \/ BrokerDown \/ BrokerUp

Spec == Init /\ [][Next]_vars
LiveSpec ==
  Spec /\ WF_vars(Main) /\ WF_vars(Mosquitto) /\ WF_vars(Subscribed) /\ WF_vars(BrokerUp)

-----------------------------------------------------------------------------
(* Properties                                                              *)

\* The buffers keep their bounds, and what is in them and in the port is what the port
\* has passed on, in order: nothing comes twice or from elsewhere.
InOrder(bytes) ==
  \A i \in 1..(Len(bytes) - 1) :
    \/ bytes[i + 1] = <<bytes[i][1], bytes[i][2] + 1>>
    \/ bytes[i][2] = line[bytes[i][1]].len /\ bytes[i + 1] = <<bytes[i][1] + 1, 1>>
TypeOK ==
  /\ pc \in {"down", "connect", "mac", "serial", "receive", "publish"}
  /\ link \in {"none", "lost", "wait", "up", "subscribed"}
  /\ Len(buf) <= BufferSize /\ InOrder(buf \o tty)
  /\ asked \in 0..MaxCommands /\ faults \in 0..MaxFaults /\ stopped \in BOOLEAN

\* Whatever runs together on the line and in the buffers, what is published reads as
\* the whole of one good frame, in the order of the line and once; a frame that is
\* too long for message[] is cut.
ReportsAreFrames ==
  /\ \A r \in ToSet(reports) : LET json == cJSON_ParseWithOpts(r.text, TRUE)
                               IN Len(r.bytes) <= Room => MsgOf(json) = FrameBytes(r.bytes[1][1])
  /\ \A i, j \in DOMAIN reports : i < j => reports[i].bytes[1][1] < reports[j].bytes[1][1]

\* Whatever has run together before it, a good frame that comes while main waits with
\* nothing received is reported, unless it has a flow control byte in it, or another one
\* follows within the second (then both may be dropped), or the broker goes away or
\* something else fails.
Reported(f) == \E r \in ToSet(reports) : r.bytes[1][1] = f
FramesReported ==
  \A f \in 1..MaxFrames, left \in 0..MaxFaults :
    (/\ faults = left /\ f = Len(line) /\ quiet /\ tty = FrameBytes(f) /\ pc = "receive" /\ Connected
     /\ Intact(f) /\ line[f].len \in MinLength..BufferSize)
      ~> (Reported(f) \/ f < Len(line) \/ faults < left)

\* Nothing is written to the port but for the command that comes next, once.  If that is
\* made of digits, it is what its sender means, or the beginning of it: as much as a full
\* port takes, or as bytes[] holds.
Meant(c) == Payloads[c[2]].meant
Digits(c) == Payloads[c[2]].digits
WrittenFor(c, w) ==
  /\ IsPrefix(w.bytes, Meant(c))
  /\ w.bytes = Meant(c) \/ Len(w.bytes) = MaxBytes \/ w.full
OnlyMeantIsWritten ==
  [][wire' # wire =>
       /\ inbox' = Tail(inbox) /\ Front(wire') = wire /\ Last(wire').number = Head(inbox)[1]
       /\ Digits(Head(inbox)) => WrittenFor(Head(inbox), Last(wire'))]_vars

\* A command for which the program listens with the port open comes to the line, all of
\* it or as much as bytes[] holds, unless the link goes, the port is full, or a device's
\* flow control byte has stopped the output.
CommandsServed ==
  \A c \in (1..MaxCommands) \X DOMAIN Payloads :
    (PortOpen /\ c \in ToSet(inbox) /\ Digits(c) /\ Meant(c) # <<>>)
      ~> (link # "subscribed" \/ stopped
          \/ \E w \in ToSet(wire) : w.number = c[1] /\ WrittenFor(c, w))

=============================================================================
