------------------------------ MODULE AtChannel ------------------------------
(***************************************************************************)
(* The AT command channel (quectel_cm_5G/src/atchannel.c), used by the     *)
(* connection manager for modems without QMI and by quectel-atc-proxy.     *)
(*                                                                         *)
(* One command at a time: at_send_command_full writes it and waits on a    *)
(* condition variable for its final response; a reader thread takes line   *)
(* after line from the tty and decides what each is.  Nothing in a line    *)
(* names the command it answers.  A line that is nobody's goes to the      *)
(* handler of unsolicited lines, which belongs to the program: the reader  *)
(* is at "hand" until it returns, and holds cm_command_mutex meanwhile     *)
(* unless the line was a text message.                                     *)
(*                                                                         *)
(* A line is a record of its kind and of the command it answers (0: none), *)
(* by a number that the program does not see and that is used again once   *)
(* nothing of the command is left.                                         *)
(***************************************************************************)
EXTENDS Naturals, Sequences, FiniteSets, SequencesExt

CONSTANTS
  Proxy,        \* s_atc_proxy: final responses go to the handler, too
  Slices,       \* the timed waits pthread_cond_timeout_np makes of one
  MaxFaults     \* bound on what modem, device and clients may do wrong

ASSUME ChannelAssumption == Proxy \in BOOLEAN /\ Slices \in Nat \ {0} /\ MaxFaults \in Nat

VARIABLES
  fd,           \* s_fd is open
  readerClosed, \* s_readerClosed
  response,     \* sp_response and s_type of the pending command, or NoResponse
  caller,       \* threads in at_send_command_full: "out", "wait", "expired", "woken"
  slices,       \* timed waits the caller has left
  reader,       \* reader thread: "none", "read", "pdu", "hand", "gone"
  lines,        \* the lines the reader is at
  rx,           \* lines in the tty
  todo,         \* commands the modem has not finished
  present,      \* the tty exists
  faults,       \* faults left
  result,       \* what the last command returned
  collided,     \* a command was refused as pending: the pending one's response is freed
  outOfStep     \* history: in this session a command was given up before its final
                \* response, or has taken a line for it that is nobody's

channel == <<fd, readerClosed, response, caller, slices, reader, lines, result, collided>>
line == <<rx, todo, present>>
atvars == <<channel, line, faults, outOfStep>>

Threads == {"main", "loop"}
NoResponse == [n |-> 0, type |-> "NO_RESULT", intermediates |-> <<>>, final |-> <<>>]
Finals == {"OK", "ERROR"}
IsFinal(l) == l.kind \in Finals

\* The final response of some command.
Answers(l) == IsFinal(l) /\ l.of # 0
NoResult == [err |-> "none", own |-> FALSE, success |-> FALSE, data |-> FALSE]

Mutex == reader # "hand" \/ Len(lines) = 2

AtInit ==
  /\ fd = FALSE /\ readerClosed = FALSE /\ response = NoResponse
  /\ caller = [t \in Threads |-> "out"] /\ slices = 0
  /\ reader = "none" /\ lines = <<>>
  /\ rx = <<>> /\ todo = <<>> /\ present = TRUE
  /\ faults = MaxFaults /\ result = NoResult
  /\ collided = FALSE /\ outOfStep = FALSE

Fault == faults > 0 /\ faults' = faults - 1

Signalled == [t \in Threads |-> IF caller[t] = "wait" THEN "woken" ELSE caller[t]]

at_open ==
  /\ present
  /\ fd' = TRUE /\ readerClosed' = FALSE /\ response' = NoResponse
  /\ reader' = "read" /\ lines' = <<>> /\ rx' = <<>> /\ todo' = <<>> /\ outOfStep' = FALSE
  /\ UNCHANGED <<caller, slices, result, collided, present, faults>>

at_close ==
  /\ Mutex
  /\ fd' = FALSE /\ readerClosed' = TRUE /\ caller' = Signalled
  /\ UNCHANGED <<response, slices, reader, lines, result, collided, line, faults,
                 outOfStep>>

Numbers == ToSet(todo) \cup {l.of : l \in ToSet(lines \o rx)}

-----------------------------------------------------------------------------
(* The commanding thread                                                   *)

Returned(t, n, err, r) ==
  /\ caller' = [caller EXCEPT ![t] = "out"]
  /\ result' = [err |-> err, own |-> r.final # <<>> /\ r.final[1].of = n,
                success |-> r.final # <<>> /\ r.final[1].kind = "OK",
                data |-> r.intermediates # <<>>]

\* What writeline returns.
WriteError == IF ~fd \/ readerClosed THEN "CLOSED" ELSE IF ~present THEN "GENERIC" ELSE "ok"

\* at_send_command_full up to the wait.  With a command pending it frees that
\* command's response, which the other thread still waits for.
at_send_command(t, type) ==
  LET n == CHOOSE n \in 1..(Cardinality(Numbers) + 1) : n \notin Numbers IN
  /\ caller[t] = "out" /\ Mutex
  /\ collided' = (collided \/ response # NoResponse)
  /\ IF response # NoResponse \/ WriteError # "ok"
     THEN /\ Returned(t, n, IF response # NoResponse THEN "PENDING" ELSE WriteError, NoResponse)
          /\ response' = NoResponse
          /\ UNCHANGED <<slices, todo>>
     ELSE /\ response' = [NoResponse EXCEPT !.n = n, !.type = type]
          /\ caller' = [caller EXCEPT ![t] = "wait"] /\ slices' = Slices
          /\ todo' = Append(todo, n)
          /\ UNCHANGED result
  /\ UNCHANGED <<fd, readerClosed, reader, lines, rx, present, faults, outOfStep>>

\* The answer is on its way; not to wait for it is a fault of timing.
Due ==
  /\ response.final = <<>> /\ ~readerClosed
  /\ \/ response.n \in ToSet(todo)
     \/ \E i \in DOMAIN (lines \o rx) : IsFinal((lines \o rx)[i]) /\ (lines \o rx)[i].of = response.n

\* Between two timed waits the thread is not on the condition's queue.
SliceExpires(t) ==
  /\ caller[t] = "wait"
  /\ slices > 1 \/ faults > 0 \/ ~Due
  /\ caller' = [caller EXCEPT ![t] = "expired"]
  /\ UNCHANGED <<fd, readerClosed, response, slices, reader, lines, result, collided, line,
                 faults, outOfStep>>

WaitAgain(t) ==
  /\ caller[t] = "expired" /\ Mutex /\ slices > 1
  /\ caller' = [caller EXCEPT ![t] = "wait"] /\ slices' = slices - 1
  /\ UNCHANGED <<fd, readerClosed, response, reader, lines, result, collided, line, 
                 faults, outOfStep>>

\* Variant: the error of the wait is lost.
TimesOutUnnoticed(t) ==
  /\ caller[t] = "expired" /\ Mutex /\ slices = 1
  /\ IF Due THEN Fault ELSE UNCHANGED faults
  /\ Returned(t, response.n, "ok", NoResponse)
  /\ response' = NoResponse
  /\ outOfStep' = (outOfStep \/ Due)
  /\ UNCHANGED <<fd, readerClosed, slices, reader, lines, collided, line>>

\* ETIMEDOUT, also when the final response came while the thread was "expired".
TimesOut(t) ==
  /\ caller[t] = "expired" /\ Mutex /\ slices = 1
  /\ IF Due THEN Fault ELSE UNCHANGED faults
  /\ Returned(t, response.n, "TIMEOUT", NoResponse)
  /\ response' = NoResponse
  /\ outOfStep' = (outOfStep \/ Due)
  /\ UNCHANGED <<fd, readerClosed, slices, reader, lines, collided, line>>

\* at_send_command_singleline and its like refuse a success without its line.
Missing ==
  /\ response.type \in {"SINGLELINE", "NUMERIC"} /\ response.intermediates = <<>>
  /\ response.final # <<>> /\ response.final[1].kind = "OK"

Returns(t) ==
  /\ caller[t] = "woken" /\ Mutex
  /\ Returned(t, response.n,
       IF readerClosed THEN "CLOSED" ELSE IF Missing THEN "INVALID" ELSE "ok", response)
  /\ response' = NoResponse
  /\ UNCHANGED <<fd, readerClosed, slices, reader, lines, collided, line, faults,
                 outOfStep>>

-----------------------------------------------------------------------------
(* The reader thread                                                       *)

\* The line is a part of the pending command's answer: processLine keeps it.
IsIntermediate(l) ==
  /\ l.kind = "data" /\ l.of = response.n
  /\ \/ response.type = "MULTILINE"
     \/ response.type \in {"SINGLELINE", "NUMERIC"} /\ response.intermediates = <<>>

ReadText ==
  /\ reader = "read" /\ fd /\ rx # <<>> /\ Head(rx).kind = "sms"
  /\ reader' = "pdu" /\ lines' = <<Head(rx)>> /\ rx' = Tail(rx)
  /\ UNCHANGED <<fd, readerClosed, response, caller, slices, result, collided, todo, present,
                 faults, outOfStep>>

\* Whatever line comes next is the text message's.
ReadPdu ==
  /\ reader = "pdu" /\ fd /\ rx # <<>>
  /\ reader' = "hand" /\ lines' = Append(lines, Head(rx)) /\ rx' = Tail(rx)
  /\ outOfStep' = (outOfStep \/ Answers(Head(rx)))
  /\ UNCHANGED <<fd, readerClosed, response, caller, slices, result, collided, todo, present,
                 faults>>

\* Variant: final responses are not passed on to the handler.
KeptQuietly(l) == response # NoResponse /\ (IsFinal(l) \/ IsIntermediate(l))

\* processLine keeps the line to itself.
Kept(l) == response # NoResponse /\ ((IsFinal(l) /\ ~Proxy) \/ IsIntermediate(l))

\* processLine up to the handler, or all of it when it is not called.
ReadLine ==
  LET l == Head(rx) IN
  /\ reader = "read" /\ fd /\ rx # <<>> /\ l.kind # "sms"
  /\ rx' = Tail(rx)
  /\ IF Kept(l)
     THEN /\ response' = IF IsFinal(l) THEN [response EXCEPT !.final = <<l>>]
                         ELSE [response EXCEPT !.intermediates = Append(@, l)]
          /\ caller' = IF IsFinal(l) THEN Signalled ELSE caller
          /\ outOfStep' = (outOfStep \/ (IsFinal(l) /\ ~Answers(l)))
          /\ UNCHANGED <<reader, lines>>
     ELSE /\ reader' = "hand" /\ lines' = <<l>>
          /\ UNCHANGED <<response, caller, outOfStep>>
  /\ UNCHANGED <<fd, readerClosed, slices, result, collided, todo, present, faults>>

\* The handler is back; a final response completes the pending command.
HandlerReturns ==
  LET done == Len(lines) = 1 /\ IsFinal(lines[1]) /\ response # NoResponse IN
  /\ reader = "hand"
  /\ reader' = "read" /\ lines' = <<>>
  /\ response' = IF done THEN [response EXCEPT !.final = lines] ELSE response
  /\ caller' = IF done THEN Signalled ELSE caller
  /\ outOfStep' = (outOfStep \/ (done /\ ~Answers(lines[1])))
  /\ UNCHANGED <<fd, readerClosed, slices, result, collided, line, faults>>

\* End of file or an error: readline returns NULL, onReaderClosed.
ReaderEnds ==
  /\ reader \in {"read", "pdu"} /\ (~fd \/ ~present)
  /\ reader' = "gone" /\ lines' = <<>>
  /\ readerClosed' = TRUE
  /\ caller' = IF readerClosed THEN caller ELSE Signalled
  /\ UNCHANGED <<fd, response, slices, result, collided, line, faults, outOfStep>>

-----------------------------------------------------------------------------
(* Modem                                                                   *)

Arrive(ls) == rx' = rx \o ls

\* The modem works off its commands in order: perhaps a line of text, and a
\* final response.
Answer(kind) ==
  /\ present /\ todo # <<>>
  /\ LET n == Head(todo) IN
     \E data \in {<<>>, <<[kind |-> "data", of |-> n]>>} :
        Arrive(Append(data, [kind |-> kind, of |-> n]))
  /\ todo' = Tail(todo)
  /\ UNCHANGED <<channel, present, faults, outOfStep>>

\* A status line, which may have the form of a final response (NO CARRIER, the end of
\* an update), a text message with its second line, or the notice of a stored one,
\* +CMTI, which has none.
Unsolicited ==
  /\ present /\ fd /\ Fault
  /\ \/ \E k \in Finals \cup {"urc"} : Arrive(<<[kind |-> k, of |-> 0]>>)
     \/ Arrive(<<[kind |-> "sms", of |-> 0], [kind |-> "urc", of |-> 0]>>)
     \/ Arrive(<<[kind |-> "sms", of |-> 0]>>)
  /\ UNCHANGED <<channel, todo, present, outOfStep>>

Unplug ==
  /\ present /\ Fault
  /\ present' = FALSE /\ rx' = <<>> /\ todo' = <<>>
  /\ UNCHANGED <<channel, outOfStep>>

\* The device takes seconds to come back; by then the reader has seen it go.
Replug ==
  /\ ~present /\ reader \in {"none", "gone"}
  /\ present' = TRUE
  /\ UNCHANGED <<channel, rx, todo, faults, outOfStep>>
=============================================================================
