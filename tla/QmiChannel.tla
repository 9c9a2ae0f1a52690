----------------------------- MODULE QmiChannel -----------------------------
(***************************************************************************)
(* The request/answer rendezvous between the connection manager's main     *)
(* thread and its device thread (quectel_cm_5G/src/QMIThread.c, util.c and *)
(* QmiWwanCM.c).                                                           *)
(*                                                                         *)
(* The main thread publishes its request in s_pRequest, writes it to the   *)
(* device and waits on a condition variable.  The device thread matches    *)
(* what it reads against s_pRequest.  Timed out requests leave s_pRequest  *)
(* set, answers may come late or never, and a stop or a hang-up makes the  *)
(* device thread complete the request without an answer.                   *)
(*                                                                         *)
(* A C pointer is a set with at most one element: {} is NULL.              *)
(***************************************************************************)
EXTENDS Naturals, Sequences

CONSTANTS
  Types,    \* QMI services as the channel tells them apart: "CTL" and the others
  MaxTid,   \* MaxTid[t]: the last transaction id before the counter wraps to 1
  Slices    \* timed waits that make up one pthread_cond_timeout_np

ASSUME MaxTidAssumption == MaxTid \in [Types -> Nat \ {0}]
ASSUME SlicesAssumption == Slices \in Nat \ {0}

VARIABLES
  mpc,       \* main thread: "idle", or in QmiThreadSendQMITimeout: blocked on the
             \* condition ("wait"), past a timed wait but without the mutex
             \* ("expired"), or signalled ("woken")
  left,      \* timed waits left, the current one included
  ctr,       \* ctr[t]: static TransactionId of GetQCTLTransactionId/GetQMUXTransactionId
  cur,       \* {} or the latest request: its type and transaction id
  ret, rsp,  \* what QmiThreadSendQMITimeout returned for cur, and *ppResponse
  sreq,      \* s_pRequest
  srsp,      \* s_pResponse
  atModem,   \* requests the modem holds, answered late or never; age counts the
             \* requests of the same type sent since
  open,      \* cdc_wdm_fd # -1
  rpc,       \* device thread: "poll", "notify", "flush" or "dead"
  stopping,  \* wait_for_request_quit
  ctl        \* the control socket towards the device thread

mainVars == <<mpc, left, ctr, cur, ret, rsp>>
devVars == <<open, rpc, stopping, ctl>>

vars == <<mainVars, sreq, srsp, atModem, devVars>>

Request == [type : Types, tid : Nat]
Message == [type : Types, tid : Nat, age : Nat]

Init ==
  /\ mpc = "idle" /\ left = 0
  /\ ctr = [t \in Types |-> 0]
  /\ cur = {} /\ ret = "idle" /\ rsp = {}
  /\ sreq = {} /\ srsp = {}
  /\ atModem = {}
  /\ open = TRUE /\ rpc = "poll" /\ stopping = FALSE
  /\ ctl = <<>>

-----------------------------------------------------------------------------
(* Main thread                                                             *)

\* Faulty variant: the wrapped counter starts at 0, the id of indications.
NextTidFromZero(t) == (ctr[t] + 1) % (MaxTid[t] + 1)

NextTid(t) == IF ctr[t] + 1 > MaxTid[t] THEN 1 ELSE ctr[t] + 1

\* Sending a request of type t makes every older one of that type one
\* request older.  The modem is assumed not to answer a request MaxTid[t]
\* requests late: only that keeps a reused transaction id unambiguous.
Aged(t) ==
  {m \in atModem : m.type # t}
    \cup {[m EXCEPT !.age = @ + 1] :
            m \in {n \in atModem : n.type = t /\ n.age + 1 < MaxTid[t]}}

\* Compose*Msg takes the transaction id; QmiThreadSendQMITimeout publishes
\* the request and forgets the previous answer, under the mutex.
Publish(t) ==
  /\ mpc = "idle"
  /\ ctr' = [ctr EXCEPT ![t] = NextTid(t)]
  /\ cur' = {[type |-> t, tid |-> NextTid(t)]}
  /\ sreq' = {[type |-> t, tid |-> NextTid(t)]}
  /\ srsp' = {} /\ rsp' = {}
  /\ UNCHANGED devVars

Block == mpc' = "wait" /\ left' = Slices /\ ret' = "pending"

\* Faulty variant: no -ENODEV for a device that the device thread has closed.
SendWrittenClosed(t) ==
  /\ Publish(t) /\ Block
  /\ atModem' = Aged(t) \cup {[type |-> t, tid |-> NextTid(t), age |-> 0]}

\* The request is written to the device.
SendWritten(t) ==
  /\ open
  /\ Publish(t) /\ Block
  /\ atModem' = Aged(t) \cup {[type |-> t, tid |-> NextTid(t), age |-> 0]}

\* The device accepts no data for five seconds: poll() returned 0, so does
\* QmiWwanSendQMI, and the caller waits for the answer to a request that
\* was never written.
SendSwallowed(t) ==
  /\ open
  /\ Publish(t) /\ Block
  /\ atModem' = Aged(t)

\* -ENODEV (device closed, or no client id for the service), or a failed
\* poll or write.  s_pRequest stays set.
SendRefused(t) ==
  /\ Publish(t)
  /\ atModem' = Aged(t)
  /\ ret' = "unsent"
  /\ UNCHANGED <<mpc, left>>

\* One pthread_cond_timedwait of pthread_cond_timeout_np ends in ETIMEDOUT:
\* the thread has left the condition's queue and needs the mutex again.
SliceExpires ==
  /\ mpc = "wait" /\ mpc' = "expired"
  /\ UNCHANGED <<left, ctr, cur, ret, rsp, sreq, srsp, atModem, devVars>>

\* Faulty variants: the slices are not counted, or not bounded.
WaitAgainUncounted ==
  /\ mpc = "expired" /\ mpc' = "wait"
  /\ UNCHANGED <<left, ctr, cur, ret, rsp, sreq, srsp, atModem, devVars>>

WaitAgainUnbounded ==
  /\ mpc = "expired" /\ mpc' = "wait" /\ left' = left - 1
  /\ UNCHANGED <<ctr, cur, ret, rsp, sreq, srsp, atModem, devVars>>

\* The next timed wait starts without looking at s_pResponse.
WaitAgain ==
  /\ mpc = "expired" /\ left > 1
  /\ mpc' = "wait" /\ left' = left - 1
  /\ UNCHANGED <<ctr, cur, ret, rsp, sreq, srsp, atModem, devVars>>

Return(r, m) ==
  /\ mpc' = "idle" /\ left' = 0
  /\ ret' = r /\ rsp' = m
  /\ UNCHANGED <<ctr, cur, sreq, srsp, atModem, devVars>>

TimesOut == mpc = "expired" /\ left = 1 /\ Return("etimedout", {})

\* A caller that passed no ppResponse ignores what it is given here.
Wakes == mpc = "woken" /\ Return("ok", srsp)

-----------------------------------------------------------------------------
(* Device thread                                                           *)

\* pthread_cond_signal: lost unless the main thread is on the queue.
Signal == mpc' = IF mpc = "wait" THEN "woken" ELSE mpc

IsResponse(m) == \E r \in sreq : r.type = m.type /\ r.tid = m.tid

\* Faulty variants: the answer is dropped without looking at s_pRequest, or the
\* waiting thread is not signalled.
DropAnswer ==
  /\ sreq' = {} /\ srsp' = {}
  /\ IF sreq # {} THEN Signal ELSE UNCHANGED mpc

CompleteSilently == sreq' = {} /\ srsp' = (IF sreq = {} THEN srsp ELSE {}) /\ UNCHANGED mpc

\* QmiThreadRecvQMI(NULL)
CompleteWithoutAnswer ==
  IF sreq # {} THEN sreq' = {} /\ srsp' = {} /\ Signal
               ELSE UNCHANGED <<sreq, srsp, mpc>>

\* QmiThreadRecvQMI(pResponse).  A message that answers nothing becomes an
\* event for the main thread: see ConnMgr.
Receive(m) ==
  /\ rpc = "poll"
  /\ IF IsResponse(m) THEN sreq' = {} /\ srsp' = {m} /\ Signal
                      ELSE UNCHANGED <<sreq, srsp, mpc>>
  /\ UNCHANGED <<left, ctr, cur, ret, rsp, devVars>>

RecvAnswer(m) == Receive(m) /\ atModem' = atModem \ {m}

\* An indication carries transaction id 0.
RecvIndication(t) ==
  Receive([type |-> t, tid |-> 0, age |-> 0]) /\ UNCHANGED atModem

\* Faulty variant: poll() times out although nobody asked to stop.
DrainTickAlways ==
  /\ rpc = "poll" /\ ctl = <<>>
  /\ CompleteWithoutAnswer
  /\ UNCHANGED <<left, ctr, cur, ret, rsp, atModem, devVars>>

\* Nothing readable for one second while stopping.
DrainTick ==
  /\ rpc = "poll" /\ stopping /\ ctl = <<>>
  /\ CompleteWithoutAnswer
  /\ UNCHANGED <<left, ctr, cur, ret, rsp, atModem, devVars>>

ReadStop ==
  /\ rpc = "poll" /\ ctl # <<>> /\ Head(ctl) = "STOP"
  /\ ctl' = Tail(ctl)
  /\ stopping' = TRUE
  /\ UNCHANGED <<mainVars, sreq, srsp, atModem, open, rpc>>

\* The device is closed first, the main thread told next, its request
\* completed last: a request that finds the device open is still released.
LeaveLoop ==
  /\ rpc = "poll"
  /\ rpc' = "notify" /\ open' = FALSE
  /\ UNCHANGED <<mainVars, sreq, srsp, atModem, stopping>>

Hangup == LeaveLoop /\ UNCHANGED ctl

ReadQuit ==
  /\ ctl # <<>> /\ Head(ctl) = "QUIT"
  /\ ctl' = Tail(ctl)
  /\ LeaveLoop

\* RIL_INDICATE_DEVICE_DISCONNECTED: see ConnMgr.
Notify ==
  /\ rpc = "notify" /\ rpc' = "flush"
  /\ UNCHANGED <<mainVars, sreq, srsp, atModem, open, stopping, ctl>>

Flush ==
  /\ rpc = "flush" /\ rpc' = "dead"
  /\ CompleteWithoutAnswer
  /\ UNCHANGED <<left, ctr, cur, ret, rsp, atModem, open, stopping, ctl>>

-----------------------------------------------------------------------------
(* Commands to the device thread.  Bounds: one of each is enough, since    *)
(* the thread acts on the first of each kind only.                         *)

\* ql_sigaction on SIGINT or SIGTERM, at any point of the main thread.
PostStop ==
  /\ rpc = "poll" /\ ~stopping
  /\ "STOP" \notin {ctl[i] : i \in DOMAIN ctl}
  /\ ctl' = Append(ctl, "STOP")
  /\ UNCHANGED <<mainVars, sreq, srsp, atModem, open, rpc, stopping>>

\* main_send_event_to_qmidevice(RIL_REQUEST_QUIT), between requests.
PostQuit ==
  /\ mpc = "idle" /\ rpc = "poll"
  /\ "QUIT" \notin {ctl[i] : i \in DOMAIN ctl}
  /\ ctl' = Append(ctl, "QUIT")
  /\ UNCHANGED <<mainVars, sreq, srsp, atModem, open, rpc, stopping>>

-----------------------------------------------------------------------------
Main ==
  \/ \E t \in Types : SendWritten(t) \/ SendSwallowed(t) \/ SendRefused(t)
  \/ SliceExpires \/ WaitAgain \/ TimesOut \/ Wakes

Device ==
  \/ \E m \in atModem : RecvAnswer(m)
  \/ \E t \in Types : RecvIndication(t)
  \/ DrainTick \/ ReadStop \/ ReadQuit \/ Hangup \/ Notify \/ Flush

Next == Main \/ Device \/ PostStop \/ PostQuit

Spec == Init /\ [][Next]_vars

\* The device thread is scheduled, a signalled or expired waiter gets the
\* mutex, and a stopping device thread is eventually idle for a second.
\* No timer is assumed to expire, no answer to arrive.
Fairness ==
  /\ WF_vars(ReadStop) /\ WF_vars(ReadQuit) /\ WF_vars(Notify) /\ WF_vars(Flush)
  /\ WF_vars(DrainTick)
  /\ WF_vars(Wakes) /\ WF_vars(WaitAgain) /\ WF_vars(TimesOut)

LiveSpec == Spec /\ Fairness

-----------------------------------------------------------------------------
TypeOK ==
  /\ mpc \in {"idle", "wait", "expired", "woken"}
  /\ left \in 0..Slices
  /\ ctr \in [Types -> Nat]
  /\ cur \in SUBSET Request /\ sreq \in SUBSET Request
  /\ ret \in {"idle", "pending", "ok", "etimedout", "unsent"}
  /\ rsp \in SUBSET Message /\ srsp \in SUBSET Message
  /\ atModem \in SUBSET Message
  /\ open \in BOOLEAN /\ stopping \in BOOLEAN
  /\ rpc \in {"poll", "notify", "flush", "dead"}
  /\ ctl \in Seq({"STOP", "QUIT"})

\* An answer handed to a caller is the modem's answer to that very request:
\* not to an earlier one that timed out, not one whose transaction id was
\* reused, not an indication (is_response, and s_pResponse = NULL before a send).
AnswerIsForCall ==
  \A m \in rsp : [type |-> m.type, tid |-> m.tid] \in cur /\ m.age = 0 /\ m.tid # 0

\* When the device thread is gone, a caller can only be left waiting for its
\* timer if it missed the final signal between two timed waits
\* ("main thread may pending on QmiThreadSendQMI()", QmiWwanCM.c:438).
StrandedOnlyBetweenSlices ==
  rpc = "dead" /\ mpc = "wait" => left < Slices /\ sreq = {}

\* An answer that has reached a signalled caller is not taken away again by a
\* stop, a hang-up or a later message.
DeliveredAnswerKept ==
  [][mpc = "woken" /\ mpc' = "woken" => srsp' = srsp]_vars

\* A caller whose request is still published when a stop is read is released
\* without any timer, answer or hang-up (main.c:232, "main may be wating qmi
\* response"): the drain tick or a missed signal between two slices ends it.
StopReleasesCaller == (mpc = "wait" /\ sreq # {} /\ stopping) ~> (mpc # "wait")

\* If timed waits do end, every request does, whatever the modem and the
\* device thread do (pthread_cond_timeout_np, util.c).
CallsReturn == WF_vars(SliceExpires) => ((mpc # "idle") ~> (mpc = "idle"))

\* The channel implements the abstract request: in particular a call reports
\* success without an answer only because the device thread drains or leaves.
Outcome ==
  CASE ret \in {"idle", "pending", "unsent"} -> ret
    [] ret = "etimedout" -> "timeout"
    [] ret = "ok" -> IF rsp = {} THEN "none" ELSE "answer"

Call == INSTANCE QmiCall WITH outcome <- Outcome,
                              leaving <- (stopping \/ rpc # "poll")

CallSpec == Call!Spec
=============================================================================
