-------------------------- MODULE QmiChannelProofs --------------------------
(***************************************************************************)
(* Proofs about QmiChannel for every set of services, every wrap of the    *)
(* transaction counters and every number of timed waits.                   *)
(***************************************************************************)
EXTENDS QmiChannel, TLAPS

\* The transaction id of the request of type t sent a requests ago.
TidOfAge(t, a) == IF ctr[t] >= a + 1 THEN ctr[t] - a ELSE ctr[t] + MaxTid[t] - a

CtrInv == \A t \in Types : ctr[t] <= MaxTid[t]

\* The published request is the latest one, and its id is the counter's.
CurInv ==
  /\ \A r \in cur : r.tid = ctr[r.type] /\ r.tid >= 1
  /\ sreq \subseteq cur

\* What the modem holds is recent enough for its id to tell its age.
ModemInv == \A m \in atModem : m.age < MaxTid[m.type] /\ m.tid = TidOfAge(m.type, m.age)

\* s_pResponse, like the answer handed out, answers the latest request.
SrspInv ==
  \A m \in srsp : [type |-> m.type, tid |-> m.tid] \in cur /\ m.age = 0 /\ m.tid # 0

\* A signalled caller is out of the device thread's reach, and is without
\* an answer only when the device thread drains or leaves.
WokenInv ==
  mpc = "woken" => sreq = {} /\ (srsp = {} => stopping \/ rpc # "poll")

RetInv == mpc = "idle" <=> ret # "pending"

\* A caller on the condition whose request is gone missed the signal.
WaitInv ==
  /\ open <=> rpc = "poll"
  /\ mpc = "wait" /\ sreq = {} => left < Slices
  /\ rpc = "dead" /\ mpc # "idle" => sreq = {}

IInv ==
  /\ TypeOK
  /\ CtrInv /\ CurInv /\ ModemInv /\ SrspInv /\ AnswerIsForCall
  /\ WokenInv /\ RetInv /\ WaitInv

-----------------------------------------------------------------------------
(* The transaction counters                                                *)

\* GetQCTLTransactionId and GetQMUXTransactionId return an id of 1..MaxTid.
LEMMA NextTidRange ==
  ASSUME TypeOK, CtrInv, NEW t \in Types
  PROVE  NextTid(t) \in Nat /\ NextTid(t) >= 1 /\ NextTid(t) <= MaxTid[t]
<1>1. MaxTid[t] \in Nat /\ MaxTid[t] >= 1 BY MaxTidAssumption
<1>2. ctr[t] \in Nat /\ ctr[t] <= MaxTid[t] BY DEF TypeOK, CtrInv
<1>. QED BY <1>1, <1>2 DEF NextTid

\* Sending a request keeps the age of every older one readable from its id.
LEMMA AgedInv ==
  ASSUME TypeOK, CtrInv, ModemInv, NEW t \in Types,
         ctr' = [ctr EXCEPT ![t] = NextTid(t)], NEW m \in Aged(t)
  PROVE  m \in Message /\ m.age < MaxTid[m.type] /\ m.tid = TidOfAge(m.type, m.age)'
<1>1. MaxTid \in [Types -> Nat \ {0}] BY MaxTidAssumption
<1>2. ctr \in [Types -> Nat] /\ atModem \subseteq Message BY DEF TypeOK
<1>3. CASE m \in atModem /\ m.type # t
  <2>1. m \in Message /\ m.age < MaxTid[m.type] /\ m.tid = TidOfAge(m.type, m.age)
    BY <1>2, <1>3 DEF ModemInv
  <2>2. ctr'[m.type] = ctr[m.type] BY <1>2, <1>3, <2>1 DEF Message
  <2>. QED BY <2>1, <2>2 DEF TidOfAge
<1>4. CASE \E n \in atModem : n.type = t /\ n.age + 1 < MaxTid[t]
                               /\ m = [n EXCEPT !.age = @ + 1]
  <2>1. PICK n \in atModem : n.type = t /\ n.age + 1 < MaxTid[t]
                               /\ m = [n EXCEPT !.age = @ + 1]
    BY <1>4
  <2>2. n \in Message /\ n.tid = TidOfAge(t, n.age) BY <1>2, <2>1 DEF ModemInv
  <2>3. m.type = t /\ m.tid = n.tid /\ m.age = n.age + 1 /\ m \in Message
    BY <2>1, <2>2 DEF Message
  <2>4. n.age \in Nat /\ MaxTid[t] \in Nat /\ ctr[t] \in Nat /\ ctr[t] <= MaxTid[t]
    BY <1>1, <1>2, <2>2 DEF Message, CtrInv
  <2>5. ctr'[t] = NextTid(t) BY <1>2
  <2>6. m.tid = TidOfAge(t, m.age)'
    BY <2>1, <2>2, <2>3, <2>4, <2>5 DEF TidOfAge, NextTid
  <2>. QED BY <2>1, <2>3, <2>6
<1>. QED BY <1>3, <1>4 DEF Aged

\* An answer that matches the published request answers it, and no older one.
LEMMA MatchIsFresh ==
  ASSUME TypeOK, CtrInv, CurInv, ModemInv, NEW m \in atModem, IsResponse(m)
  PROVE  [type |-> m.type, tid |-> m.tid] \in cur /\ m.age = 0 /\ m.tid # 0
<1>1. PICK r \in sreq : r.type = m.type /\ r.tid = m.tid BY DEF IsResponse
<1>2. r \in cur /\ r \in Request /\ r.tid = ctr[r.type] /\ r.tid >= 1
  BY <1>1 DEF CurInv, TypeOK
<1>3. m \in Message /\ m.age < MaxTid[m.type] /\ m.tid = TidOfAge(m.type, m.age)
  BY DEF TypeOK, ModemInv
<1>4. r = [type |-> m.type, tid |-> m.tid] BY <1>1, <1>2 DEF Request
<1>5. MaxTid[m.type] \in Nat /\ ctr[m.type] \in Nat /\ m.age \in Nat /\ m.tid \in Nat
  BY <1>3, MaxTidAssumption DEF Message, TypeOK
<1>. QED BY <1>1, <1>2, <1>3, <1>4, <1>5 DEF TidOfAge

\* An indication never matches a published request: its id is 0.
LEMMA IndicationNoMatch ==
  ASSUME TypeOK, CurInv, NEW t \in Types
  PROVE  ~ IsResponse([type |-> t, tid |-> 0, age |-> 0])
<1>1. \A r \in sreq : r.tid \in Nat /\ r.tid >= 1 BY DEF CurInv, TypeOK, Request
<1>. QED BY <1>1 DEF IsResponse

-----------------------------------------------------------------------------
(* The inductive invariant                                                 *)

\* The initial state satisfies the inductive invariant.
LEMMA InitInv == Init => IInv
<1>. SUFFICES ASSUME Init PROVE IInv OBVIOUS
<1>1. TypeOK
  <2>1. ctr \in [Types -> Nat] /\ left \in 0..Slices BY SlicesAssumption DEF Init
  <2>2. ctl \in Seq({"STOP", "QUIT"}) BY DEF Init
  <2>. QED BY <2>1, <2>2 DEF Init, TypeOK
<1>2. CtrInv
  <2>1. SUFFICES ASSUME NEW t \in Types PROVE ctr[t] <= MaxTid[t] BY DEF CtrInv
  <2>2. ctr[t] = 0 BY DEF Init
  <2>3. MaxTid[t] \in Nat BY MaxTidAssumption
  <2>. QED BY <2>2, <2>3
<1>3. CurInv /\ ModemInv /\ SrspInv /\ AnswerIsForCall
  BY DEF Init, CurInv, ModemInv, SrspInv, AnswerIsForCall
<1>4. WokenInv /\ RetInv /\ WaitInv BY DEF Init, WokenInv, RetInv, WaitInv
<1>. QED BY <1>1, <1>2, <1>3, <1>4 DEF IInv

\* What the three ways to send a request have in common.
LEMMA PublishInv ==
  ASSUME IInv, NEW t \in Types, Publish(t),
         atModem' = Aged(t)
           \/ atModem' = Aged(t) \cup {[type |-> t, tid |-> NextTid(t), age |-> 0]}
  PROVE  /\ ctr' \in [Types -> Nat] /\ atModem' \subseteq Message
         /\ cur' \subseteq Request /\ sreq' \subseteq Request
         /\ srsp' = {} /\ rsp' = {} /\ sreq' # {}
         /\ CtrInv' /\ CurInv' /\ ModemInv' /\ SrspInv' /\ AnswerIsForCall'
<1>. DEFINE new == [type |-> t, tid |-> NextTid(t), age |-> 0]
<1>1. TypeOK /\ CtrInv /\ CurInv /\ ModemInv BY DEF IInv
<1>2. NextTid(t) \in Nat /\ NextTid(t) >= 1 /\ NextTid(t) <= MaxTid[t]
  BY <1>1, NextTidRange
<1>3. MaxTid[t] \in Nat \ {0} BY MaxTidAssumption
<1>4. /\ ctr' = [ctr EXCEPT ![t] = NextTid(t)]
      /\ cur' = {[type |-> t, tid |-> NextTid(t)]}
      /\ sreq' = {[type |-> t, tid |-> NextTid(t)]}
      /\ srsp' = {} /\ rsp' = {}
  BY DEF Publish
<1>5. ctr' \in [Types -> Nat] /\ ctr'[t] = NextTid(t)
  BY <1>1, <1>2, <1>4 DEF TypeOK
<1>6. CtrInv' BY <1>1, <1>2, <1>4, <1>5 DEF CtrInv, TypeOK
<1>7. CurInv' BY <1>2, <1>4, <1>5 DEF CurInv
<1>8. \A m \in Aged(t) : m \in Message /\ m.age < MaxTid[m.type]
                             /\ m.tid = TidOfAge(m.type, m.age)'
  BY <1>1, <1>4, AgedInv
<1>9. new \in Message /\ new.age < MaxTid[new.type] /\ new.tid = TidOfAge(t, 0)'
  BY <1>2, <1>3, <1>5 DEF Message, TidOfAge
<1>10. ModemInv' /\ atModem' \subseteq Message
  <2>1. SUFFICES ASSUME NEW m \in atModem'
                 PROVE  m \in Message /\ m.age < MaxTid[m.type]
                          /\ m.tid = TidOfAge(m.type, m.age)'
    BY DEF ModemInv
  <2>2. CASE m \in Aged(t) BY <1>8, <2>2
  <2>3. CASE m = new BY <1>9, <2>3
  <2>. QED BY <2>2, <2>3
<1>. QED
  BY <1>2, <1>4, <1>5, <1>6, <1>7, <1>10 DEF Request, SrspInv, AnswerIsForCall

\* Composing and sending a request, written or not, keeps the invariant.
LEMMA SendInv ==
  ASSUME IInv, NEW t \in Types, SendWritten(t) \/ SendSwallowed(t) \/ SendRefused(t)
  PROVE  IInv'
<1>1. /\ Publish(t)
      /\ \/ atModem' = Aged(t)
         \/ atModem' = Aged(t) \cup {[type |-> t, tid |-> NextTid(t), age |-> 0]}
  BY DEF SendWritten, SendSwallowed, SendRefused
<1>2. /\ ctr' \in [Types -> Nat] /\ atModem' \subseteq Message
      /\ cur' \subseteq Request /\ sreq' \subseteq Request
      /\ srsp' = {} /\ rsp' = {} /\ sreq' # {}
      /\ CtrInv' /\ CurInv' /\ ModemInv' /\ SrspInv' /\ AnswerIsForCall'
  BY <1>1, PublishInv
<1>3. TypeOK /\ RetInv /\ WaitInv BY DEF IInv
<1>4. mpc = "idle" /\ UNCHANGED devVars BY <1>1 DEF Publish
<1>5. CASE SendRefused(t)
  <2>1. mpc' = "idle" /\ left' = left /\ ret' = "unsent" BY <1>4, <1>5 DEF SendRefused
  <2>2. TypeOK' BY <1>2, <1>3, <1>4, <2>1 DEF TypeOK, devVars
  <2>3. WokenInv' /\ RetInv' /\ WaitInv'
    BY <1>3, <1>4, <2>1 DEF WokenInv, RetInv, WaitInv, devVars
  <2>. QED BY <1>2, <2>2, <2>3 DEF IInv
<1>6. CASE SendWritten(t) \/ SendSwallowed(t)
  <2>1. mpc' = "wait" /\ left' = Slices /\ ret' = "pending" /\ open
    BY <1>6 DEF SendWritten, SendSwallowed, Block
  <2>2. TypeOK'
    <3>1. left' \in 0..Slices BY <2>1, SlicesAssumption
    <3>. QED BY <1>2, <1>3, <1>4, <2>1, <3>1 DEF TypeOK, devVars
  <2>3. WokenInv' /\ RetInv' /\ WaitInv'
    BY <1>2, <1>3, <1>4, <2>1 DEF WokenInv, RetInv, WaitInv, devVars
  <2>. QED BY <1>2, <2>2, <2>3 DEF IInv
<1>. QED BY <1>5, <1>6

\* The other steps of the main thread leave the requests alone.
LEMMA WaitStepInv ==
  ASSUME IInv, SliceExpires \/ WaitAgain \/ TimesOut \/ Wakes
  PROVE  IInv'
<1>1. /\ TypeOK /\ CtrInv /\ CurInv /\ ModemInv /\ SrspInv /\ AnswerIsForCall
      /\ WokenInv /\ RetInv /\ WaitInv
  BY DEF IInv
<1>2. UNCHANGED <<ctr, cur, sreq, srsp, atModem, devVars>>
  BY DEF SliceExpires, WaitAgain, TimesOut, Wakes, Return
<1>3. CtrInv' /\ CurInv' /\ ModemInv' /\ SrspInv'
  BY <1>1, <1>2 DEF CtrInv, CurInv, ModemInv, SrspInv, TidOfAge
<1>4. CASE SliceExpires \/ WaitAgain
  <2>1. UNCHANGED <<ret, rsp>> BY <1>4 DEF SliceExpires, WaitAgain
  <2>2. left' \in 0..Slices /\ (mpc' = "wait" => left' < Slices)
    BY <1>1, <1>4, SlicesAssumption DEF SliceExpires, WaitAgain, TypeOK
  <2>3. mpc \in {"wait", "expired"} /\ mpc' \in {"wait", "expired"}
    BY <1>4 DEF SliceExpires, WaitAgain
  <2>4. TypeOK' BY <1>1, <1>2, <2>1, <2>2, <2>3 DEF TypeOK, devVars
  <2>5. AnswerIsForCall' BY <1>1, <1>2, <2>1 DEF AnswerIsForCall
  <2>6. WokenInv' /\ RetInv' /\ WaitInv'
    BY <1>1, <1>2, <2>1, <2>2, <2>3 DEF WokenInv, RetInv, WaitInv, devVars
  <2>. QED BY <1>3, <2>4, <2>5, <2>6 DEF IInv
<1>5. CASE TimesOut \/ Wakes
  <2>1. mpc' = "idle" /\ left' = 0 /\ ret' \in {"ok", "etimedout"} /\ rsp' \subseteq srsp
    BY <1>5 DEF TimesOut, Wakes, Return
  <2>2. TypeOK'
    <3>1. left' \in 0..Slices BY <2>1, SlicesAssumption
    <3>. QED BY <1>1, <1>2, <2>1, <3>1 DEF TypeOK, devVars
  <2>3. AnswerIsForCall' BY <1>1, <1>2, <2>1 DEF AnswerIsForCall, SrspInv
  <2>4. WokenInv' /\ RetInv' /\ WaitInv'
    BY <1>1, <1>2, <2>1 DEF WokenInv, RetInv, WaitInv, devVars
  <2>. QED BY <1>3, <2>2, <2>3, <2>4 DEF IInv
<1>. QED BY <1>4, <1>5

\* QmiThreadRecvQMI with an answer or an indication.
LEMMA ReceiveInv ==
  ASSUME IInv, NEW m \in Message, Receive(m), atModem' \subseteq atModem,
         IsResponse(m) =>
           [type |-> m.type, tid |-> m.tid] \in cur /\ m.age = 0 /\ m.tid # 0
  PROVE  IInv'
<1>1. /\ TypeOK /\ CtrInv /\ CurInv /\ ModemInv /\ SrspInv /\ AnswerIsForCall
      /\ WokenInv /\ RetInv /\ WaitInv
  BY DEF IInv
<1>2. rpc = "poll" /\ UNCHANGED <<left, ctr, cur, ret, rsp, devVars>> BY DEF Receive
<1>3. CtrInv' /\ ModemInv' /\ AnswerIsForCall'
  BY <1>1, <1>2 DEF CtrInv, ModemInv, AnswerIsForCall, TidOfAge
<1>4. CASE IsResponse(m)
  <2>1. sreq' = {} /\ srsp' = {m} /\ mpc' = (IF mpc = "wait" THEN "woken" ELSE mpc)
    BY <1>4 DEF Receive, Signal
  <2>2. TypeOK' BY <1>1, <1>2, <2>1 DEF TypeOK, devVars
  <2>3. CurInv' BY <1>1, <1>2, <2>1 DEF CurInv
  <2>4. SrspInv' BY <1>2, <1>4, <2>1 DEF SrspInv
  <2>5. WokenInv' BY <2>1 DEF WokenInv
  <2>6. RetInv' BY <1>1, <1>2, <2>1 DEF RetInv
  <2>7. WaitInv' BY <1>1, <1>2, <2>1 DEF WaitInv, devVars
  <2>. QED BY <1>3, <2>2, <2>3, <2>4, <2>5, <2>6, <2>7 DEF IInv
<1>5. CASE ~ IsResponse(m)
  <2>1. UNCHANGED <<sreq, srsp, mpc>> BY <1>5 DEF Receive
  <2>2. TypeOK' BY <1>1, <1>2, <2>1 DEF TypeOK, devVars
  <2>3. CurInv' /\ SrspInv' BY <1>1, <1>2, <2>1 DEF CurInv, SrspInv
  <2>4. WokenInv' /\ RetInv' /\ WaitInv'
    BY <1>1, <1>2, <2>1 DEF WokenInv, RetInv, WaitInv, devVars
  <2>. QED BY <1>3, <2>2, <2>3, <2>4 DEF IInv
<1>. QED BY <1>4, <1>5

\* QmiThreadRecvQMI(NULL), while draining or on the way out.
LEMMA CompleteInv ==
  ASSUME IInv, DrainTick \/ Flush
  PROVE  IInv'
<1>1. /\ TypeOK /\ CtrInv /\ CurInv /\ ModemInv /\ SrspInv /\ AnswerIsForCall
      /\ WokenInv /\ RetInv /\ WaitInv
  BY DEF IInv
<1>2. /\ CompleteWithoutAnswer
      /\ UNCHANGED <<left, ctr, cur, ret, rsp, atModem, open, stopping, ctl>>
      /\ stopping' \/ rpc' # "poll"
      /\ rpc' \in {"poll", "dead"} /\ (rpc' = "poll" <=> rpc = "poll")
  BY DEF DrainTick, Flush, devVars
<1>3. CtrInv' /\ ModemInv' /\ AnswerIsForCall'
  BY <1>1, <1>2 DEF CtrInv, ModemInv, AnswerIsForCall, TidOfAge
<1>4. /\ sreq' = {} /\ srsp' \subseteq srsp
      /\ mpc' = IF sreq # {} /\ mpc = "wait" THEN "woken" ELSE mpc
  BY <1>2 DEF CompleteWithoutAnswer, Signal
<1>5. TypeOK' BY <1>1, <1>2, <1>4 DEF TypeOK
<1>6. CurInv' /\ SrspInv' BY <1>1, <1>2, <1>4 DEF CurInv, SrspInv
<1>7. WokenInv' BY <1>2, <1>4 DEF WokenInv
<1>8. RetInv' BY <1>1, <1>2, <1>4 DEF RetInv
<1>9. WaitInv' BY <1>1, <1>2, <1>4 DEF WaitInv
<1>. QED BY <1>3, <1>5, <1>6, <1>7, <1>8, <1>9 DEF IInv

\* Control messages, the hang-up and the notification leave the requests alone.
LEMMA ControlInv ==
  ASSUME IInv, ReadStop \/ ReadQuit \/ Hangup \/ Notify \/ PostStop \/ PostQuit
  PROVE  IInv'
<1>1. /\ TypeOK /\ CtrInv /\ CurInv /\ ModemInv /\ SrspInv /\ AnswerIsForCall
      /\ WokenInv /\ RetInv /\ WaitInv
  BY DEF IInv
<1>2. UNCHANGED <<mpc, left, ctr, cur, ret, rsp, sreq, srsp, atModem>>
  BY DEF ReadStop, ReadQuit, Hangup, LeaveLoop, Notify, PostStop, PostQuit, mainVars
<1>3. /\ rpc' # "dead" \/ rpc' = rpc
      /\ rpc' \in {"poll", "notify", "flush", "dead"}
      /\ open' <=> rpc' = "poll"
      /\ stopping' \in BOOLEAN /\ open' \in BOOLEAN
      /\ stopping \/ rpc # "poll" => stopping' \/ rpc' # "poll"
  <2>1. /\ rpc \in {"poll", "notify", "flush", "dead"} /\ open \in BOOLEAN
        /\ stopping \in BOOLEAN /\ (open <=> rpc = "poll")
    BY <1>1 DEF TypeOK, WaitInv
  <2>2. CASE ReadStop BY <2>1, <2>2 DEF ReadStop
  <2>3. CASE ReadQuit \/ Hangup BY <2>1, <2>3 DEF ReadQuit, Hangup, LeaveLoop
  <2>4. CASE Notify BY <2>1, <2>4 DEF Notify
  <2>5. CASE PostStop \/ PostQuit BY <2>1, <2>5 DEF PostStop, PostQuit
  <2>. QED BY <2>2, <2>3, <2>4, <2>5
<1>4. ctl' \in Seq({"STOP", "QUIT"})
  <2>1. ctl \in Seq({"STOP", "QUIT"}) BY <1>1 DEF TypeOK
  <2>2. CASE ReadStop \/ ReadQuit
    <3>1. ctl # <<>> /\ ctl' = Tail(ctl) BY <2>2 DEF ReadStop, ReadQuit
    <3>. QED BY <2>1, <3>1
  <2>3. CASE Hangup \/ Notify BY <2>1, <2>3 DEF Hangup, Notify
  <2>4. CASE PostStop \/ PostQuit BY <2>1, <2>4 DEF PostStop, PostQuit
  <2>. QED BY <2>2, <2>3, <2>4
<1>5. TypeOK' BY <1>1, <1>2, <1>3, <1>4 DEF TypeOK
<1>6. CtrInv' /\ CurInv' /\ ModemInv' /\ SrspInv' /\ AnswerIsForCall'
  BY <1>1, <1>2 DEF CtrInv, CurInv, ModemInv, SrspInv, AnswerIsForCall, TidOfAge
<1>7. WokenInv' /\ RetInv' /\ WaitInv'
  BY <1>1, <1>2, <1>3 DEF WokenInv, RetInv, WaitInv
<1>. QED BY <1>5, <1>6, <1>7 DEF IInv

\* A stuttering step keeps it.
LEMMA StutterInv == ASSUME IInv, UNCHANGED vars PROVE IInv'
<1>1. UNCHANGED <<mpc, left, ctr, cur, ret, rsp, sreq, srsp, atModem,
                  open, rpc, stopping, ctl>>
  BY DEF vars, mainVars, devVars
<1>2. TypeOK' BY <1>1 DEF IInv, TypeOK
<1>3. CtrInv' /\ CurInv' /\ ModemInv' /\ SrspInv' /\ AnswerIsForCall'
  BY <1>1 DEF IInv, CtrInv, CurInv, ModemInv, SrspInv, AnswerIsForCall, TidOfAge
<1>4. WokenInv' /\ RetInv' /\ WaitInv' BY <1>1 DEF IInv, WokenInv, RetInv, WaitInv
<1>. QED BY <1>2, <1>3, <1>4 DEF IInv

\* Every step of either thread keeps the inductive invariant.
LEMMA NextInv == IInv /\ [Next]_vars => IInv'
<1>. SUFFICES ASSUME IInv, [Next]_vars PROVE IInv' OBVIOUS
<1>1. CASE \E t \in Types : SendWritten(t) \/ SendSwallowed(t) \/ SendRefused(t)
  BY <1>1, SendInv
<1>2. CASE SliceExpires \/ WaitAgain \/ TimesOut \/ Wakes BY <1>2, WaitStepInv
<1>3. CASE \E m \in atModem : RecvAnswer(m)
  <2>1. PICK m \in atModem : RecvAnswer(m) BY <1>3
  <2>2. m \in Message /\ Receive(m) /\ atModem' \subseteq atModem
    BY <2>1 DEF RecvAnswer, IInv, TypeOK
  <2>3. IsResponse(m) =>
          [type |-> m.type, tid |-> m.tid] \in cur /\ m.age = 0 /\ m.tid # 0
    BY MatchIsFresh DEF IInv
  <2>. QED BY <2>2, <2>3, ReceiveInv
<1>4. CASE \E t \in Types : RecvIndication(t)
  <2>1. PICK t \in Types : RecvIndication(t) BY <1>4
  <2>. DEFINE m == [type |-> t, tid |-> 0, age |-> 0]
  <2>2. m \in Message /\ Receive(m) /\ atModem' \subseteq atModem
    BY <2>1 DEF RecvIndication, Message
  <2>3. ~ IsResponse(m) BY IndicationNoMatch DEF IInv
  <2>. HIDE DEF m
  <2>. QED BY <2>2, <2>3, ReceiveInv
<1>5. CASE DrainTick \/ Flush BY <1>5, CompleteInv
<1>6. CASE ReadStop \/ ReadQuit \/ Hangup \/ Notify \/ PostStop \/ PostQuit
  BY <1>6, ControlInv
<1>7. CASE UNCHANGED vars BY <1>7, StutterInv
<1>. QED BY <1>1, <1>2, <1>3, <1>4, <1>5, <1>6, <1>7 DEF Next, Main, Device

-----------------------------------------------------------------------------
(* The theorems                                                            *)

\* The inductive invariant holds of every execution.
THEOREM Invariance == Spec => []IInv
BY InitInv, NextInv, PTL DEF Spec

\* Every variable of the rendezvous keeps its type.
THEOREM TypeCorrect == Spec => []TypeOK
<1>1. IInv => TypeOK BY DEF IInv
<1>. QED BY <1>1, Invariance, PTL

\* The answer QmiThreadSendQMITimeout returns is the answer to its request.
THEOREM AnswerCorrect == Spec => []AnswerIsForCall
<1>1. IInv => AnswerIsForCall BY DEF IInv
<1>. QED BY <1>1, Invariance, PTL

\* After the device thread has left, only a caller that was between two timed
\* waits at its last signal is still waiting.
THEOREM StrandedCorrect == Spec => []StrandedOnlyBetweenSlices
<1>1. IInv => StrandedOnlyBetweenSlices
  BY DEF IInv, WaitInv, StrandedOnlyBetweenSlices
<1>. QED BY <1>1, Invariance, PTL

\* No step takes an answer back from a caller that was signalled.
THEOREM DeliveredCorrect == Spec => DeliveredAnswerKept
<1>1. IInv /\ [Next]_vars => [mpc = "woken" /\ mpc' = "woken" => srsp' = srsp]_vars
  <2>. SUFFICES ASSUME IInv, Next, mpc = "woken", mpc' = "woken" PROVE srsp' = srsp
    OBVIOUS
  <2>1. sreq = {} BY DEF IInv, WokenInv
  <2>2. \A m : ~ IsResponse(m) BY <2>1 DEF IsResponse
  <2>. QED
    BY <2>1, <2>2
       DEF Next, Main, Device, SendWritten, SendSwallowed, SendRefused, Publish,
           SliceExpires, WaitAgain, TimesOut, Wakes, Return, RecvAnswer,
           RecvIndication, Receive, DrainTick, CompleteWithoutAnswer, ReadStop,
           ReadQuit, Hangup, LeaveLoop, Notify, Flush, PostStop, PostQuit
<1>. QED BY <1>1, Invariance, PTL DEF Spec, DeliveredAnswerKept

-----------------------------------------------------------------------------
(* The rendezvous implements QmiCall                                       *)

Leaving == stopping \/ rpc # "poll"

\* How the outcome of a call follows from what it returned.
LEMMA OutcomeOfRet ==
  ASSUME TypeOK
  PROVE  /\ ret \in {"idle", "pending", "unsent"} => Outcome = ret
         /\ ret = "etimedout" => Outcome = "timeout"
         /\ ret = "ok" => Outcome = IF rsp = {} THEN "none" ELSE "answer"
         /\ Outcome = "pending" => ret = "pending"
BY DEF Outcome, TypeOK

\* A step that leaves the caller's result alone and never stops leaving is a
\* Leave step of QmiCall, or none.
LEMMA DeviceStep ==
  ASSUME UNCHANGED <<ret, rsp>>, Leaving => Leaving'
  PROVE  [Call!Next]_(Call!vars)
<1>1. Outcome' = Outcome BY DEF Outcome
<1>. QED BY <1>1 DEF Leaving, Call!Next, Call!Leave, Call!vars

\* Every step of the rendezvous is a step of QmiCall or changes nothing there.
LEMMA StepImplements ==
  ASSUME IInv, IInv', [Next]_vars
  PROVE  [Call!Next]_(Call!vars)
<1>1. TypeOK /\ TypeOK' /\ RetInv /\ WokenInv BY DEF IInv
<1>2. CASE \E t \in Types : SendWritten(t) \/ SendSwallowed(t)
  <2>1. mpc = "idle" /\ ret' = "pending" /\ UNCHANGED <<stopping, rpc>>
    BY <1>2 DEF SendWritten, SendSwallowed, Publish, Block, devVars
  <2>2. Outcome # "pending" /\ Outcome' = "pending"
    <3>1. ret # "pending" BY <1>1, <2>1 DEF RetInv
    <3>2. Outcome # "pending" BY <1>1, <3>1, OutcomeOfRet
    <3>3. Outcome' = "pending" BY <2>1 DEF Outcome
    <3>. QED BY <3>2, <3>3
  <2>. QED BY <2>1, <2>2 DEF Call!Next, Call!Begin
<1>3. CASE \E t \in Types : SendRefused(t)
  <2>1. mpc = "idle" /\ ret' = "unsent" /\ UNCHANGED <<stopping, rpc>>
    BY <1>3 DEF SendRefused, Publish, devVars
  <2>2. Outcome # "pending" /\ Outcome' = "unsent"
    <3>1. ret # "pending" BY <1>1, <2>1 DEF RetInv
    <3>2. Outcome # "pending" BY <1>1, <3>1, OutcomeOfRet
    <3>3. Outcome' = "unsent" BY <2>1 DEF Outcome
    <3>. QED BY <3>2, <3>3
  <2>. QED BY <2>1, <2>2 DEF Call!Next, Call!Refuse
<1>4. CASE TimesOut \/ Wakes
  <2>1. mpc # "idle" /\ UNCHANGED <<stopping, rpc>>
    BY <1>4 DEF TimesOut, Wakes, Return, devVars
  <2>2. ret = "pending" BY <1>1, <2>1 DEF RetInv
  <2>3. Outcome = "pending" BY <2>2 DEF Outcome
  <2>4. CASE TimesOut
    <3>1. ret' = "etimedout" BY <2>4 DEF TimesOut, Return
    <3>2. Outcome' = "timeout" BY <3>1 DEF Outcome
    <3>. QED BY <2>1, <2>3, <3>2 DEF Call!Next, Call!End
  <2>5. CASE Wakes
    <3>1. mpc = "woken" /\ ret' = "ok" /\ rsp' = srsp BY <2>5 DEF Wakes, Return
    <3>2. Outcome' = IF srsp = {} THEN "none" ELSE "answer" BY <3>1 DEF Outcome
    <3>3. srsp = {} => stopping \/ rpc # "poll" BY <1>1, <3>1 DEF WokenInv
    <3>. QED BY <2>1, <2>3, <3>2, <3>3 DEF Call!Next, Call!End
  <2>. QED BY <1>4, <2>4, <2>5
<1>5. CASE \/ SliceExpires \/ WaitAgain \/ DrainTick \/ Flush \/ Notify
           \/ PostStop \/ PostQuit \/ \E m \in atModem : RecvAnswer(m)
           \/ \E t \in Types : RecvIndication(t)
  <2>1. UNCHANGED <<ret, rsp, stopping>> /\ (rpc # "poll" => rpc' # "poll")
    BY <1>5 DEF SliceExpires, WaitAgain, DrainTick, Flush, Notify, PostStop, PostQuit,
                RecvAnswer, RecvIndication, Receive, mainVars, devVars
  <2>. QED BY <2>1, DeviceStep DEF Leaving
<1>6. CASE ReadStop \/ ReadQuit \/ Hangup
  <2>1. UNCHANGED <<ret, rsp>> /\ Leaving'
    BY <1>6 DEF ReadStop, ReadQuit, Hangup, LeaveLoop, mainVars, Leaving
  <2>. QED BY <2>1, DeviceStep
<1>7. CASE UNCHANGED vars
  <2>1. UNCHANGED <<ret, rsp, stopping, rpc>> BY <1>7 DEF vars, mainVars, devVars
  <2>. QED BY <2>1, DeviceStep DEF Leaving
<1>. QED BY <1>2, <1>3, <1>4, <1>5, <1>6, <1>7 DEF Next, Main, Device

\* QmiThreadSendQMITimeout, with whatever the device thread does around it,
\* keeps the promise of QmiCall: in particular success without an answer only
\* while the device thread drains or leaves.
THEOREM ImplementsQmiCall == Spec => CallSpec
<1>1. Init => Call!Init BY DEF Init, Call!Init, Outcome
<1>2. IInv /\ IInv' /\ [Next]_vars => [Call!Next]_(Call!vars) BY StepImplements
<1>. QED BY <1>1, <1>2, Invariance, PTL DEF Spec, CallSpec, Call!Spec
=============================================================================
