------------------------------- MODULE QmiCall -------------------------------
(***************************************************************************)
(* What a blocking QMI request promises its caller: the abstract           *)
(* specification of QmiThreadSendQMITimeout, whatever the device thread    *)
(* does meanwhile.  A request ends in one of                               *)
(*   "answer"   the modem's answer to this request                         *)
(*   "none"     success without an answer (woken with s_pResponse NULL)    *)
(*   "timeout"  ETIMEDOUT                                                  *)
(*   "unsent"   the request could not be written to the device             *)
(* "none" only once the device thread drains or leaves.                    *)
(* The connection manager (ConnMgr) is built on these outcomes.            *)
(***************************************************************************)

VARIABLES
  outcome,   \* of the latest request: "idle" before the first, then "pending"
  leaving    \* the device thread drains requests, or has left its loop

vars == <<outcome, leaving>>

Init == outcome = "idle" /\ leaving = FALSE

Begin == outcome # "pending" /\ outcome' = "pending" /\ UNCHANGED leaving

\* A request that is refused at once: the device is closed, the service has
\* no client id, or the write fails.
Refuse == outcome # "pending" /\ outcome' = "unsent" /\ UNCHANGED leaving

End(o) ==
  /\ outcome = "pending"
  /\ o = "none" => leaving
  /\ outcome' = o
  /\ UNCHANGED leaving

Leave == ~leaving /\ leaving' = TRUE /\ UNCHANGED outcome

Next == Begin \/ Refuse \/ Leave \/ \E o \in {"answer", "none", "timeout"} : End(o)

Spec == Init /\ [][Next]_vars
=============================================================================
