----------------------------- MODULE MCSer2Mqtt -----------------------------
(* Ser2Mqtt, and the checks of cJSON's text side over every small value.     *)
EXTENDS Ser2Mqtt, JsonText

\* Frames that message[] holds, that fill the buffer and that do not fit it; one whose
\* output-stopping byte the port swallows; noise with a byte that starts it again.
LineFrames ==
  [len : {2, 4, 5}, good : {TRUE}, flow : {"none"}]
    \cup {[len |-> 2, good |-> TRUE, flow |-> "stop"], [len |-> 3, good |-> FALSE, flow |-> "start"]}
=============================================================================
