---------------------------- MODULE MCQmiChannel ----------------------------
(* QmiChannel with counters that wrap after three CTL requests and two of    *)
(* another service: the real ones wrap after 255 and 65535.                  *)
EXTENDS QmiChannel

MCMaxTid == [t \in Types |-> IF t = "CTL" THEN 3 ELSE 2]
=============================================================================
