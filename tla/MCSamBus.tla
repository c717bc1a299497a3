------------------------------ MODULE MCSamBus ------------------------------
(* Two registers polled below and above the interval floor; the intervals and *)
(* the backoff cap are scaled down so that several rounds fit in MaxTime.      *)
EXTENDS SamBus

MCInterval == <<3, 6>>
=============================================================================
