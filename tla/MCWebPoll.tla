------------------------------ MODULE MCWebPoll ------------------------------
(* Instances of WebPoll (with ReportFile) for TLC.                         *)
EXTENDS WebPoll

CONSTANTS r1, r2, w1, b1, k1
=============================================================================
