------------------------------- MODULE MCSpool -------------------------------
(***************************************************************************)
(* Instances of Spool for TLC: records of different lengths, as those of a *)
(* device and of a start are, so that the end of one may stand where the   *)
(* end of another is expected.                                             *)
(***************************************************************************)
EXTENDS Spool

CONSTANTS m1, m2, m3

Lengths == [m \in Msg |-> CASE m = m1 -> 5 [] m = m2 -> 2 [] m = m3 -> 3]

SafeKillPoints == {"log", "send", "ack"}

AnyKillPoint == SafeKillPoints \cup {"rewrite"}
=============================================================================
