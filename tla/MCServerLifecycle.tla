-------------------------- MODULE MCServerLifecycle --------------------------
(* Instances of ServerLifecycle for TLC: a restart needs the old daemon,   *)
(* the new one and its parent.                                             *)
EXTENDS ServerLifecycle

CONSTANTS s1, s2, p1, p2, p3, p4
=============================================================================
