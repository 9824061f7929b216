------------------------------- MODULE Formats -------------------------------
(***************************************************************************)
(* What the server has to read: its configuration, when it starts, and     *)
(* then a record that a client put together, or the bytes of a packet for  *)
(* its CRC32, which is the same whatever the configuration and the record. *)
(***************************************************************************)
EXTENDS Codec, ParseConfig, Crc32

vars == <<codecVars, configVars, crcVars>>

TypeOK == CodecTypeOK /\ ConfigTypeOK /\ CrcTypeOK

Init == CodecInit /\ ConfigInit /\ CrcInit

Next ==
    \/ len = 0 /\ ConfigNext /\ UNCHANGED <<codecVars, crcVars>>
    \/ len = 0 /\ cstate = "ok" /\ CodecNext /\ UNCHANGED <<configVars, crcVars>>
    \/ ConfigInit /\ CodecInit /\ CrcNext /\ UNCHANGED <<codecVars, configVars>>

Spec == Init /\ [][Next]_vars
=============================================================================
