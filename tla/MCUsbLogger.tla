----------------------------- MODULE MCUsbLogger -----------------------------
(***************************************************************************)
(* Instances of UsbLogger for TLC.                                         *)
(***************************************************************************)
EXTENDS UsbLogger

CONSTANTS c1, b1, e1, e2, listed, unlisted

OneHost == [m \in Msg |-> c1]

(* The CRC32 of e1 is the value get_msg_crc returns for an empty spool.    *)
Crcs == [m \in Msg |-> CASE m = e1 -> 0 [] m = e2 -> 1 [] m = b1 -> 2]

Serials == [m \in Msg |-> IF m = e1 THEN listed ELSE unlisted]

AllListed == [m \in Msg |-> listed]

(* serial.txt before anybody edits it.                                     *)
FilledFile == {{listed}}

AnyFile == {NoFile, {}, {listed}}

(* Where a kill loses no record but the one just read from udev.           *)
SafeKillPoints == ClientPC \ {"down", "rewrite"}

(* Also while delete_buf_msg holds the spool in memory only.               *)
AnyKillPoint == ClientPC \ {"down"}

NoKill == {}

RewriteOnly == {"rewrite"}
=============================================================================
