-------------------------------- MODULE Crc32 --------------------------------
(***************************************************************************)
(* crc32, by which the client knows the record that an acknowledgement is  *)
(* for: the server takes it of the packet it has received, the client of   *)
(* the record that is first in .cul.b by then.  Both are read here byte by *)
(* byte, at the same time.                                                 *)
(*                                                                         *)
(* A word is the set of its one-bits.  The client's crc32val is an unsigned*)
(* long, the server's an unsigned int; no bit from 32 on is ever set.      *)
(***************************************************************************)
EXTENDS Integers, FiniteSets

Word == SUBSET (0 .. 31)
Octet == SUBSET (0 .. 7)

CONSTANTS
    Tab,        \* crc32_tab
    Char,       \* the bytes that occur
    MaxLen      \* the length of the messages

Low(w) == w \cap (0 .. 7)
Top(w) == w \cap (24 .. 31)
Xor(v, w) == (v \ w) \cup (w \ v)
Shift8(w) == {b \in 0 .. 23 : b + 8 \in w}

ASSUME TabAssumption ==
    /\ Tab \in [Octet -> Word]
    /\ \A s, t \in Octet : Top(Tab[s]) = Top(Tab[t]) => s = t
ASSUME CharAssumption == Char \subseteq Octet /\ MaxLen \in Nat

-----------------------------------------------------------------------------
(* The table: its entries at 1, 2, 4, ..., 128, byte by byte; every other  *)
(* one is the exclusive or of the entries of its bits.                     *)
Rows == << <<\h77, \h07, \h30, \h96>>, <<\hee, \h0e, \h61, \h2c>>,
           <<\h07, \h6d, \hc4, \h19>>, <<\h0e, \hdb, \h88, \h32>>,
           <<\h1d, \hb7, \h10, \h64>>, <<\h3b, \h6e, \h20, \hc8>>,
           <<\h76, \hdc, \h41, \h90>>, <<\hed, \hb8, \h83, \h20>> >>

InRow(k, b) == (Rows[k][4 - b \div 8] \div 2 ^ (b % 8)) % 2 = 1

crc32_tab ==
    [s \in Octet |-> {b \in 0 .. 31 : Cardinality({k \in s : InRow(k + 1, b)}) % 2 = 1}]

(* crc32.c 21-57: each entry divides by the polynomial edb88320.           *)
ASSUME RowsAssumption ==
    \A k \in 1 .. 7, b \in 0 .. 31 :
        InRow(k, b) <=> ((b < 31 /\ InRow(k + 1, b + 1)) # (InRow(k + 1, 0) /\ InRow(8, b)))

-----------------------------------------------------------------------------
VARIABLES
    packet,     \* the server's crc32val
    head,       \* the client's
    apart,      \* bytes since the two messages first differed, 0 if they have not
    len         \* bytes read

crcVars == <<packet, head, apart, len>>

CrcTypeOK ==
    /\ packet \in Word /\ head \in Word
    /\ apart \in 0 .. 4 /\ len \in 0 .. MaxLen

CrcInit == packet = {} /\ head = {} /\ apart = 0 /\ len = 0

(* Mutant: the index leaves out the value so far.                          *)
StepByMessage(crc32val, s) == Xor(Tab[s], Shift8(crc32val))

(* One turn of the loop.                                                   *)
Step(crc32val, s) == Xor(Tab[Low(Xor(crc32val, s))], Shift8(crc32val))

(* The next bytes; different ones lie within four that follow each other.  *)
Read(s, t) ==
    /\ len < MaxLen /\ len' = len + 1
    /\ s = t \/ apart < 4
    /\ packet' = Step(packet, s) /\ head' = Step(head, t)
    /\ apart' = IF apart = 0 /\ s = t THEN 0 ELSE IF apart < 4 THEN apart + 1 ELSE 4

CrcNext == \E s, t \in Char : Read(s, t)

-----------------------------------------------------------------------------
(***************************************************************************)
(* An acknowledgement is taken for the first record only if it is for that *)
(* one: two records of a length whose bytes differ, and only within four   *)
(* that follow each other, have different CRC32 values, wherever these are *)
(* and whatever stands before and behind them.                             *)
(***************************************************************************)
TellsApart == apart > 0 => packet # head
=============================================================================
