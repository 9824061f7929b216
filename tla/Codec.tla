-------------------------------- MODULE Codec --------------------------------
(***************************************************************************)
(* A record as bytes: write_log puts it together field by field, each with *)
(* its lengths and zero bytes, and the server's parse_packet takes it apart*)
(* by the lengths alone, into pointers.  The server then uses a value in   *)
(* two ways: as a string up to its zero byte (is_serial_allowed,           *)
(* gethostbyname) and by its length (save_packet).                         *)
(***************************************************************************)
EXTENDS Integers, Sequences

CONSTANTS
    NumRec,     \* NUMB_REC
    NameLen,    \* NameLen[f]: length of the name of field f
    ValueLen    \* lengths of values

(* Lengths go through a signed char on both sides; a longer string would   *)
(* get a negative length.                                                  *)
ASSUME CodecAssumption ==
    /\ NumRec \in 1 .. 127
    /\ NameLen \in [1 .. NumRec -> 1 .. 127]
    /\ ValueLen \subseteq 0 .. 127

VARIABLES
    given,      \* lengths of the values put in so far
    rawBuf,     \* the message
    lenBuf,     \* wrp.lenBuf: where its next byte goes
    got,        \* fields taken out so far: where name and value are, and lengths
    next        \* parse_packet's i; 0 as long as the message is not sent

codecVars == <<given, rawBuf, lenBuf, got, next>>

(* Bytes: numbers, and the k-th character of string s of field f.          *)
Num(n) == <<0, 0, n>>
Nul == Num(0)
InName == 1
InValue == 2
String(s, f, n) == [k \in 1 .. n |-> <<s, f, k>>]
Begin == <<3, 0, 0>>
End == <<4, 0, 0>>
Byte == (0 .. 4) \X Nat \X Nat

(* s stored at offset o of b (from 0), and the byte at an offset.          *)
Store(b, o, s) ==
    [i \in 1 .. (IF o + Len(s) > Len(b) THEN o + Len(s) ELSE Len(b)) |->
        IF i \in o + 1 .. o + Len(s) THEN s[i - o]
        ELSE IF i <= Len(b) THEN b[i] ELSE Nul]
At(o) == IF o < Len(rawBuf) THEN rawBuf[o + 1] ELSE Nul

CodecTypeOK ==
    /\ given \in Seq(ValueLen) /\ Len(given) <= NumRec
    /\ rawBuf \in Seq(Byte) /\ lenBuf = Len(rawBuf)
    /\ got \in Seq([name : Nat, nameLen : Nat, value : Nat, valueLen : Nat])
    /\ next \in 0 .. lenBuf

CodecInit ==
    /\ given = <<>> /\ got = <<>> /\ next = 0
    /\ rawBuf = <<Begin, Num(NumRec)>> /\ lenBuf = 2

(* Mutant: *len leaves out the zero byte of the value.                     *)
AddRecordShort(n) ==
    LET f == Len(given) + 1
        name == <<Num(NameLen[f])>> \o String(InName, f, NameLen[f]) \o <<Nul>>
        value == <<Num(n)>> \o String(InValue, f, n) \o <<Nul>>
    IN  /\ f <= NumRec /\ given' = Append(given, n)
        /\ rawBuf' = Store(rawBuf, lenBuf, name \o value)
        /\ lenBuf' = lenBuf + (NameLen[f] + 2) + (n + 1)
        /\ UNCHANGED <<got, next>>

(* add_record2buff: strcpy stores the zero byte, *len counts it.           *)
AddRecord(n) ==
    LET f == Len(given) + 1
        name == <<Num(NameLen[f])>> \o String(InName, f, NameLen[f]) \o <<Nul>>
        value == <<Num(n)>> \o String(InValue, f, n) \o <<Nul>>
    IN  /\ f <= NumRec /\ given' = Append(given, n)
        /\ rawBuf' = Store(rawBuf, lenBuf, name \o value)
        /\ lenBuf' = lenBuf + (NameLen[f] + 2) + (n + 2)
        /\ UNCHANGED <<got, next>>

(* MRK_END; the message is sent, and parse_packet checks its two ends.     *)
Finish ==
    /\ Len(given) = NumRec /\ next = 0 /\ next' = 2
    /\ rawBuf' = Store(rawBuf, lenBuf, <<End>>)
    /\ lenBuf' = lenBuf + 1
    /\ UNCHANGED <<given, got>>

IsNum(b) == b[1] = 0

(* Mutant: the zero bytes are not skipped.                                 *)
ParseNoSkip ==
    /\ next # 0 /\ Len(got) < NumRec
    /\ LET v == next + 1 + At(next)[3]
       IN  /\ IsNum(At(next)) /\ IsNum(At(v))
           /\ got' = Append(got, [name |-> next + 1, nameLen |-> At(next)[3],
                                  value |-> v + 1, valueLen |-> At(v)[3]])
           /\ next' = v + 1 + At(v)[3]
    /\ UNCHANGED <<given, rawBuf, lenBuf>>

(* One turn of parse_packet's loop; a length is a number, never a letter.  *)
ParseField ==
    /\ next # 0 /\ Len(got) < NumRec
    /\ LET v == next + 1 + At(next)[3] + 1
       IN  /\ IsNum(At(next)) /\ IsNum(At(v))
           /\ got' = Append(got, [name |-> next + 1, nameLen |-> At(next)[3],
                                  value |-> v + 1, valueLen |-> At(v)[3]])
           /\ next' = v + 1 + At(v)[3] + 1
    /\ UNCHANGED <<given, rawBuf, lenBuf>>

CodecNext == Finish \/ ParseField \/ \E n \in ValueLen : AddRecord(n)

-----------------------------------------------------------------------------
(* The two ways in which the server reads a string.                        *)
ByLength(o, n) == [k \in 1 .. n |-> At(o + k - 1)]
EndsAt(o) == CHOOSE e \in o .. Len(rawBuf) :
                At(e) = Nul /\ \A i \in o .. e - 1 : At(i) # Nul
UpToNul(o) == ByLength(o, EndsAt(o) - o)

(***************************************************************************)
(* What parse_packet takes out is what write_log put in, field by field,   *)
(* for empty values and whatever lengths come before; a field can always   *)
(* be taken out; and when all are, only MRK_END is left.                   *)
(***************************************************************************)
RoundTrip ==
    /\ \A f \in DOMAIN got :
          /\ ByLength(got[f].name, got[f].nameLen) = String(InName, f, NameLen[f])
          /\ ByLength(got[f].value, got[f].valueLen) = String(InValue, f, given[f])
    /\ next # 0 /\ Len(got) < NumRec => IsNum(At(next))
    /\ Len(got) = NumRec => At(next) = End /\ next = lenBuf - 1

(***************************************************************************)
(* Both ways of reading give the same value: the serial that was compared  *)
(* with serial.txt and the host that is answered are those in report.txt.  *)
(***************************************************************************)
ReadingsAgree ==
    \A f \in DOMAIN got :
        UpToNul(got[f].value) = ByLength(got[f].value, got[f].valueLen)
=============================================================================
