---------------------------- MODULE FormatsProofs ----------------------------
(***************************************************************************)
(* What the server reads, for every configuration file, every number and   *)
(* length of fields and messages of any length: parse_config reads what    *)
(* the shell reads, parse_packet takes out what write_log put in, and the  *)
(* CRC32 tells near messages apart.                                        *)
(***************************************************************************)
EXTENDS Formats, SelectionProofs, SequenceTheorems, TLAPS

-----------------------------------------------------------------------------
(* CRC32.  Two messages that differ within four consecutive bytes have     *)
(* different values, for messages of any length and every table of which no*)
(* two entries have the same top byte: a difference in the index changes   *)
(* the top byte; where the index is the same, a difference of the values   *)
(* moves down by eight bits, and three such moves do not lose it.          *)

(* v and w differ in a bit from n on.                                      *)
Differ(v, w, n) == \E b \in n .. 31 : (b \in v) # (b \in w)

CInv ==
    /\ CrcTypeOK
    /\ apart = 0 => packet = head
    /\ apart > 0 => Differ(packet, head, 32 - 8 * apart)

(* Where the window of a difference begins, a byte later.                  *)
LEMMA Windows ==
    /\ \A n \in 2 .. 4 : 32 - 8 * n \in 0 .. 24
    /\ \A n \in 1 .. 3 : \A b \in 32 - 8 * n .. 31 : 32 - 8 * (n + 1) \in 0 .. b - 8
<1>1. \A n \in 2 .. 4 : n = 2 \/ n = 3 \/ n = 4
  OBVIOUS
<1>2. \A n \in 1 .. 3 : n = 1 \/ n = 2 \/ n = 3
  OBVIOUS
<1> QED
  BY <1>1, <1>2

(* A turn of the loop gives a word.                                        *)
LEMMA StepType == \A w \in Word, s \in Octet : Step(w, s) \in Word
BY TabAssumption DEF Step, Word, Octet, Low, Xor, Shift8

(* Another index, another top byte.                                        *)
LEMMA IndexShows ==
    ASSUME NEW v \in Word, NEW w \in Word, NEW s \in Octet, NEW t \in Octet,
           Low(Xor(v, s)) # Low(Xor(w, t))
    PROVE  Differ(Step(v, s), Step(w, t), 24)
<1> DEFINE i == Low(Xor(v, s))
           j == Low(Xor(w, t))
<1>1. i \in Octet /\ j \in Octet
  BY DEF Low, Octet
<1>2. Top(Tab[i]) # Top(Tab[j])
  BY <1>1, TabAssumption
<1>3. PICK b \in 24 .. 31 : (b \in Tab[i]) # (b \in Tab[j])
  BY <1>2 DEF Top
<1>4. b \notin Shift8(v) /\ b \notin Shift8(w)
  BY DEF Shift8
<1> QED
  BY <1>3, <1>4 DEF Differ, Step, Xor

(* The same index: a difference moves down, and none is below bit 8.       *)
LEMMA ValueShows ==
    ASSUME NEW v \in Word, NEW w \in Word, NEW s \in Octet, NEW t \in Octet,
           Low(Xor(v, s)) = Low(Xor(w, t)),
           NEW b \in 8 .. 31, (b \in v) # (b \in w)
    PROVE  Differ(Step(v, s), Step(w, t), b - 8)
<1>1. b - 8 \in 0 .. 23 /\ (b - 8) + 8 = b
  OBVIOUS
<1>2. (b - 8 \in Shift8(v)) # (b - 8 \in Shift8(w))
  BY <1>1 DEF Shift8
<1>3. (b - 8 \in Step(v, s)) # (b - 8 \in Step(w, t))
  BY <1>2 DEF Step, Xor
<1> QED
  BY <1>1, <1>3 DEF Differ

(* The next byte of both messages keeps CInv.                              *)
LEMMA CInvStep ==
    ASSUME CInv, NEW s \in Char, NEW t \in Char, Read(s, t)
    PROVE  CInv'
<1>0. /\ packet \in Word /\ head \in Word /\ s \in Octet /\ t \in Octet
      /\ apart \in 0 .. 4 /\ len \in 0 .. MaxLen /\ MaxLen \in Nat
      /\ packet' = Step(packet, s) /\ head' = Step(head, t)
  BY CharAssumption DEF CInv, CrcTypeOK, Read
<1>1. CrcTypeOK'
  BY <1>0, StepType DEF CrcTypeOK, Read
<1>2. CASE apart = 0 /\ s = t
  BY <1>0, <1>1, <1>2 DEF CInv, Read
<1>3. CASE apart = 0 /\ s # t
  <2>1. packet = head
    BY <1>3 DEF CInv
  <2>2. PICK k \in 0 .. 7 : (k \in s) # (k \in t)
    BY <1>0, <1>3 DEF Octet
  <2>3. (k \in Low(Xor(packet, s))) # (k \in Low(Xor(head, t)))
    BY <2>1, <2>2 DEF Low, Xor
  <2>4. Differ(packet', head', 24)
    BY <1>0, <2>3, IndexShows
  <2> QED
    BY <1>1, <1>3, <2>4 DEF CInv, Read
<1>4. CASE apart # 0
  <2>1. PICK b \in 32 - 8 * apart .. 31 : (b \in packet) # (b \in head)
    BY <1>0, <1>4 DEF CInv, Differ
  <2>2. /\ apart \in 1 .. 3 => apart' = apart + 1
        /\ apart = 4 => apart' = 4 /\ s = t
        /\ apart' \in 2 .. 4
    BY <1>0, <1>4 DEF Read
  <2>3. CASE Low(Xor(packet, s)) # Low(Xor(head, t))
    <3>1. Differ(packet', head', 24)
      BY <1>0, <2>3, IndexShows
    <3>2. 32 - 8 * apart' \in 0 .. 24
      BY <2>2, Windows
    <3>3. Differ(packet', head', 32 - 8 * apart')
      BY <3>1, <3>2 DEF Differ
    <3> QED
      BY <1>1, <2>2, <3>3 DEF CInv
  <2>4. CASE Low(Xor(packet, s)) = Low(Xor(head, t))
    <3>1. b \in 8 .. 31
      <4>1. CASE apart \in 1 .. 3
        BY <2>1, <4>1
      <4>2. CASE apart = 4
        <5>1. s = t /\ b \in 0 .. 31
          BY <2>1, <2>2, <4>2
        <5>2. ASSUME b \in 0 .. 7 PROVE FALSE
          <6>1. (b \in Low(Xor(packet, s))) # (b \in Low(Xor(head, t)))
            BY <2>1, <5>1, <5>2 DEF Low, Xor
          <6> QED
            BY <2>4, <6>1
        <5> QED
          BY <5>1, <5>2
      <4> QED
        BY <1>0, <1>4, <4>1, <4>2
    <3>2. Differ(packet', head', b - 8)
      BY <1>0, <2>1, <2>4, <3>1, ValueShows
    <3>3. 32 - 8 * apart' \in 0 .. b - 8
      <4>1. CASE apart \in 1 .. 3
        BY <2>1, <2>2, <4>1, Windows
      <4>2. CASE apart = 4
        BY <2>2, <3>1, <4>2
      <4> QED
        BY <1>0, <1>4, <4>1, <4>2
    <3>4. Differ(packet', head', 32 - 8 * apart')
      BY <3>1, <3>2, <3>3 DEF Differ
    <3> QED
      BY <1>1, <2>2, <3>4 DEF CInv
  <2> QED
    BY <2>3, <2>4
<1> QED
  BY <1>0, <1>2, <1>3, <1>4

(* The invariant of the CRC32.                                             *)
LEMMA CInvCorrect == Spec => []CInv
<1>1. Init => CInv
  BY CharAssumption DEF Init, CrcInit, CInv, CrcTypeOK, Word
<1>2. CInv /\ [Next]_vars => CInv'
  <2>1. ASSUME CInv, CrcNext PROVE CInv'
    BY <2>1, CInvStep DEF CrcNext
  <2>2. ASSUME CInv, UNCHANGED crcVars PROVE CInv'
    BY <2>2 DEF CInv, CrcTypeOK, crcVars, Differ
  <2> QED
    BY <2>1, <2>2 DEF Next, vars
<1> QED
  BY <1>1, <1>2, PTL DEF Spec

(***************************************************************************)
(* Messages of any length over any bytes: where the bytes differ, within   *)
(* four that follow each other, the CRC32 values differ.                   *)
(***************************************************************************)
THEOREM TellsApartCorrect == Spec => []TellsApart
<1>1. CInv => TellsApart
  BY DEF CInv, TellsApart, Differ
<1> QED
  BY <1>1, CInvCorrect, PTL

-----------------------------------------------------------------------------
(* parse_config.                                                           *)

(* What SelectInSeq finds: the first of a set of places, or 0.             *)
LEMMA FirstOf ==
    ASSUME NEW n \in Nat, NEW I \in SUBSET (1 .. n),
           NEW e, e = IF I # {} THEN Min(I) ELSE 0
    PROVE  /\ e \in 0 .. n
           /\ e = 0 => I = {}
           /\ e # 0 => e \in I
           /\ \A i \in 1 .. n : i < e => i \notin I
<1>1. I \in SUBSET Nat
  OBVIOUS
<1>2. CASE I = {}
  BY <1>2
<1>3. CASE I # {}
  <2>1. e \in I /\ \A i \in I : e <= i
    BY <1>1, <1>3, MinOf
  <2>2. e \in 1 .. n
    BY <2>1
  <2>3. \A i \in 1 .. n : i < e => i \notin I
    BY <2>1, <2>2
  <2> QED
    BY <2>1, <2>2, <2>3
<1> QED
  BY <1>2, <1>3

(* The first "=" of a line.                                                *)
LEMMA FirstEqOf ==
    ASSUME NEW line \in Seq(Symbol)
    PROVE  /\ FirstEq(line) \in 0 .. Len(line)
           /\ FirstEq(line) = 0 => \A i \in 1 .. Len(line) : line[i] # "="
           /\ FirstEq(line) # 0 => line[FirstEq(line)] = "="
           /\ \A i \in 1 .. Len(line) : i < FirstEq(line) => line[i] # "="
<1> DEFINE n == Len(line)
           I == {i \in 1 .. n : line[i] = "="}
           e == FirstEq(line)
<1>1. n \in Nat /\ I \in SUBSET (1 .. n)
  OBVIOUS
<1>2. e = IF I # {} THEN Min(I) ELSE 0
  BY DEF FirstEq, SelectInSeq
<1>3. \A i \in 1 .. n : i \in I <=> line[i] = "="
  OBVIOUS
<1>4. \A i \in I : line[i] = "="
  OBVIOUS
<1> HIDE DEF I, e, n
<1>5. /\ e \in 0 .. n
      /\ e = 0 => I = {}
      /\ e # 0 => e \in I
      /\ \A i \in 1 .. n : i < e => i \notin I
  BY <1>1, <1>2, FirstOf
<1> QED
  BY <1>3, <1>4, <1>5 DEF e, n

(* A part of a line that is not empty.                                     *)
LEMMA Part ==
    ASSUME NEW s \in Seq(Symbol), NEW m \in 1 .. Len(s), NEW k \in Nat, k <= Len(s)
    PROVE  /\ SubSeq(s, m, k) \in Seq(Symbol)
           /\ Len(SubSeq(s, m, k)) = IF m <= k THEN k - m + 1 ELSE 0
           /\ \A i \in 1 .. k - m + 1 : SubSeq(s, m, k)[i] = s[m + i - 1]
<1>1. \A i \in m .. k : s[i] \in Symbol
  BY ElementOfSeq
<1>2. m \in Int /\ k \in Int
  OBVIOUS
<1> QED
  BY <1>1, <1>2, SubSeqProperties

(* A line that reaches strtok has two tokens: a "=" behind its first       *)
(* character, and something else behind it.                                *)
LEMMA AssignmentTokens ==
    ASSUME NEW line \in Seq(Symbol), IsAssignment(line)
    PROVE  /\ FirstEq(line) \in 2 .. Len(line) - 1
           /\ Value(line) \in Seq(Symbol) /\ Value(line) # <<>>
           /\ (\A i \in FirstEq(line) + 1 .. Len(line) : line[i] # "=")
                 => Value(line) = SubSeq(line, FirstEq(line) + 1, Len(line))
<1> DEFINE n == Len(line)
           e == FirstEq(line)
           behind == SubSeq(line, e + 1, n)
           from == SelectInSeq(behind, LAMBDA c : c # "=")
           tail == SubSeq(behind, from, Len(behind))
           to == SelectInSeq(tail, LAMBDA d : d = "=")
<1>1. /\ n \in Nat /\ n > 2 /\ line[1] # "=" /\ line[n] # "="
      /\ \E i \in 1 .. n : line[i] = "="
  BY DEF IsAssignment, Last, Range
<1>2. e \in 2 .. n - 1
  <2>1. e # 0
    BY <1>1, FirstEqOf
  <2>2. e \in 0 .. n /\ line[e] = "="
    BY <2>1, FirstEqOf
  <2>3. e # 1 /\ e # n
    BY <1>1, <2>2
  <2> HIDE DEF e, n
  <2> QED
    BY <1>1, <2>1, <2>2, <2>3
<1>3. Value(line) = IF from = 0 THEN <<>> ELSE IF to = 0 THEN tail ELSE SubSeq(tail, 1, to - 1)
  BY DEF Value, Behind, UpTo
<1>4. line \in Seq(Symbol) /\ n = Len(line)
  OBVIOUS
<1> HIDE DEF e
<1>5. /\ behind \in Seq(Symbol) /\ Len(behind) = n - e
      /\ \A i \in 1 .. n - e : behind[i] = line[e + i]
  <2> DEFINE m == e + 1
  <2>1. m \in 1 .. n /\ m <= n /\ m = e + 1 /\ behind = SubSeq(line, m, n)
    BY <1>1, <1>2
  <2> HIDE DEF m
  <2>2. /\ SubSeq(line, m, n) \in Seq(Symbol)
        /\ Len(SubSeq(line, m, n)) = IF m <= n THEN n - m + 1 ELSE 0
        /\ \A i \in 1 .. n - m + 1 : SubSeq(line, m, n)[i] = line[m + i - 1]
    BY <1>1, <2>1, Part
  <2> HIDE DEF behind, n
  <2>3. n - m + 1 = n - e /\ \A i \in 1 .. n - e : m + i - 1 = e + i
    BY <1>1, <1>2, <2>1
  <2> QED
    BY <1>1, <1>2, <2>1, <2>2, <2>3
<1>6. n - e \in Nat /\ n - e >= 1
  BY <1>1, <1>2
<1>7. behind[n - e] # "="
  <2>1. e + (n - e) = n
    BY <1>1, <1>2
  <2> HIDE DEF behind, n
  <2> QED
    BY <1>1, <1>5, <1>6, <2>1 DEF n
<1> HIDE DEF n, behind
<1> DEFINE l == Len(behind)
           I == {i \in 1 .. l : behind[i] # "="}
<1>8. /\ from \in 1 .. l /\ behind[from] # "="
      /\ \A i \in 1 .. l : i < from => behind[i] = "="
  <2>1. l \in Nat /\ I \in SUBSET (1 .. l) /\ l \in I
    BY <1>5, <1>6, <1>7
  <2>2. from = IF I # {} THEN Min(I) ELSE 0
    BY DEF SelectInSeq
  <2>3. \A i \in 1 .. l : i \notin I => behind[i] = "="
    OBVIOUS
  <2>4. \A i \in I : i \in 1 .. l /\ behind[i] # "="
    OBVIOUS
  <2> HIDE DEF I, from, l
  <2>5. /\ from \in 0 .. l
        /\ from = 0 => I = {}
        /\ from # 0 => from \in I
        /\ \A i \in 1 .. l : i < from => i \notin I
    BY <2>1, <2>2, FirstOf
  <2> QED
    BY <2>1, <2>3, <2>4, <2>5
<1> HIDE DEF from
<1>9. /\ tail \in Seq(Symbol) /\ Len(tail) = l - from + 1
      /\ \A i \in 1 .. l - from + 1 : tail[i] = behind[from + i - 1]
  BY <1>5, <1>6, <1>8, Part
<1> DEFINE k == Len(tail)
           J == {i \in 1 .. k : tail[i] = "="}
<1>10. k \in Nat /\ k >= 1 /\ tail[1] # "="
  <2>1. l \in Nat /\ l - from + 1 \in Nat /\ l - from + 1 >= 1
    BY <1>5, <1>6, <1>8
  <2>2. \A i : i = 1 => from + i - 1 = from /\ i \in 1 .. l - from + 1
    BY <1>8, <2>1
  <2> HIDE DEF tail, l
  <2> QED
    BY <1>8, <1>9, <2>1, <2>2
<1>11. /\ to \in 0 .. k
       /\ to = 0 => \A i \in 1 .. k : tail[i] # "="
       /\ to # 0 => to \in 1 .. k /\ tail[to] = "="
  <2>1. J \in SUBSET (1 .. k) /\ k \in Nat
    BY <1>10
  <2>2. to = IF J # {} THEN Min(J) ELSE 0
    BY DEF SelectInSeq
  <2>3. \A i \in 1 .. k : i \notin J => tail[i] # "="
    OBVIOUS
  <2>4. \A i \in J : i \in 1 .. k /\ tail[i] = "="
    OBVIOUS
  <2> HIDE DEF J, to, k
  <2>5. /\ to \in 0 .. k
        /\ to = 0 => J = {}
        /\ to # 0 => to \in J
        /\ \A i \in 1 .. k : i < to => i \notin J
    BY <2>1, <2>2, FirstOf
  <2> QED
    BY <2>1, <2>3, <2>4, <2>5
<1> HIDE DEF to, tail
<1>12. from # 0
  BY <1>8
<1>13. Value(line) \in Seq(Symbol) /\ Value(line) # <<>>
  <2>1. CASE to = 0
    BY <1>3, <1>9, <1>10, <1>12, <2>1
  <2>2. CASE to # 0
    <3> DEFINE j == to - 1
    <3>1. to # 1
      BY <1>10, <1>11, <2>2
    <3>2. j \in Nat /\ j <= k /\ 1 <= j /\ j - 1 + 1 > 0 /\ 1 \in 1 .. k
      BY <1>10, <1>11, <2>2, <3>1
    <3> HIDE DEF j
    <3>3. /\ SubSeq(tail, 1, j) \in Seq(Symbol)
          /\ Len(SubSeq(tail, 1, j)) = IF 1 <= j THEN j - 1 + 1 ELSE 0
      BY <1>9, <3>2, Part
    <3>4. Value(line) = SubSeq(tail, 1, j)
      BY <1>3, <1>12, <2>2 DEF j
    <3> HIDE DEF k
    <3> DEFINE v == SubSeq(tail, 1, j)
    <3>5. v \in Seq(Symbol) /\ Len(v) # 0 /\ Value(line) = v
      BY <3>2, <3>3, <3>4
    <3> HIDE DEF v
    <3> QED
      BY <3>5
  <2> QED
    BY <2>1, <2>2
<1>14. ASSUME \A i \in e + 1 .. n : line[i] # "="
       PROVE  Value(line) = behind
  <2>1. \A i \in 1 .. l : behind[i] # "="
    <3> SUFFICES ASSUME NEW i \in 1 .. l PROVE behind[i] # "="
      OBVIOUS
    <3>1. i \in 1 .. n - e
      BY <1>5
    <3>2. e + i \in e + 1 .. n
      BY <1>1, <1>2, <3>1
    <3> QED
      BY <1>5, <1>14, <3>1, <3>2
  <2>2. from = 1
    <3>1. 1 \in 1 .. l
      BY <1>5, <1>6
    <3>2. ~(1 < from)
      BY <1>8, <2>1, <3>1
    <3> QED
      BY <1>8, <3>2
  <2>3. tail = behind
    BY <1>5, <2>2, SubSeqFull DEF tail
  <2>4. to = 0
    BY <1>11, <2>1, <2>3
  <2> QED
    BY <1>3, <1>12, <2>3, <2>4
<1> QED
  BY <1>2, <1>13, <1>14 DEF e, n, behind

(* strncmp looks at the first character of the first token.                *)
LEMMA MatchesOf ==
    ASSUME NEW line \in Seq(Symbol), IsAssignment(line), NEW v \in Param
    PROVE  Matches(v, line) <=> line[1] = v
<1> DEFINE k == FirstEq(line) - 1
<1>1. k \in Nat /\ 1 <= k /\ k <= Len(line) /\ 1 \in 1 .. Len(line) /\ 1 \in 1 .. k - 1 + 1
  <2>1. FirstEq(line) \in 2 .. Len(line) - 1 /\ Len(line) \in Nat
    BY AssignmentTokens
  <2> QED
    BY <2>1
<1>2. Variable(line) = SubSeq(line, 1, k)
  BY DEF Variable
<1> HIDE DEF k
<1> DEFINE one == 1
<1>3. one \in 1 .. Len(line) /\ one \in 1 .. k - one + 1 /\ one + one - 1 = one
  BY <1>1
<1>4. Variable(line) = SubSeq(line, one, k)
  BY <1>2
<1> HIDE DEF one
<1>5. \A i \in 1 .. k - one + 1 : SubSeq(line, one, k)[i] = line[one + i - 1]
  BY <1>1, <1>3, Part
<1>6. Variable(line)[one] = line[one]
  BY <1>3, <1>4, <1>5
<1> QED
  BY <1>6 DEF Matches, one

(* What is behind the first "=".                                           *)
LEMMA BehindOf ==
    ASSUME NEW line \in Seq(Symbol), FirstEq(line) # 0
    PROVE  /\ Behind(line) \in Seq(Symbol)
           /\ Len(Behind(line)) = Len(line) - FirstEq(line)
           /\ \A i \in 1 .. Len(line) - FirstEq(line) :
                 Behind(line)[i] = line[FirstEq(line) + i]
<1> DEFINE n == Len(line)
           e == FirstEq(line)
           m == e + 1
<1>1. n \in Nat /\ e \in 0 .. n /\ e # 0
  BY FirstEqOf
<1>2. Behind(line) = SubSeq(line, m, n)
  BY DEF Behind
<1>3. \A i \in 1 .. n : line[i] \in Symbol
  BY ElementOfSeq
<1> HIDE DEF n, e
<1>4. m \in Nat \ {0} /\ m = e + 1 /\ n - m + 1 = n - e /\ \A i : e + i = m + i - 1 \/ i \notin Int
  BY <1>1
<1>5. \A i \in m .. n : line[i] \in Symbol
  BY <1>1, <1>3, <1>4
<1> HIDE DEF m
<1>6. /\ SubSeq(line, m, n) \in Seq(Symbol)
      /\ Len(SubSeq(line, m, n)) = IF m <= n THEN n - m + 1 ELSE 0
      /\ \A i \in 1 .. n - m + 1 : SubSeq(line, m, n)[i] = line[m + i - 1]
  BY <1>1, <1>4, <1>5, SubSeqProperties
<1>7. Len(SubSeq(line, m, n)) = n - e
  BY <1>1, <1>4, <1>6
<1>8. \A i \in 1 .. n - e : SubSeq(line, m, n)[i] = line[e + i]
  BY <1>1, <1>4, <1>6
<1> QED
  BY <1>2, <1>6, <1>7, <1>8 DEF n, e

(* The part of s that comes before the first c.                            *)
LEMMA UpToOf ==
    ASSUME NEW s \in Seq(Symbol), NEW c
    PROVE  /\ UpTo(s, c) \in Seq(Symbol)
           /\ (\A i \in 1 .. Len(s) : s[i] # c) => UpTo(s, c) = s
<1> DEFINE n == Len(s)
           I == {i \in 1 .. n : s[i] = c}
           k == SelectInSeq(s, LAMBDA d : d = c)
           j == k - 1
<1>1. n \in Nat /\ I \in SUBSET (1 .. n) /\ k = IF I # {} THEN Min(I) ELSE 0
  BY DEF SelectInSeq
<1>2. (\A i \in 1 .. n : s[i] # c) => I = {}
  OBVIOUS
<1>3. UpTo(s, c) = IF k = 0 THEN s ELSE SubSeq(s, 1, j)
  BY DEF UpTo
<1>4. \A i \in 1 .. n : s[i] \in Symbol
  BY ElementOfSeq
<1> HIDE DEF n, I, k
<1>5. k \in 0 .. n
  BY <1>1, FirstOf
<1>6. I = {} => k = 0
  BY <1>1
<1>7. CASE k = 0
  BY <1>3, <1>7
<1>8. CASE k # 0
  <2> DEFINE one == 1
  <2>1. one \in Nat \ {0} /\ j \in Nat /\ \A i \in one .. j : i \in 1 .. n
    BY <1>1, <1>5, <1>8
  <2>2. UpTo(s, c) = SubSeq(s, one, j)
    BY <1>3, <1>8
  <2> HIDE DEF one, j
  <2>3. \A i \in one .. j : s[i] \in Symbol
    BY <1>4, <2>1
  <2>4. SubSeq(s, one, j) \in Seq(Symbol)
    BY <2>1, <2>3, SubSeqProperties
  <2> QED
    BY <1>2, <1>6, <1>8, <2>2, <2>4 DEF n
<1> QED
  BY <1>7, <1>8

(* What the shell assigns in a line that is not odd, parse_config reads,   *)
(* too; an empty value it skips.                                           *)
LEMMA ShellLine ==
    ASSUME NEW line \in Seq(Symbol), NEW v \in Param, ShellAssigns(v, line), ~IsOdd(line)
    PROVE  /\ ShellValue(line) \in Seq(Symbol)
           /\ line[1] = v
           /\ Len(line) < LineLength
           /\ ShellValue(line) = <<>> => ~IsAssignment(line)
           /\ ShellValue(line) # <<>> => IsAssignment(line) /\ Value(line) = ShellValue(line)
<1> DEFINE n == Len(line)
           e == FirstEq(line)
           s == Behind(line)
<1>0. Range(s) \cap {" ", "=", "$"} = {}
  BY DEF IsOdd
<1>1. e = 2 /\ line[1] = v
  <2>1. e > 1 /\ e \in Nat
    <3>1. e > 1
      BY DEF ShellAssigns
    <3>2. e \in Nat
      BY FirstEqOf
    <3> QED
      BY <3>1, <3>2
  <2>2. line[e - 1] = v /\ \A i \in 1 .. e - 2 : line[i] = " "
    BY DEF ShellAssigns
  <2>3. line[1] # " "
    BY DEF IsOdd
  <2> HIDE DEF e
  <2>4. 1 \notin 1 .. e - 2
    BY <2>2, <2>3
  <2>5. e = 2 /\ e - 1 = 1
    BY <2>1, <2>4
  <2> QED
    BY <2>2, <2>5
<1>2. n \in Nat /\ n >= 2 /\ line[2] = "=" /\ line[1] # "=" /\ line[1] # "#"
  <2>1. e \in 0 .. n /\ n \in Nat
    BY FirstEqOf
  <2>2. line[e] = "="
    BY <1>1, FirstEqOf
  <2>3. v # "=" /\ v # "#"
    BY DEF Param, LogFile, SerialFile
  <2> HIDE DEF e, n
  <2>4. n >= 2
    BY <1>1, <2>1
  <2> QED
    BY <1>1, <2>1, <2>2, <2>3, <2>4
<1>3. s \in Seq(Symbol) /\ Len(s) = n - 2 /\ \A i \in 1 .. n - 2 : s[i] = line[2 + i]
  <2>1. e # 0
    BY <1>1
  <2>2. s \in Seq(Symbol) /\ Len(s) = n - e /\ \A i \in 1 .. n - e : s[i] = line[e + i]
    BY <2>1, BehindOf
  <2> HIDE DEF e, n, s
  <2> QED
    BY <1>1, <2>2
<1>4. \A i \in 1 .. n - 2 : s[i] # "=" /\ s[i] # " "
  <2>1. \A i \in 1 .. n - 2 : s[i] \in Range(s)
    <3>1. DOMAIN s = 1 .. n - 2
      BY <1>2, <1>3
    <3> QED
      BY <3>1 DEF Range
  <2> QED
    BY <1>0, <2>1
<1>5. ShellValue(line) = s
  <2> DEFINE blank == " "
  <2>1. \A i \in 1 .. Len(s) : s[i] # blank
    BY <1>3, <1>4
  <2>2. ShellValue(line) = UpTo(s, blank)
    BY DEF ShellValue
  <2> HIDE DEF s, blank
  <2> QED
    BY <1>3, <2>1, <2>2, UpToOf
<1>6. n < LineLength
  <2>1. ~(n >= LineLength)
    BY DEF IsOdd
  <2>2. n \in Nat
    BY <1>2
  <2> HIDE DEF n
  <2> QED
    BY <2>1, <2>2, LineLengthAssumption
<1>7. CASE n = 2
  <2>1. ~IsAssignment(line)
    BY <1>7 DEF IsAssignment
  <2>2. s = <<>>
    <3>1. Len(s) = 0
      BY <1>3, <1>7
    <3> HIDE DEF s
    <3> QED
      BY <1>3, <3>1
  <2> HIDE DEF s
  <2> QED
    BY <1>1, <1>3, <1>5, <1>6, <2>1, <2>2
<1>8. CASE n # 2
  <2>1. n > 2
    <3>1. n \in Nat /\ n >= 2
      BY <1>2
    <3> HIDE DEF n
    <3> QED
      BY <1>8, <3>1
  <2>2. \A i \in 3 .. n : line[i] # "="
    <3> SUFFICES ASSUME NEW i \in 3 .. n PROVE line[i] # "="
      OBVIOUS
    <3>1. i - 2 \in 1 .. n - 2 /\ 2 + (i - 2) = i
      BY <1>2, <2>1
    <3> HIDE DEF s
    <3> QED
      BY <1>3, <1>4, <3>1
  <2>3. IsAssignment(line)
    <3>1. line[n] # "="
      BY <1>2, <2>1, <2>2
    <3>2. "=" \in Range(line)
      BY <1>2, <2>1 DEF Range
    <3>3. Last(line) = line[n] /\ Head(line) = line[1]
      BY <2>1 DEF Last
    <3> QED
      BY <1>2, <2>1, <3>1, <3>2, <3>3 DEF IsAssignment
  <2>4. Value(line) = s
    <3>1. (\A i \in e + 1 .. n : line[i] # "=") => Value(line) = SubSeq(line, e + 1, n)
      BY <2>3, AssignmentTokens
    <3>2. e + 1 = 3
      BY <1>1
    <3>3. s = SubSeq(line, e + 1, n)
      BY DEF Behind
    <3> HIDE DEF e, s
    <3> QED
      BY <2>2, <3>1, <3>2, <3>3
  <2>5. s # <<>>
    <3>1. Len(s) # 0
      BY <1>2, <1>3, <2>1
    <3> HIDE DEF s
    <3> QED
      BY <3>1
  <2> HIDE DEF s
  <2> QED
    BY <1>1, <1>3, <1>5, <1>6, <2>3, <2>4, <2>5
<1> QED
  BY <1>7, <1>8

(* A path that was empty becomes the value.                                *)
LEMMA StrncpyToEmpty ==
    ASSUME NEW s \in Seq(Symbol)
    PROVE  Strncpy(<<>>, s) = s
<1> DEFINE old == <<>>
<1>1. SubSeq(old, Len(s) + 1, Len(old)) = <<>>
  BY SubSeqEmpty
<1>2. s \o <<>> = s
  BY ConcatEmptySeq
<1> QED
  BY <1>1, <1>2 DEF Strncpy

(* A longer path leaves its end.                                           *)
LEMMA StrncpyType ==
    ASSUME NEW old \in Seq(Symbol), NEW s \in Seq(Symbol)
    PROVE  Strncpy(old, s) \in Seq(Symbol)
<1> DEFINE m == Len(s) + 1
           k == Len(old)
<1>1. m \in Nat \ {0} /\ k \in Nat /\ \A i \in m .. k : old[i] \in Symbol
  BY ElementOfSeq
<1> HIDE DEF m, k
<1>2. SubSeq(old, m, k) \in Seq(Symbol)
  BY <1>1, SubSeqProperties
<1> QED
  BY <1>2, ConcatProperties DEF Strncpy, m, k

-----------------------------------------------------------------------------
(* What fgets returns and leaves of a line.                                *)
LEMMA PieceOf ==
    ASSUME NEW s \in Seq(Symbol)
    PROVE  /\ Piece(s) \in Seq(Symbol) /\ Remainder(s) \in Seq(Symbol)
           /\ Len(s) < LineLength => Piece(s) = s
<1> DEFINE n == Len(s)
           one == 1
           j == LineLength - 1
<1>1. n \in Nat /\ \A i \in 1 .. n : s[i] \in Symbol
  BY ElementOfSeq
<1>2. Piece(s) = IF n < LineLength THEN s ELSE SubSeq(s, one, j)
  BY DEF Piece
<1>3. Piece(s) \in Seq(Symbol)
  <2>1. CASE n < LineLength
    BY <1>2, <2>1
  <2>2. CASE ~(n < LineLength)
    <3>1. one \in Nat \ {0} /\ j \in Nat /\ \A i \in one .. j : i \in 1 .. n
      BY <1>1, <2>2, LineLengthAssumption
    <3> HIDE DEF one, j, n
    <3>2. \A i \in one .. j : s[i] \in Symbol
      BY <1>1, <3>1
    <3>3. SubSeq(s, one, j) \in Seq(Symbol)
      BY <3>1, <3>2, SubSeqProperties
    <3> QED
      BY <1>2, <2>2, <3>3
  <2> QED
    BY <2>1, <2>2
<1>4. Remainder(s) \in Seq(Symbol)
  <2> DEFINE m == Len(Piece(s)) + 1
  <2>1. Remainder(s) = SubSeq(s, m, n)
    BY DEF Remainder
  <2>2. Len(Piece(s)) \in Nat
    BY <1>3
  <2> HIDE DEF n
  <2>3. m \in Nat \ {0} /\ \A i \in m .. n : i \in 1 .. n
    BY <1>1, <2>2
  <2> HIDE DEF m
  <2>4. \A i \in m .. n : s[i] \in Symbol
    BY <1>1, <2>3
  <2>5. SubSeq(s, m, n) \in Seq(Symbol)
    BY <1>1, <2>3, <2>4, SubSeqProperties
  <2> QED
    BY <2>1, <2>5
<1> QED
  BY <1>2, <1>3, <1>4

(* A line is about one parameter.                                          *)
LEMMA OneParameter ==
    ASSUME NEW line \in Seq(Symbol), IsAssignment(line), NEW v \in Param, NEW w \in Param,
           Matches(v, line), Matches(w, line)
    PROVE  v = w
  BY MatchesOf

(* One piece is about one parameter at most, and if it is about one, it is *)
(* counted and has a value.                                                *)
LEMMA ParseOf ==
    ASSUME ConfigTypeOK, cstate = "reading", NEW piece \in Seq(Symbol), Parse(piece)
    PROVE  /\ cstate' = "reading"
           /\ path' \in [Param -> Seq(Symbol)] /\ red_params' \in Nat
           /\ \/ path' = path /\ red_params' = red_params
                   /\ \A v \in Param : ~(IsAssignment(piece) /\ Matches(v, piece))
              \/ \E v \in Param :
                    /\ IsAssignment(piece) /\ Matches(v, piece)
                    /\ path' = [path EXCEPT ![v] = Strncpy(path[v], Value(piece))]
                    /\ red_params' = red_params + 1
<1> DEFINE vs == IF IsAssignment(piece) THEN {v \in Param : Matches(v, piece)} ELSE {}
<1>1. /\ path' = [v \in Param |-> IF v \in vs THEN Strncpy(path[v], Value(piece)) ELSE path[v]]
      /\ red_params' = red_params + (IF vs = {} THEN 0 ELSE 1)
      /\ cstate' = IF vs # {} /\ Value(piece) = <<>> THEN "crashed" ELSE "reading"
  BY DEF Parse
<1>2. /\ vs # {} => IsAssignment(piece)
      /\ \A v \in Param : v \in vs <=> IsAssignment(piece) /\ Matches(v, piece)
      /\ vs \in SUBSET Param
  OBVIOUS
<1> HIDE DEF vs
<1>3. vs # {} => Value(piece) \in Seq(Symbol) /\ Value(piece) # <<>>
  BY <1>2, AssignmentTokens
<1>4. path \in [Param -> Seq(Symbol)] /\ red_params \in Nat
  BY DEF ConfigTypeOK
<1>5. CASE vs = {}
  <2>1. path' = path
    BY <1>1, <1>4, <1>5
  <2>2. red_params' = red_params /\ cstate' = "reading"
    BY <1>1, <1>4, <1>5
  <2> QED
    BY <1>2, <1>4, <1>5, <2>1, <2>2
<1>6. CASE vs # {}
  <2>1. PICK v \in vs : TRUE
    BY <1>6
  <2>2. v \in Param /\ IsAssignment(piece) /\ Matches(v, piece)
    BY <1>2
  <2>3. \A w \in Param : w \in vs <=> w = v
    <3>1. ASSUME NEW w \in Param, w \in vs PROVE w = v
      <4>1. Matches(w, piece)
        BY <1>2, <3>1
      <4> QED
        BY <2>2, <4>1, OneParameter
    <3> QED
      BY <2>1, <3>1
  <2>4. Strncpy(path[v], Value(piece)) \in Seq(Symbol)
    BY <1>3, <1>4, <1>6, <2>2, StrncpyType
  <2>5. path' = [path EXCEPT ![v] = Strncpy(path[v], Value(piece))]
    BY <1>1, <1>4, <2>2, <2>3
  <2>6. path' \in [Param -> Seq(Symbol)]
    BY <1>4, <2>2, <2>4, <2>5
  <2>7. red_params' = red_params + 1 /\ red_params' \in Nat /\ cstate' = "reading"
    BY <1>1, <1>3, <1>4, <1>6
  <2> QED
    BY <2>2, <2>5, <2>6, <2>7
<1> QED
  BY <1>5, <1>6

-----------------------------------------------------------------------------
(* The parameters to which the shell assigns something.                    *)
Assigned ==
    (IF shell[LogFile] # <<>> THEN 1 ELSE 0) + (IF shell[SerialFile] # <<>> THEN 1 ELSE 0)

(***************************************************************************)
(* While no line is odd, parse_config counts at least as many assignments  *)
(* as there are parameters to which the shell assigns something; and if it *)
(* has counted no more, then it has counted those alone, each of them once,*)
(* and its paths are the shell's.                                          *)
(***************************************************************************)
KInv ==
    /\ ConfigTypeOK
    /\ cstate # "crashed"
    /\ ~odd => red_params >= Assigned /\ (red_params = Assigned => path = shell)
    /\ cstate = "ok" => red_params = 2

(* What the shell does with a line that is not odd, parse_config does with *)
(* its first piece.                                                        *)
LEMMA EvenLine ==
    ASSUME NEW line \in Line, ~IsOdd(line), NEW v \in Param, ShellAssigns(v, line)
    PROVE  /\ ShellValue(line) \in Seq(Symbol)
           /\ ShellValue(line) = <<>> => ~IsAssignment(Piece(line))
           /\ ShellValue(line) # <<>> => /\ IsAssignment(Piece(line)) /\ Matches(v, Piece(line))
                                         /\ Value(Piece(line)) = ShellValue(line)
<1>1. line \in Seq(Symbol)
  BY LineAssumption
<1>2. /\ ShellValue(line) \in Seq(Symbol)
      /\ line[1] = v
      /\ Len(line) < LineLength
      /\ ShellValue(line) = <<>> => ~IsAssignment(line)
      /\ ShellValue(line) # <<>> => IsAssignment(line) /\ Value(line) = ShellValue(line)
  BY <1>1, ShellLine
<1>3. Piece(line) = line
  BY <1>1, <1>2, PieceOf
<1> QED
  BY <1>1, <1>2, <1>3, MatchesOf

(* The shell takes a line as an assignment to one parameter at most.       *)
LEMMA OneAssigned ==
    ASSUME NEW line \in Seq(Symbol), NEW v \in Param, NEW w \in Param,
           ShellAssigns(v, line), ShellAssigns(w, line)
    PROVE  v = w
  BY DEF ShellAssigns

(* An assignment that the shell makes, whatever the value.                 *)
LEMMA ShellType ==
    ASSUME NEW line \in Seq(Symbol), NEW v \in Param, ShellAssigns(v, line)
    PROVE  ShellValue(line) \in Seq(Symbol)
<1> DEFINE blank == " "
<1>1. FirstEq(line) # 0
  <2>1. FirstEq(line) > 1
    BY DEF ShellAssigns
  <2>2. FirstEq(line) \in Nat
    BY FirstEqOf
  <2> QED
    BY <2>1, <2>2
<1>2. Behind(line) \in Seq(Symbol)
  BY <1>1, BehindOf
<1>3. ShellValue(line) = UpTo(Behind(line), blank)
  BY DEF ShellValue
<1> HIDE DEF blank
<1> QED
  BY <1>2, <1>3, UpToOf

(* How the number of assigned parameters changes with one of them.         *)
LEMMA AssignedOf ==
    ASSUME NEW v \in Param, shell \in [Param -> Seq(Symbol)],
           NEW s \in Seq(Symbol), shell' = [shell EXCEPT ![v] = s]
    PROVE  /\ Assigned \in Nat /\ Assigned' \in Nat
           /\ Assigned' <= Assigned + 1
           /\ s = <<>> => Assigned' <= Assigned
           /\ shell[v] # <<>> => Assigned' <= Assigned
           /\ s = <<>> /\ Assigned' = Assigned => shell[v] = <<>>
<1>1. Param = {LogFile, SerialFile} /\ LogFile # SerialFile
  BY DEF Param, LogFile, SerialFile
<1>2. Assigned' = (IF shell'[LogFile] # <<>> THEN 1 ELSE 0)
                    + (IF shell'[SerialFile] # <<>> THEN 1 ELSE 0)
  BY DEF Assigned, LogFile, SerialFile
<1>3. \A w \in Param : shell'[w] = IF w = v THEN s ELSE shell[w]
  OBVIOUS
<1>4. CASE v = LogFile
  <2>1. shell'[LogFile] = s /\ shell'[SerialFile] = shell[SerialFile]
    BY <1>1, <1>3, <1>4
  <2> QED
    BY <1>2, <1>4, <2>1 DEF Assigned
<1>5. CASE v = SerialFile
  <2>1. shell'[SerialFile] = s /\ shell'[LogFile] = shell[LogFile]
    BY <1>1, <1>3, <1>5
  <2> QED
    BY <1>2, <1>5, <2>1 DEF Assigned
<1> QED
  BY <1>1, <1>4, <1>5

(* The beginning of a line keeps the invariant.                            *)
LEMMA ReadLineInv ==
    ASSUME KInv, NEW line \in Line, ReadLine(line)
    PROVE  KInv'
<1> DEFINE piece == Piece(line)
<1>1. /\ cstate = "reading" /\ count < MaxLines /\ count' = count + 1
      /\ Parse(piece) /\ rest' = Remainder(line)
      /\ shell' = [v \in Param |-> IF ShellAssigns(v, line) THEN ShellValue(line) ELSE shell[v]]
      /\ odd' = (odd \/ IsOdd(line))
  BY DEF ReadLine
<1>2. line \in Seq(Symbol) /\ piece \in Seq(Symbol) /\ Remainder(line) \in Seq(Symbol)
  BY LineAssumption, PieceOf
<1>3. ConfigTypeOK
  BY DEF KInv
<1> HIDE DEF piece
<1>4. /\ cstate' = "reading"
      /\ path' \in [Param -> Seq(Symbol)] /\ red_params' \in Nat
      /\ \/ path' = path /\ red_params' = red_params
              /\ \A v \in Param : ~(IsAssignment(piece) /\ Matches(v, piece))
         \/ \E v \in Param :
               /\ IsAssignment(piece) /\ Matches(v, piece)
               /\ path' = [path EXCEPT ![v] = Strncpy(path[v], Value(piece))]
               /\ red_params' = red_params + 1
  BY <1>1, <1>2, <1>3, ParseOf
<1>5. /\ shell \in [Param -> Seq(Symbol)] /\ path \in [Param -> Seq(Symbol)]
      /\ red_params \in Nat /\ count \in 0 .. MaxLines /\ odd \in BOOLEAN
  BY <1>3 DEF ConfigTypeOK
<1>6. \/ shell' = shell /\ \A v \in Param : ~ShellAssigns(v, line)
      \/ \E v \in Param : /\ ShellAssigns(v, line) /\ ShellValue(line) \in Seq(Symbol)
                           /\ shell' = [shell EXCEPT ![v] = ShellValue(line)]
  <2>1. CASE \A v \in Param : ~ShellAssigns(v, line)
    BY <1>1, <1>5, <2>1
  <2>2. CASE \E v \in Param : ShellAssigns(v, line)
    <3>1. PICK v \in Param : ShellAssigns(v, line)
      BY <2>2
    <3>2. \A w \in Param : ShellAssigns(w, line) => w = v
      BY <1>2, <3>1, OneAssigned
    <3>3. ShellValue(line) \in Seq(Symbol)
      BY <1>2, <3>1, ShellType
    <3>4. shell' = [shell EXCEPT ![v] = ShellValue(line)]
      BY <1>1, <1>5, <3>1, <3>2
    <3> QED
      BY <3>1, <3>3, <3>4
  <2> QED
    BY <2>1, <2>2
<1>7. ConfigTypeOK'
  <2>1. shell' \in [Param -> Seq(Symbol)]
    BY <1>5, <1>6
  <2>2. count' \in 0 .. MaxLines
    BY <1>1, <1>5, LineAssumption
  <2>3. odd' \in BOOLEAN
    BY <1>1, <1>5
  <2> QED
    BY <1>1, <1>2, <1>4, <2>1, <2>2, <2>3 DEF ConfigTypeOK
<1>8. ASSUME ~odd'
      PROVE  red_params' >= Assigned' /\ (red_params' = Assigned' => path' = shell')
  <2>1. ~IsOdd(line) /\ red_params >= Assigned /\ (red_params = Assigned => path = shell)
    BY <1>1, <1>5, <1>8 DEF KInv
  <2>2. Assigned \in Nat
    BY DEF Assigned
  <2>3. ASSUME NEW v \in Param, ShellAssigns(v, line)
        PROVE  /\ ShellValue(line) = <<>> => ~IsAssignment(piece)
               /\ ShellValue(line) # <<>> => /\ IsAssignment(piece) /\ Matches(v, piece)
                                             /\ Value(piece) = ShellValue(line)
    BY <2>1, <2>3, EvenLine DEF piece
  <2>4. CASE shell' = shell
    <3>1. Assigned' = Assigned
      BY <2>4 DEF Assigned, LogFile, SerialFile
    <3>2. red_params' = red_params + 1 \/ (path' = path /\ red_params' = red_params)
      BY <1>4
    <3> QED
      BY <1>5, <2>1, <2>2, <2>4, <3>1, <3>2
  <2>5. CASE shell' # shell
    <3>1. PICK v \in Param : /\ ShellAssigns(v, line) /\ ShellValue(line) \in Seq(Symbol)
                            /\ shell' = [shell EXCEPT ![v] = ShellValue(line)]
      BY <1>6, <2>5
    <3> DEFINE s == ShellValue(line)
    <3>2. s \in Seq(Symbol) /\ shell' = [shell EXCEPT ![v] = s]
      BY <3>1
    <3> HIDE DEF s
    <3>3. /\ Assigned' \in Nat /\ Assigned' <= Assigned + 1
          /\ s = <<>> => Assigned' <= Assigned
          /\ shell[v] # <<>> => Assigned' <= Assigned
          /\ s = <<>> /\ Assigned' = Assigned => shell[v] = <<>>
      BY <1>5, <3>2, AssignedOf
    <3>4. CASE s = <<>>
      <4>1. path' = path /\ red_params' = red_params
        BY <1>4, <2>3, <3>1, <3>4 DEF s
      <4>2. shell[v] # <<>>
        BY <1>5, <2>5, <3>2, <3>4
      <4>3. Assigned' < Assigned
        BY <2>2, <3>3, <3>4, <4>2
      <4> QED
        BY <1>5, <2>1, <2>2, <3>3, <4>1, <4>3
    <3>5. CASE s # <<>>
      <4>1. IsAssignment(piece) /\ Matches(v, piece) /\ Value(piece) = s
        BY <2>3, <3>1, <3>5 DEF s
      <4>2. PICK w \in Param :
               /\ IsAssignment(piece) /\ Matches(w, piece)
               /\ path' = [path EXCEPT ![w] = Strncpy(path[w], Value(piece))]
               /\ red_params' = red_params + 1
        BY <1>4, <4>1
      <4>3. w = v
        BY <1>2, <4>1, <4>2, OneParameter
      <4>4. red_params' >= Assigned'
        BY <1>5, <2>1, <2>2, <3>3, <4>2
      <4>5. ASSUME red_params' = Assigned' PROVE path' = shell'
        <5>1. red_params = Assigned /\ ~(Assigned' <= Assigned)
          BY <1>5, <2>1, <2>2, <3>3, <4>2, <4>5
        <5>2. path = shell /\ shell[v] = <<>>
          BY <2>1, <3>3, <5>1
        <5>3. Strncpy(path[v], s) = s
          BY <3>2, <5>2, StrncpyToEmpty
        <5> QED
          BY <3>2, <4>1, <4>2, <4>3, <5>2, <5>3
      <4> QED
        BY <4>4, <4>5
    <3> QED
      BY <3>4, <3>5
  <2> QED
    BY <2>4, <2>5
<1> QED
  BY <1>4, <1>7, <1>8 DEF KInv

(* So does what is left of a line: the shell has nothing more to do with   *)
(* it, and an assignment that it is taken for counts only in parse_config. *)
LEMMA ReadRestInv ==
    ASSUME KInv, ReadRest
    PROVE  KInv'
<1> DEFINE piece == Piece(rest)
<1>1. /\ cstate = "reading" /\ Parse(piece) /\ rest' = Remainder(rest)
      /\ count' = count /\ shell' = shell /\ odd' = odd
  BY DEF ReadRest
<1>2. ConfigTypeOK
  BY DEF KInv
<1>3. piece \in Seq(Symbol) /\ Remainder(rest) \in Seq(Symbol)
  BY <1>2, PieceOf DEF ConfigTypeOK
<1> HIDE DEF piece
<1>4. /\ cstate' = "reading"
      /\ path' \in [Param -> Seq(Symbol)] /\ red_params' \in Nat
      /\ (path' = path /\ red_params' = red_params) \/ red_params' = red_params + 1
  BY <1>1, <1>2, <1>3, ParseOf
<1>5. ConfigTypeOK'
  BY <1>1, <1>2, <1>3, <1>4 DEF ConfigTypeOK
<1>6. Assigned' = Assigned /\ Assigned \in Nat /\ red_params \in Nat
  BY <1>1, <1>2 DEF Assigned, LogFile, SerialFile, ConfigTypeOK
<1>7. ~odd' => red_params' >= Assigned' /\ (red_params' = Assigned' => path' = shell')
  <2>1. ~odd => red_params >= Assigned /\ (red_params = Assigned => path = shell)
    BY DEF KInv
  <2> QED
    BY <1>1, <1>4, <1>6, <2>1
<1> QED
  BY <1>4, <1>5, <1>7 DEF KInv

(* The end of the file does.                                               *)
LEMMA ReadEndInv ==
    ASSUME KInv, ReadEnd
    PROVE  KInv'
  BY DEF KInv, ReadEnd, ConfigTypeOK, Assigned

(* So do steps that are not about the configuration.                       *)
LEMMA ConfigStep ==
    ASSUME KInv, [ConfigNext]_configVars
    PROVE  KInv'
<1>1. CASE UNCHANGED configVars
  BY <1>1 DEF KInv, configVars, ConfigTypeOK, Assigned
<1> QED
  BY <1>1, ReadLineInv, ReadRestInv, ReadEndInv DEF ConfigNext

(* The invariant of parse_config.                                          *)
LEMMA KInvCorrect == Spec => []KInv
<1>1. Init => KInv
  <2> SUFFICES ASSUME Init PROVE KInv
    OBVIOUS
  <2>1. /\ cstate = "reading" /\ red_params = 0 /\ count = 0 /\ odd = FALSE
        /\ path = [v \in Param |-> <<>>] /\ shell = [v \in Param |-> <<>>]
        /\ rest = <<>>
    BY DEF Init, ConfigInit
  <2>2. <<>> \in Seq(Symbol)
    OBVIOUS
  <2>3. ConfigTypeOK
    <3>1. path \in [Param -> Seq(Symbol)] /\ shell \in [Param -> Seq(Symbol)]
      BY <2>1, <2>2
    <3>2. red_params \in Nat /\ count \in 0 .. MaxLines
      BY <2>1, LineAssumption
    <3>3. cstate \in {"reading", "ok", "bad", "crashed"} /\ odd \in BOOLEAN /\ rest \in Seq(Symbol)
      BY <2>1, <2>2
    <3> QED
      BY <3>1, <3>2, <3>3 DEF ConfigTypeOK
  <2>4. LogFile \in Param /\ SerialFile \in Param
    BY DEF Param
  <2>5. Assigned = 0
    BY <2>1, <2>4 DEF Assigned
  <2> QED
    BY <2>1, <2>3, <2>5 DEF KInv
<1>2. KInv /\ [Next]_vars => KInv'
  BY ConfigStep DEF Next, vars
<1> QED
  BY <1>1, <1>2, PTL DEF Spec

(* strtok's second call never returns NULL.                                *)
THEOREM ValueExistsCorrect == Spec => []ValueExists
<1>1. KInv => ValueExists
  BY DEF KInv, ValueExists
<1> QED
  BY <1>1, KInvCorrect, PTL

(* When parse_config succeeds on a file in which the shell finds both      *)
(* paths, its paths are the shell's, whatever else the file is made of, as *)
(* long as no assignment is odd.                                           *)
THEOREM ConfigIsTheShellsCorrect == Spec => []ConfigIsTheShells
<1>1. KInv => ConfigIsTheShells
  <2> SUFFICES ASSUME KInv, cstate = "ok", ~odd, \A v \in Param : shell[v] # <<>>
               PROVE  path = shell
    BY DEF ConfigIsTheShells
  <2>1. shell[LogFile] # <<>> /\ shell[SerialFile] # <<>>
    BY DEF Param
  <2>2. Assigned = 2
    BY <2>1 DEF Assigned
  <2> QED
    BY <2>2 DEF KInv
<1> QED
  BY <1>1, KInvCorrect, PTL

-----------------------------------------------------------------------------
(* Of the bounds on the lengths the proofs need only that they are numbers.*)
LEMMA LengthsType ==
    /\ NumRec \in Nat \ {0}
    /\ NameLen \in [1 .. NumRec -> Nat \ {0}]
    /\ ValueLen \subseteq Nat
<1>1. 1 .. 127 \subseteq Nat \ {0} /\ 0 .. 127 \subseteq Nat
  OBVIOUS
<1>2. \A f \in 1 .. NumRec : NameLen[f] \in Nat \ {0}
  BY <1>1, CodecAssumption
<1> QED
  BY <1>1, <1>2, CodecAssumption

(* write_log and parse_packet.  Field f of the message starts at offset o: *)
(* the length of its name, the name, a zero byte, the length of its value, *)
(* the value and a zero byte.                                              *)
FieldAt(b, g, o, f) ==
    LET v == o + NameLen[f] + 2
    IN  /\ v + g[f] + 2 <= Len(b)
        /\ b[o + 1] = Num(NameLen[f])
        /\ \A k \in 1 .. NameLen[f] : b[o + 1 + k] = <<InName, f, k>>
        /\ b[v + 1] = Num(g[f])
        /\ \A k \in 1 .. g[f] : b[v + 1 + k] = <<InValue, f, k>>
        /\ b[v + g[f] + 2] = Nul

(* The fields of message b, with values of the lengths g, start at the     *)
(* offsets at, one behind the other.                                       *)
Layout(b, g, at) ==
    /\ at \in [1 .. Len(g) + 1 -> Nat] /\ at[1] = 2
    /\ \A f \in 1 .. Len(g) :
          at[f + 1] = at[f] + NameLen[f] + g[f] + 4 /\ FieldAt(b, g, at[f], f)

(* While the message is written, its next byte follows the last field; and *)
(* then MRK_END does.  parse_packet is at the start of a field or at the   *)
(* end.                                                                    *)
Reading(at) ==
    /\ next = 0 => got = <<>> /\ at[Len(given) + 1] = lenBuf
    /\ next # 0 => /\ Len(given) = NumRec /\ Len(got) <= NumRec
                   /\ at[NumRec + 1] = lenBuf - 1 /\ rawBuf[lenBuf] = End
                   /\ next = at[Len(got) + 1]

(* What parse_packet has taken out.                                        *)
FieldOf(o, f) == [name |-> o + 1, nameLen |-> NameLen[f],
                  value |-> o + NameLen[f] + 3, valueLen |-> given[f]]

Taken(at) == \A f \in 1 .. Len(got) : got[f] = FieldOf(at[f], f)

MessageInv ==
    CodecTypeOK /\ \E at : Layout(rawBuf, given, at) /\ Reading(at) /\ Taken(at)

(* A length, a string and its zero byte.                                   *)
StringBytes(which, f, n) == <<Num(n)>> \o String(which, f, n) \o <<Nul>>

(* Its bytes, one by one.                                                  *)
LEMMA StringBytesAre ==
    ASSUME NEW which \in {InName, InValue}, NEW f \in Nat, NEW n \in Nat
    PROVE  /\ StringBytes(which, f, n) \in Seq(Byte)
           /\ Len(StringBytes(which, f, n)) = n + 2
           /\ StringBytes(which, f, n)[1] = Num(n)
           /\ StringBytes(which, f, n)[n + 2] = Nul
           /\ \A k \in 1 .. n : StringBytes(which, f, n)[1 + k] = <<which, f, k>>
<1> DEFINE s == StringBytes(which, f, n)
           a == <<Num(n)>>
           b == String(which, f, n)
           c == <<Nul>>
           ab == a \o b
<1>1. Num(n) \in Byte /\ Nul \in Byte
  BY DEF Num, Nul, Byte
<1>2. \A k \in 1 .. n : <<which, f, k>> \in Byte
  BY DEF Byte, InName, InValue
<1>3. a \in Seq(Byte) /\ Len(a) = 1 /\ a[1] = Num(n)
  BY <1>1
<1>4. b \in Seq(Byte) /\ Len(b) = n /\ \A k \in 1 .. n : b[k] = <<which, f, k>>
  <2>1. b = [k \in 1 .. n |-> <<which, f, k>>]
    BY DEF String
  <2> HIDE DEF b
  <2>2. b \in [1 .. n -> Byte]
    BY <1>2, <2>1
  <2> QED
    BY <2>1, <2>2
<1>5. c \in Seq(Byte) /\ Len(c) = 1 /\ c[1] = Nul
  BY <1>1
<1>6. s = ab \o c
  BY DEF StringBytes
<1> HIDE DEF a, b, c, s
<1>7. /\ ab \in Seq(Byte) /\ Len(ab) = 1 + n
      /\ \A i \in 1 .. 1 + n : ab[i] = IF i <= 1 THEN a[i] ELSE b[i - 1]
  <2>1. /\ a \o b \in Seq(Byte) /\ Len(a \o b) = Len(a) + Len(b)
        /\ \A i \in 1 .. Len(a) + Len(b) :
              (a \o b)[i] = IF i <= Len(a) THEN a[i] ELSE b[i - Len(a)]
    BY <1>3, <1>4, ConcatProperties
  <2> QED
    BY <1>3, <1>4, <2>1
<1> HIDE DEF ab
<1>8. /\ s \in Seq(Byte) /\ Len(s) = n + 2
      /\ \A i \in 1 .. n + 2 : s[i] = IF i <= n + 1 THEN ab[i] ELSE c[i - (n + 1)]
  <2>1. /\ ab \o c \in Seq(Byte) /\ Len(ab \o c) = Len(ab) + Len(c)
        /\ \A i \in 1 .. Len(ab) + Len(c) :
              (ab \o c)[i] = IF i <= Len(ab) THEN ab[i] ELSE c[i - Len(ab)]
    BY <1>5, <1>7, ConcatProperties
  <2>2. Len(ab) + Len(c) = n + 2 /\ Len(ab) = n + 1
    BY <1>5, <1>7
  <2> QED
    BY <1>6, <2>1, <2>2
<1>9. s[1] = Num(n)
  <2>1. 1 \in 1 .. n + 2 /\ 1 <= n + 1 /\ 1 \in 1 .. 1 + n
    OBVIOUS
  <2> QED
    BY <1>3, <1>7, <1>8, <2>1
<1>10. s[n + 2] = Nul
  <2> DEFINE j == n + 2
             m == n + 1
  <2>1. j \in 1 .. j /\ ~(j <= m) /\ j - m = 1
    OBVIOUS
  <2>2. \A i \in 1 .. j : s[i] = IF i <= m THEN ab[i] ELSE c[i - m]
    BY <1>8
  <2> HIDE DEF j, m
  <2>3. s[j] = c[j - m]
    BY <2>1, <2>2
  <2>4. s[j] = Nul
    BY <1>5, <2>1, <2>3
  <2> QED
    BY <2>4 DEF j
<1>11. ASSUME NEW k \in 1 .. n PROVE s[1 + k] = <<which, f, k>>
  <2> DEFINE j == 1 + k
  <2>1. /\ j \in 1 .. n + 2 /\ j <= n + 1 /\ j \in 1 .. 1 + n
        /\ ~(j <= 1) /\ j - 1 = k
    OBVIOUS
  <2> HIDE DEF j
  <2>2. s[j] = ab[j] /\ ab[j] = b[j - 1]
    BY <1>7, <1>8, <2>1
  <2>3. b[j - 1] = b[k] /\ b[k] = <<which, f, k>>
    BY <1>4, <2>1
  <2>4. s[j] = <<which, f, k>>
    BY <2>2, <2>3
  <2> QED
    BY <2>4 DEF j
<1> QED
  BY <1>8, <1>9, <1>10, <1>11 DEF s

(* Storing behind the last byte leaves the bytes before it.                *)
LEMMA StoreAtEnd ==
    ASSUME NEW b \in Seq(Byte), NEW s \in Seq(Byte)
    PROVE  /\ Store(b, Len(b), s) \in Seq(Byte)
           /\ Len(Store(b, Len(b), s)) = Len(b) + Len(s)
           /\ \A i \in 1 .. Len(b) : Store(b, Len(b), s)[i] = b[i]
           /\ \A i \in 1 .. Len(s) : Store(b, Len(b), s)[Len(b) + i] = s[i]
<1> DEFINE o == Len(b)
           m == Len(s)
           r == Store(b, Len(b), s)
<1>1. o \in Nat /\ m \in Nat
  OBVIOUS
<1>2. r = [i \in 1 .. (IF o + m > o THEN o + m ELSE o) |->
              IF i \in o + 1 .. o + m THEN s[i - o] ELSE IF i <= o THEN b[i] ELSE Nul]
  BY DEF Store
<1>3. /\ \A i \in 1 .. o : b[i] \in Byte
      /\ \A i \in 1 .. m : s[i] \in Byte
  BY ElementOfSeq
<1> HIDE DEF o, m, r
<1>4. (IF o + m > o THEN o + m ELSE o) = o + m
  BY <1>1
<1>5. r = [i \in 1 .. o + m |->
              IF i \in o + 1 .. o + m THEN s[i - o] ELSE IF i <= o THEN b[i] ELSE Nul]
  BY <1>2, <1>4
<1>6. \A i \in 1 .. o : r[i] = b[i]
  BY <1>1, <1>5
<1>7. \A i \in 1 .. m : r[o + i] = s[i]
  <2> SUFFICES ASSUME NEW i \in 1 .. m PROVE r[o + i] = s[i]
    OBVIOUS
  <2> DEFINE j == o + i
  <2>1. j \in 1 .. o + m /\ j \in o + 1 .. o + m /\ j - o = i
    BY <1>1
  <2> HIDE DEF j
  <2>2. r[j] = s[j - o]
    BY <1>5, <2>1
  <2>3. r[j] = s[i]
    BY <2>1, <2>2
  <2> QED
    BY <2>3 DEF j
<1>8. \A i \in 1 .. o + m : r[i] \in Byte
  <2> SUFFICES ASSUME NEW i \in 1 .. o + m PROVE r[i] \in Byte
    OBVIOUS
  <2>1. CASE i \in 1 .. o
    BY <1>3, <1>6, <2>1
  <2>2. CASE i \notin 1 .. o
    <3>1. i - o \in 1 .. m /\ o + (i - o) = i
      BY <1>1, <2>2
    <3> QED
      BY <1>3, <1>7, <3>1
  <2> QED
    BY <2>1, <2>2
<1>9. r \in [1 .. o + m -> Byte] /\ o + m \in Nat
  <2> DEFINE n == o + m
             q(i) == IF i \in o + 1 .. n THEN s[i - o] ELSE IF i <= o THEN b[i] ELSE Nul
  <2>1. r = [i \in 1 .. n |-> q(i)]
    BY <1>5
  <2>2. \A i \in 1 .. n : r[i] \in Byte
    BY <1>8
  <2> HIDE DEF n, q
  <2>3. r \in [1 .. n -> Byte]
    BY <2>1, <2>2
  <2> QED
    BY <1>1, <2>3 DEF n
<1>10. r \in Seq(Byte) /\ Len(r) = o + m
  BY <1>9
<1> QED
  BY <1>6, <1>7, <1>10 DEF o, m, r

(* A field stays where it is when bytes and values are added.              *)
LEMMA FieldStays ==
    ASSUME NEW b \in Seq(Byte), NEW b2 \in Seq(Byte), Len(b) <= Len(b2),
           \A i \in 1 .. Len(b) : b2[i] = b[i],
           NEW g, NEW g2, NEW i \in 1 .. NumRec, g[i] \in Nat, g2[i] = g[i],
           NEW a \in Nat, FieldAt(b, g, a, i)
    PROVE  FieldAt(b2, g2, a, i)
<1> DEFINE p == NameLen[i]
           n == g[i]
           v == a + p + 2
           o == Len(b)
           o2 == Len(b2)
<1>1. p \in Nat /\ n \in Nat /\ v \in Nat /\ o \in Nat /\ o2 \in Nat
  BY LengthsType
<1>2. /\ v + n + 2 <= o
      /\ b[a + 1] = Num(p) /\ b[v + 1] = Num(n) /\ b[v + n + 2] = Nul
      /\ \A k \in 1 .. p : b[a + 1 + k] = <<InName, i, k>>
      /\ \A k \in 1 .. n : b[v + 1 + k] = <<InValue, i, k>>
  BY DEF FieldAt
<1>3. o <= o2 /\ \A j \in 1 .. o : b2[j] = b[j]
  OBVIOUS
<1>4. v = a + p + 2
  OBVIOUS
<1> HIDE DEF p, n, v, o, o2
<1>5. /\ a + 1 \in 1 .. o /\ v + 1 \in 1 .. o /\ v + n + 2 \in 1 .. o
      /\ \A k \in 1 .. p : a + 1 + k \in 1 .. o
      /\ \A k \in 1 .. n : v + 1 + k \in 1 .. o
  <2>1. v + n + 2 <= o /\ a \in Nat
    BY <1>2
  <2> QED
    BY <1>1, <1>4, <2>1
<1>6. v + n + 2 <= o2
  BY <1>1, <1>2, <1>3
<1>7. /\ b2[a + 1] = Num(p) /\ b2[v + 1] = Num(n) /\ b2[v + n + 2] = Nul
      /\ \A k \in 1 .. p : b2[a + 1 + k] = <<InName, i, k>>
      /\ \A k \in 1 .. n : b2[v + 1 + k] = <<InValue, i, k>>
  BY <1>2, <1>3, <1>5
<1>8. g2[i] = n
  BY DEF n
<1> QED
  BY <1>6, <1>7, <1>8 DEF FieldAt, v, p, o2

(* The bytes of a field: its name and its value.                           *)
FieldBytes(f, n) == StringBytes(InName, f, NameLen[f]) \o StringBytes(InValue, f, n)

(* A field that is stored behind the others is at the end of the message.  *)
LEMMA FieldStored ==
    ASSUME NEW b \in Seq(Byte), NEW f \in 1 .. NumRec, NEW g, g[f] \in Nat
    PROVE  LET b2 == Store(b, Len(b), FieldBytes(f, g[f]))
           IN  /\ b2 \in Seq(Byte) /\ Len(b2) = Len(b) + NameLen[f] + g[f] + 4
               /\ \A i \in 1 .. Len(b) : b2[i] = b[i]
               /\ FieldAt(b2, g, Len(b), f)
<1> DEFINE n == g[f]
           b2 == Store(b, Len(b), FieldBytes(f, n))
           m == NameLen[f]
           o == Len(b)
           name == StringBytes(InName, f, m)
           value == StringBytes(InValue, f, n)
           s == name \o value
<1>1. f \in Nat /\ m \in Nat /\ o \in Nat /\ n \in Nat /\ g[f] = n
  BY LengthsType
<1>2. InName \in {InName, InValue} /\ InValue \in {InName, InValue}
  OBVIOUS
<1>3. /\ name \in Seq(Byte) /\ Len(name) = m + 2
      /\ name[1] = Num(m) /\ name[m + 2] = Nul
      /\ \A k \in 1 .. m : name[1 + k] = <<InName, f, k>>
  <2> HIDE DEF m, n
  <2> QED
    BY <1>1, <1>2, StringBytesAre
<1>4. /\ value \in Seq(Byte) /\ Len(value) = n + 2
      /\ value[1] = Num(n) /\ value[n + 2] = Nul
      /\ \A k \in 1 .. n : value[1 + k] = <<InValue, f, k>>
  <2> HIDE DEF m, n
  <2> QED
    BY <1>1, <1>2, StringBytesAre
<1>5. b2 = Store(b, Len(b), s)
  BY DEF FieldBytes
<1> HIDE DEF m, n, name, value, b2
<1>6. /\ s \in Seq(Byte) /\ Len(s) = m + n + 4
      /\ \A i \in 1 .. m + 2 : s[i] = name[i]
      /\ \A i \in 1 .. n + 2 : s[m + 2 + i] = value[i]
  <2>1. /\ s \in Seq(Byte) /\ Len(s) = Len(name) + Len(value)
        /\ \A i \in 1 .. Len(name) + Len(value) :
              s[i] = IF i <= Len(name) THEN name[i] ELSE value[i - Len(name)]
    BY <1>3, <1>4, ConcatProperties
  <2> HIDE DEF s
  <2>2. Len(s) = m + n + 4
    BY <1>1, <1>3, <1>4, <2>1
  <2>3. \A i \in 1 .. m + 2 : s[i] = name[i]
    BY <1>1, <1>3, <1>4, <2>1
  <2>4. \A i \in 1 .. n + 2 : s[m + 2 + i] = value[i]
    <3> SUFFICES ASSUME NEW i \in 1 .. n + 2 PROVE s[m + 2 + i] = value[i]
      OBVIOUS
    <3> DEFINE j == m + 2 + i
    <3>1. j \in 1 .. Len(name) + Len(value) /\ ~(j <= Len(name)) /\ j - Len(name) = i
      BY <1>1, <1>3, <1>4
    <3> HIDE DEF j
    <3>2. s[j] = value[i]
      BY <2>1, <3>1
    <3> QED
      BY <3>2 DEF j
  <2> QED
    BY <2>1, <2>2, <2>3, <2>4
<1> HIDE DEF s
<1>7. /\ b2 \in Seq(Byte) /\ Len(b2) = Len(b) + Len(s)
      /\ \A i \in 1 .. Len(b) : b2[i] = b[i]
      /\ \A i \in 1 .. Len(s) : b2[Len(b) + i] = s[i]
  <2>1. /\ Store(b, Len(b), s) \in Seq(Byte)
        /\ Len(Store(b, Len(b), s)) = Len(b) + Len(s)
        /\ \A i \in 1 .. Len(b) : Store(b, Len(b), s)[i] = b[i]
        /\ \A i \in 1 .. Len(s) : Store(b, Len(b), s)[Len(b) + i] = s[i]
    BY <1>6, StoreAtEnd
  <2> QED
    BY <1>5, <2>1
<1>8. o = Len(b)
  OBVIOUS
<1> HIDE DEF o
<1>9. Len(b2) = o + m + n + 4 /\ \A i \in 1 .. m + n + 4 : b2[o + i] = s[i]
  BY <1>1, <1>6, <1>7, <1>8
<1> DEFINE v == o + m + 2
<1>10. v \in Nat /\ v + n + 2 <= Len(b2)
  BY <1>1, <1>9
<1>11. ASSUME NEW i \in 1 .. m + 2 PROVE b2[o + i] = name[i]
  <2>1. i \in 1 .. m + n + 4
    BY <1>1
  <2> QED
    BY <1>6, <1>9, <2>1
<1>12. ASSUME NEW i \in 1 .. n + 2 PROVE b2[v + i] = value[i]
  <2> DEFINE j == m + 2 + i
  <2>1. j \in 1 .. m + n + 4 /\ v + i = o + j
    BY <1>1
  <2>2. s[j] = value[i]
    BY <1>6
  <2> HIDE DEF j, v
  <2>3. b2[o + j] = s[j]
    BY <1>9, <2>1
  <2> QED
    BY <2>1, <2>2, <2>3
<1> HIDE DEF v
<1>13. b2[o + 1] = Num(m)
  <2>1. 1 \in 1 .. m + 2
    BY <1>1
  <2> QED
    BY <1>3, <1>11, <2>1
<1>14. ASSUME NEW k \in 1 .. m PROVE b2[o + 1 + k] = <<InName, f, k>>
  <2> DEFINE j == 1 + k
  <2>1. j \in 1 .. m + 2 /\ o + 1 + k = o + j
    BY <1>1
  <2>2. name[j] = <<InName, f, k>>
    BY <1>3
  <2> HIDE DEF j
  <2>3. b2[o + j] = name[j]
    BY <1>11, <2>1
  <2> QED
    BY <2>1, <2>2, <2>3
<1>15. b2[v + 1] = Num(n)
  <2>1. 1 \in 1 .. n + 2
    BY <1>1
  <2> QED
    BY <1>4, <1>12, <2>1
<1>16. ASSUME NEW k \in 1 .. n PROVE b2[v + 1 + k] = <<InValue, f, k>>
  <2> DEFINE j == 1 + k
  <2>1. j \in 1 .. n + 2 /\ v + 1 + k = v + j
    BY <1>1, <1>10
  <2>2. value[j] = <<InValue, f, k>>
    BY <1>4
  <2> HIDE DEF j
  <2>3. b2[v + j] = value[j]
    BY <1>12, <2>1
  <2> QED
    BY <2>1, <2>2, <2>3
<1>17. b2[v + n + 2] = Nul
  <2> DEFINE j == n + 2
  <2>1. j \in 1 .. n + 2 /\ v + n + 2 = v + j
    BY <1>1, <1>10
  <2>2. value[j] = Nul
    BY <1>4
  <2> HIDE DEF j
  <2>3. b2[v + j] = value[j]
    BY <1>12, <2>1
  <2> QED
    BY <2>1, <2>2, <2>3
<1>18. FieldAt(b2, g, o, f)
  BY <1>1, <1>10, <1>13, <1>14, <1>15, <1>16, <1>17 DEF FieldAt, v, m
<1> QED
  BY <1>7, <1>9, <1>18 DEF o, m, n, b2

(* So a message with one more field has a layout again.                    *)
LEMMA LayoutGrows ==
    ASSUME NEW b \in Seq(Byte), NEW g \in Seq(ValueLen), NEW n \in ValueLen,
           Len(g) < NumRec, NEW at, Layout(b, g, at), at[Len(g) + 1] = Len(b)
    PROVE  LET g2 == Append(g, n)
               b2 == Store(b, Len(b), FieldBytes(Len(g) + 1, n))
           IN  /\ g2 \in Seq(ValueLen) /\ Len(g2) = Len(g) + 1
               /\ b2 \in Seq(Byte)
               /\ Len(b2) = Len(b) + NameLen[Len(g) + 1] + n + 4
               /\ \E at2 : Layout(b2, g2, at2) /\ at2[Len(g2) + 1] = Len(b2)
<1> DEFINE g2 == Append(g, n)
           b2 == Store(b, Len(b), FieldBytes(Len(g) + 1, n))
           c == Len(g)
           f == c + 1
<1>1. c \in Nat /\ n \in Nat /\ NumRec \in Nat /\ f \in 1 .. NumRec /\ f = c + 1 /\ Len(b) \in Nat
  BY LengthsType
<1>2. NameLen[f] \in Nat
  BY <1>1, LengthsType
<1>3. /\ g2 \in Seq(ValueLen) /\ Len(g2) = f
      /\ \A i \in 1 .. c : g2[i] = g[i]
      /\ g2[f] = n
  BY AppendProperties
<1>4. /\ at \in [1 .. f -> Nat] /\ at[1] = 2 /\ at[f] = Len(b)
      /\ \A i \in 1 .. c : at[i + 1] = at[i] + NameLen[i] + g[i] + 4 /\ FieldAt(b, g, at[i], i)
  BY DEF Layout
<1>5. \A i \in 1 .. c : g[i] \in Nat
  BY ElementOfSeq, LengthsType
<1>6. b2 = Store(b, Len(b), FieldBytes(f, n))
  OBVIOUS
<1>7. c < NumRec /\ c = Len(g)
  OBVIOUS
<1> HIDE DEF c, f, g2, b2
<1>8. /\ b2 \in Seq(Byte) /\ Len(b2) = Len(b) + NameLen[f] + n + 4
      /\ \A i \in 1 .. Len(b) : b2[i] = b[i]
      /\ FieldAt(b2, g2, Len(b), f)
  <2> DEFINE r == Store(b, Len(b), FieldBytes(f, n))
  <2>1. /\ r \in Seq(Byte) /\ Len(r) = Len(b) + NameLen[f] + n + 4
        /\ \A i \in 1 .. Len(b) : r[i] = b[i]
        /\ FieldAt(r, g2, Len(b), f)
    <3>1. f \in 1 .. NumRec /\ n \in Nat /\ g2[f] = n
      BY <1>1, <1>3
    <3>2. /\ Store(b, Len(b), FieldBytes(f, g2[f])) \in Seq(Byte)
          /\ Len(Store(b, Len(b), FieldBytes(f, g2[f]))) = Len(b) + NameLen[f] + g2[f] + 4
          /\ \A i \in 1 .. Len(b) : Store(b, Len(b), FieldBytes(f, g2[f]))[i] = b[i]
          /\ FieldAt(Store(b, Len(b), FieldBytes(f, g2[f])), g2, Len(b), f)
      <4>1. g2[f] \in Nat /\ f \in 1 .. NumRec
        BY <3>1
      <4> QED
        BY <4>1, FieldStored
    <3>3. Store(b, Len(b), FieldBytes(f, g2[f])) = r
      BY <3>1
    <3> HIDE DEF r
    <3> QED
      BY <3>1, <3>2, <3>3
  <2>2. b2 = r
    BY <1>6
  <2> HIDE DEF r
  <2> QED
    BY <2>1, <2>2
<1> DEFINE at2 == [i \in 1 .. f + 1 |-> IF i <= f THEN at[i] ELSE Len(b2)]
<1>9. /\ at2 \in [1 .. f + 1 -> Nat] /\ at2[f + 1] = Len(b2)
      /\ \A i \in 1 .. f : at2[i] = at[i]
  <2>1. Len(b2) \in Nat
    BY <1>8
  <2> QED
    BY <1>1, <1>4, <2>1
<1> HIDE DEF at2
<1>10. ASSUME NEW i \in 1 .. f
       PROVE  at2[i + 1] = at2[i] + NameLen[i] + g2[i] + 4 /\ FieldAt(b2, g2, at2[i], i)
  <2>1. CASE i = f
    <3>1. f \in 1 .. f
      BY <1>1
    <3>2. at2[f] = Len(b)
      BY <1>4, <1>9, <3>1
    <3>3. at2[f + 1] = at2[f] + NameLen[f] + g2[f] + 4
      BY <1>3, <1>8, <1>9, <3>2
    <3>4. FieldAt(b2, g2, at2[f], f)
      BY <1>8, <3>2
    <3> QED
      BY <2>1, <3>3, <3>4
  <2>2. CASE i # f
    <3>1. i \in 1 .. c /\ i + 1 \in 1 .. f /\ i \in 1 .. NumRec
      BY <1>1, <1>7, <2>2
    <3>2. at2[i + 1] = at[i + 1] /\ at2[i] = at[i] /\ g2[i] = g[i] /\ g[i] \in Nat
      BY <1>3, <1>5, <1>9, <3>1
    <3>3. at[i + 1] = at[i] + NameLen[i] + g[i] + 4 /\ FieldAt(b, g, at[i], i)
      BY <1>4, <3>1
    <3>4. at[i] \in Nat
      <4>1. i \in 1 .. f
        OBVIOUS
      <4> QED
        BY <1>4, <4>1
    <3>5. Len(b) <= Len(b2)
      BY <1>1, <1>2, <1>8
    <3>6. FieldAt(b2, g2, at[i], i)
      BY <1>8, <3>1, <3>2, <3>3, <3>4, <3>5, FieldStays
    <3> QED
      BY <3>2, <3>3, <3>6
  <2> QED
    BY <2>1, <2>2
<1>11. Layout(b2, g2, at2)
  <2>1. at2[1] = 2
    <3>1. 1 \in 1 .. f
      BY <1>1
    <3> QED
      BY <1>4, <1>9, <3>1
  <2> QED
    BY <1>3, <1>9, <1>10, <2>1 DEF Layout
<1>12. at2[Len(g2) + 1] = Len(b2)
  BY <1>3, <1>9
<1> QED
  BY <1>3, <1>8, <1>11, <1>12 DEF f, c, g2, b2

(* add_record2buff keeps the invariant: no field is put into a message     *)
(* that was sent, it has them all.                                         *)
LEMMA AddRecordInv ==
    ASSUME MessageInv, NEW n \in ValueLen, AddRecord(n)
    PROVE  MessageInv'
<1> DEFINE f == Len(given) + 1
           s == FieldBytes(f, n)
<1>1. /\ f <= NumRec /\ given' = Append(given, n)
      /\ rawBuf' = Store(rawBuf, lenBuf, s)
      /\ lenBuf' = lenBuf + (NameLen[f] + 2) + (n + 2)
      /\ got' = got /\ next' = next
  BY DEF AddRecord, FieldBytes, StringBytes
<1>2. PICK at : Layout(rawBuf, given, at) /\ Reading(at) /\ Taken(at)
  BY DEF MessageInv
<1>3. /\ given \in Seq(ValueLen) /\ Len(given) <= NumRec
      /\ rawBuf \in Seq(Byte) /\ lenBuf = Len(rawBuf)
      /\ got \in Seq([name : Nat, nameLen : Nat, value : Nat, valueLen : Nat])
      /\ next \in 0 .. lenBuf
  BY DEF MessageInv, CodecTypeOK
<1>4. Len(given) < NumRec
  BY <1>1, <1>3, LengthsType
<1>5. next = 0
  BY <1>2, <1>3, <1>4, LengthsType DEF Reading
<1>6. got = <<>> /\ at[Len(given) + 1] = Len(rawBuf)
  BY <1>2, <1>3, <1>5 DEF Reading
<1>7. rawBuf' = Store(rawBuf, Len(rawBuf), FieldBytes(Len(given) + 1, n))
  BY <1>1, <1>3
<1>8. /\ given' \in Seq(ValueLen) /\ Len(given') = Len(given) + 1
      /\ rawBuf' \in Seq(Byte)
      /\ Len(rawBuf') = Len(rawBuf) + NameLen[Len(given) + 1] + n + 4
      /\ \E at2 : Layout(rawBuf', given', at2) /\ at2[Len(given') + 1] = Len(rawBuf')
  <2> DEFINE g2 == Append(given, n)
             b2 == Store(rawBuf, Len(rawBuf), FieldBytes(Len(given) + 1, n))
  <2>1. /\ g2 \in Seq(ValueLen) /\ Len(g2) = Len(given) + 1
        /\ b2 \in Seq(Byte)
        /\ Len(b2) = Len(rawBuf) + NameLen[Len(given) + 1] + n + 4
        /\ \E at2 : Layout(b2, g2, at2) /\ at2[Len(g2) + 1] = Len(b2)
    BY <1>2, <1>3, <1>4, <1>6, LayoutGrows
  <2>2. given' = g2 /\ rawBuf' = b2
    BY <1>1, <1>7
  <2> HIDE DEF g2, b2
  <2> QED
    BY <2>1, <2>2
<1>9. PICK at2 : Layout(rawBuf', given', at2) /\ at2[Len(given') + 1] = Len(rawBuf')
  BY <1>8
<1>10. lenBuf' = Len(rawBuf')
  <2>1. /\ lenBuf \in Nat /\ NameLen[f] \in Nat /\ n \in Nat
    <3>1. f \in 1 .. NumRec
      BY <1>1, <1>3, LengthsType
    <3> QED
      BY <1>3, <3>1, LengthsType
  <2>2. lenBuf' = lenBuf + (NameLen[f] + 2) + (n + 2) /\ Len(rawBuf') = lenBuf + NameLen[f] + n + 4
    BY <1>1, <1>3, <1>8
  <2> HIDE DEF f
  <2> DEFINE m == NameLen[f]
  <2>3. m \in Nat /\ lenBuf' = lenBuf + (m + 2) + (n + 2) /\ Len(rawBuf') = lenBuf + m + n + 4
    BY <2>1, <2>2
  <2> HIDE DEF m
  <2> QED
    BY <2>1, <2>3
<1>11. CodecTypeOK'
  <2>1. Len(given') <= NumRec
    BY <1>1, <1>8
  <2>2. next' \in 0 .. lenBuf'
    BY <1>1, <1>5, <1>8, <1>10
  <2>3. got' \in Seq([name : Nat, nameLen : Nat, value : Nat, valueLen : Nat])
    BY <1>1, <1>3
  <2> QED
    BY <1>8, <1>10, <2>1, <2>2, <2>3 DEF CodecTypeOK
<1>12. Reading(at2)' /\ Taken(at2)'
  <2>1. got' = <<>> /\ next' = 0 /\ Len(got') = 0
    BY <1>1, <1>5, <1>6
  <2> QED
    BY <1>9, <1>10, <2>1 DEF Reading, Taken
<1> QED
  BY <1>9, <1>11, <1>12 DEF MessageInv

(* MRK_END goes behind the last field, and parse_packet starts at the      *)
(* first one.                                                              *)
LEMMA FinishInv ==
    ASSUME MessageInv, Finish
    PROVE  MessageInv'
<1>1. /\ Len(given) = NumRec /\ next = 0 /\ next' = 2
      /\ rawBuf' = Store(rawBuf, lenBuf, <<End>>) /\ lenBuf' = lenBuf + 1
      /\ given' = given /\ got' = got
  BY DEF Finish
<1>2. PICK at : Layout(rawBuf, given, at) /\ Reading(at) /\ Taken(at)
  BY DEF MessageInv
<1>3. /\ given \in Seq(ValueLen) /\ Len(given) <= NumRec
      /\ rawBuf \in Seq(Byte) /\ lenBuf = Len(rawBuf)
      /\ got \in Seq([name : Nat, nameLen : Nat, value : Nat, valueLen : Nat])
  BY DEF MessageInv, CodecTypeOK
<1>4. NumRec \in Nat /\ NumRec >= 1 /\ Len(rawBuf) \in Nat
  BY <1>3, LengthsType
<1>5. got = <<>> /\ at[NumRec + 1] = lenBuf
  BY <1>1, <1>2 DEF Reading
<1> DEFINE s == <<End>>
<1>6. s \in Seq(Byte) /\ Len(s) = 1 /\ s[1] = End
  BY DEF End, Byte
<1>7. rawBuf' = Store(rawBuf, Len(rawBuf), s)
  BY <1>1, <1>3
<1> HIDE DEF s
<1>8. /\ rawBuf' \in Seq(Byte) /\ Len(rawBuf') = Len(rawBuf) + 1
      /\ \A i \in 1 .. Len(rawBuf) : rawBuf'[i] = rawBuf[i]
      /\ rawBuf'[Len(rawBuf) + 1] = End
  <2>1. /\ Store(rawBuf, Len(rawBuf), s) \in Seq(Byte)
        /\ Len(Store(rawBuf, Len(rawBuf), s)) = Len(rawBuf) + Len(s)
        /\ \A i \in 1 .. Len(rawBuf) : Store(rawBuf, Len(rawBuf), s)[i] = rawBuf[i]
        /\ \A i \in 1 .. Len(s) : Store(rawBuf, Len(rawBuf), s)[Len(rawBuf) + i] = s[i]
    BY <1>3, <1>6, StoreAtEnd
  <2>2. 1 \in 1 .. Len(s)
    BY <1>6
  <2> QED
    BY <1>6, <1>7, <2>1, <2>2
<1>9. Layout(rawBuf', given, at)
  <2>1. /\ at \in [1 .. NumRec + 1 -> Nat] /\ at[1] = 2
        /\ \A i \in 1 .. NumRec :
              at[i + 1] = at[i] + NameLen[i] + given[i] + 4 /\ FieldAt(rawBuf, given, at[i], i)
    BY <1>1, <1>2 DEF Layout
  <2>2. ASSUME NEW i \in 1 .. NumRec PROVE FieldAt(rawBuf', given, at[i], i)
    <3>1. at[i] \in Nat
      <4>1. i \in 1 .. NumRec + 1
        BY <1>4
      <4> QED
        BY <2>1, <4>1
    <3>2. given[i] \in Nat
      BY <1>1, <1>3, LengthsType, ElementOfSeq
    <3>3. FieldAt(rawBuf, given, at[i], i) /\ Len(rawBuf) <= Len(rawBuf')
      BY <1>4, <1>8, <2>1
    <3> QED
      BY <1>3, <1>8, <3>1, <3>2, <3>3, FieldStays
  <2> QED
    BY <1>1, <2>1, <2>2 DEF Layout
<1>10. CodecTypeOK'
  <2>1. lenBuf' = Len(rawBuf') /\ lenBuf' \in Nat
    BY <1>1, <1>3, <1>4, <1>8
  <2>2. next' \in 0 .. lenBuf'
    <3>1. at[1] = 2 /\ FieldAt(rawBuf, given, at[1], 1)
      <4>1. 1 \in 1 .. Len(given)
        BY <1>1, <1>4
      <4> QED
        BY <1>2, <4>1 DEF Layout
    <3>2. at[1] + NameLen[1] + 2 + given[1] + 2 <= Len(rawBuf)
      BY <3>1 DEF FieldAt
    <3>3. NameLen[1] \in Nat /\ given[1] \in Nat
      <4>1. 1 \in 1 .. Len(given) /\ 1 \in 1 .. NumRec
        BY <1>1, <1>4
      <4>2. given[1] \in ValueLen
        BY <1>3, <4>1, ElementOfSeq
      <4> QED
        BY <4>1, <4>2, LengthsType
    <3> QED
      BY <1>1, <1>4, <1>8, <2>1, <3>1, <3>2, <3>3
  <2> QED
    BY <1>1, <1>3, <1>8, <2>1, <2>2 DEF CodecTypeOK
<1>11. Reading(at)' /\ Taken(at)'
  <2>1. got' = <<>> /\ next' # 0 /\ Len(got') = 0 /\ Len(given') = NumRec
    BY <1>1, <1>5
  <2>2. at[NumRec + 1] = lenBuf' - 1 /\ rawBuf'[lenBuf'] = End
    BY <1>1, <1>3, <1>4, <1>5, <1>8
  <2>3. next' = at[Len(got') + 1]
    BY <1>1, <1>2, <2>1 DEF Layout
  <2> QED
    BY <1>4, <2>1, <2>2, <2>3 DEF Reading, Taken
<1>12. Layout(rawBuf, given, at)'
  BY <1>1, <1>9
<1> QED
  BY <1>10, <1>11, <1>12 DEF MessageInv

(* A field of the message, byte by byte.                                   *)
LEMMA FieldRead ==
    ASSUME rawBuf \in Seq(Byte), NEW f \in 1 .. NumRec, NEW o \in Nat, given[f] \in Nat,
           FieldAt(rawBuf, given, o, f)
    PROVE  LET v == o + NameLen[f] + 2
           IN  /\ v \in Nat /\ v + given[f] + 2 <= Len(rawBuf)
               /\ At(o) = Num(NameLen[f]) /\ At(v) = Num(given[f])
               /\ At(v + 1 + given[f]) = Nul
               /\ \A k \in 1 .. NameLen[f] : At(o + 1 + k - 1) = <<InName, f, k>>
               /\ \A k \in 1 .. given[f] : At(v + 1 + k - 1) = <<InValue, f, k>>
<1> DEFINE v == o + NameLen[f] + 2
           p == NameLen[f]
           n == given[f]
           l == Len(rawBuf)
<1>1. p \in Nat /\ n \in Nat /\ l \in Nat /\ v \in Nat /\ v = o + p + 2
  BY LengthsType
<1>2. /\ v + n + 2 <= l
      /\ rawBuf[o + 1] = Num(p) /\ rawBuf[v + 1] = Num(n) /\ rawBuf[v + n + 2] = Nul
      /\ \A k \in 1 .. p : rawBuf[o + 1 + k] = <<InName, f, k>>
      /\ \A k \in 1 .. n : rawBuf[v + 1 + k] = <<InValue, f, k>>
  BY DEF FieldAt
<1>3. \A i \in Nat : i < l => At(i) = rawBuf[i + 1]
  BY DEF At
<1> HIDE DEF p, n, l, v
<1>4. v \in Nat /\ n \in Nat /\ l \in Nat /\ v + n + 2 <= l
  BY <1>1, <1>2
<1>5. At(o) = Num(p) /\ At(v) = Num(n)
  <2>1. o \in Nat /\ o < l /\ v \in Nat /\ v < l
    BY <1>1, <1>2
  <2> QED
    BY <1>2, <1>3, <2>1
<1>6. At(v + 1 + n) = Nul
  <2> DEFINE i == v + 1 + n
  <2>1. i \in Nat /\ i < l /\ i + 1 = v + n + 2
    BY <1>4
  <2> HIDE DEF i
  <2>2. At(i) = rawBuf[v + n + 2]
    BY <1>3, <2>1
  <2>3. At(i) = Nul
    BY <1>2, <2>2
  <2> QED
    BY <2>3 DEF i
<1>7. ASSUME NEW k \in 1 .. p PROVE At(o + 1 + k - 1) = <<InName, f, k>>
  <2> DEFINE i == o + 1 + k - 1
  <2>1. i \in Nat /\ i < l /\ i + 1 = o + 1 + k
    BY <1>1, <1>2
  <2> HIDE DEF i
  <2>2. At(i) = rawBuf[o + 1 + k]
    BY <1>3, <2>1
  <2>3. At(i) = <<InName, f, k>>
    BY <1>2, <2>2
  <2> QED
    BY <2>3 DEF i
<1>8. ASSUME NEW k \in 1 .. n PROVE At(v + 1 + k - 1) = <<InValue, f, k>>
  <2> DEFINE i == v + 1 + k - 1
  <2>1. i \in Nat /\ i < l /\ i + 1 = v + 1 + k
    BY <1>4
  <2> HIDE DEF i
  <2>2. At(i) = rawBuf[v + 1 + k]
    BY <1>3, <2>1
  <2>3. At(i) = <<InValue, f, k>>
    BY <1>2, <2>2
  <2> QED
    BY <2>3 DEF i
<1> QED
  BY <1>1, <1>2, <1>5, <1>6, <1>7, <1>8 DEF p, n, l, v

(* What the layout says of a field of a message that is not empty.         *)
LEMMA FieldOfLayout ==
    ASSUME CodecTypeOK, NEW at, Layout(rawBuf, given, at), NEW f \in 1 .. Len(given)
    PROVE  /\ f \in 1 .. NumRec /\ at[f] \in Nat /\ given[f] \in Nat /\ NameLen[f] \in Nat
           /\ at[f + 1] = at[f] + NameLen[f] + given[f] + 4
           /\ FieldAt(rawBuf, given, at[f], f)
<1>1. given \in Seq(ValueLen) /\ Len(given) <= NumRec /\ Len(given) \in Nat
  BY DEF CodecTypeOK
<1>2. f \in 1 .. NumRec /\ f \in 1 .. Len(given) + 1
  BY <1>1, LengthsType
<1>3. at \in [1 .. Len(given) + 1 -> Nat]
  BY DEF Layout
<1>4. at[f] \in Nat
  BY <1>2, <1>3
<1>5. given[f] \in Nat
  BY <1>1, LengthsType, ElementOfSeq
<1>6. NameLen[f] \in Nat
  BY <1>2, LengthsType
<1> QED
  BY <1>2, <1>4, <1>5, <1>6 DEF Layout

(* A turn of parse_packet's loop takes out the next field.                 *)
LEMMA ParseFieldInv ==
    ASSUME MessageInv, ParseField
    PROVE  MessageInv'
<1> DEFINE f == Len(got) + 1
           R == [name : Nat, nameLen : Nat, value : Nat, valueLen : Nat]
<1>1. PICK at : Layout(rawBuf, given, at) /\ Reading(at) /\ Taken(at)
  BY DEF MessageInv
<1>2. /\ next # 0 /\ Len(got) < NumRec
      /\ given' = given /\ rawBuf' = rawBuf /\ lenBuf' = lenBuf
  BY DEF ParseField
<1>3. /\ CodecTypeOK /\ rawBuf \in Seq(Byte) /\ got \in Seq(R)
      /\ lenBuf = Len(rawBuf) /\ NumRec \in Nat
  BY LengthsType DEF MessageInv, CodecTypeOK
<1>4. /\ Len(given) = NumRec /\ at[NumRec + 1] = lenBuf - 1
      /\ rawBuf[lenBuf] = End /\ next = at[f]
  BY <1>1, <1>2 DEF Reading
<1>5. Len(got) \in Nat /\ f \in 1 .. Len(given)
  BY <1>2, <1>3, <1>4
<1>6. f = Len(got) + 1
  OBVIOUS
<1> HIDE DEF f
<1>7. /\ f \in 1 .. NumRec /\ at[f] \in Nat /\ given[f] \in Nat /\ NameLen[f] \in Nat
      /\ at[f + 1] = at[f] + NameLen[f] + given[f] + 4
      /\ FieldAt(rawBuf, given, at[f], f)
  BY <1>1, <1>3, <1>5, FieldOfLayout
<1> DEFINE w == at[f] + NameLen[f] + 2
<1>8. /\ w \in Nat /\ w + given[f] + 2 <= Len(rawBuf)
      /\ At(at[f]) = Num(NameLen[f]) /\ At(w) = Num(given[f])
  BY <1>3, <1>7, FieldRead
<1>9. /\ next + 1 + At(next)[3] + 1 = w
      /\ At(next)[3] = NameLen[f] /\ At(w)[3] = given[f]
  <2>1. At(next)[3] = NameLen[f] /\ At(w)[3] = given[f]
    BY <1>4, <1>8 DEF Num
  <2>2. next = at[f]
    BY <1>4
  <2> QED
    BY <1>7, <2>1, <2>2
<1> HIDE DEF w
<1>10. /\ got' = Append(got, [name |-> next + 1, nameLen |-> NameLen[f],
                              value |-> w + 1, valueLen |-> given[f]])
       /\ next' = w + 1 + given[f] + 1
  BY <1>9 DEF ParseField
<1>11. next' = at[f + 1] /\ next' \in 0 .. lenBuf'
  <2> DEFINE a == at[f]
             m == NameLen[f]
             n == given[f]
             l == Len(rawBuf)
  <2>1. /\ a \in Nat /\ m \in Nat /\ n \in Nat /\ l \in Nat
        /\ w = a + m + 2 /\ w + n + 2 <= l
        /\ at[f + 1] = a + m + n + 4 /\ next' = w + 1 + n + 1 /\ lenBuf' = l
    BY <1>2, <1>3, <1>7, <1>8, <1>10 DEF w
  <2> HIDE DEF a, m, n, l
  <2> QED
    BY <2>1
<1> DEFINE e == FieldOf(at[f], f)
<1>12. e \in R /\ got' = Append(got, e)
  <2>1. next + 1 = at[f] + 1 /\ w + 1 = at[f] + NameLen[f] + 3
    BY <1>4, <1>7 DEF w
  <2>2. at[f] + 1 \in Nat /\ at[f] + NameLen[f] + 3 \in Nat
    BY <1>7
  <2>3. e = [name |-> at[f] + 1, nameLen |-> NameLen[f],
             value |-> at[f] + NameLen[f] + 3, valueLen |-> given[f]]
    BY DEF FieldOf
  <2>4. e \in R
    BY <1>7, <2>2, <2>3
  <2> QED
    BY <1>10, <2>1, <2>3, <2>4
<1> HIDE DEF e
<1>13. /\ got' \in Seq(R) /\ Len(got') = f /\ got'[f] = e
       /\ \A i \in 1 .. Len(got) : got'[i] = got[i]
  <2> HIDE DEF R
  <2> QED
    BY <1>3, <1>6, <1>12, AppendProperties
<1>14. CodecTypeOK'
  <2>1. CodecTypeOK
    BY <1>3
  <2> QED
    BY <1>2, <1>11, <1>13, <2>1 DEF CodecTypeOK
<1>15. Layout(rawBuf, given, at)'
  BY <1>1, <1>2
<1>16. Reading(at)'
  <2>1. next' # 0
    BY <1>7, <1>11
  <2>2. Len(got') <= NumRec
    BY <1>3, <1>7, <1>13
  <2> QED
    BY <1>2, <1>4, <1>11, <1>13, <2>1, <2>2 DEF Reading
<1>17. Taken(at)'
  <2> SUFFICES ASSUME NEW i \in 1 .. f PROVE got'[i] = FieldOf(at[i], i)
    BY <1>2, <1>13 DEF Taken, FieldOf
  <2>1. CASE i = f
    BY <1>13, <2>1 DEF e
  <2>2. CASE i # f
    <3>1. i \in 1 .. Len(got)
      BY <1>5, <1>6, <2>2
    <3> QED
      BY <1>1, <1>13, <3>1 DEF Taken
  <2> QED
    BY <2>1, <2>2
<1> QED
  BY <1>14, <1>15, <1>16, <1>17 DEF MessageInv

(* The invariant of the message.                                           *)
LEMMA MessageInvCorrect == Spec => []MessageInv
<1>1. Init => MessageInv
  <2> SUFFICES ASSUME Init PROVE MessageInv
    OBVIOUS
  <2>1. /\ given = <<>> /\ got = <<>> /\ next = 0
        /\ rawBuf = <<Begin, Num(NumRec)>> /\ lenBuf = 2
    BY DEF Init, CodecInit
  <2>2. NumRec \in Nat
    BY LengthsType
  <2>3. Begin \in Byte /\ Num(NumRec) \in Byte
    BY <2>2 DEF Begin, Num, Byte
  <2>4. CodecTypeOK
    <3>1. rawBuf \in Seq(Byte) /\ Len(rawBuf) = 2
      BY <2>1, <2>3
    <3>2. given \in Seq(ValueLen) /\ Len(given) = 0
      BY <2>1
    <3>3. got \in Seq([name : Nat, nameLen : Nat, value : Nat, valueLen : Nat])
      BY <2>1
    <3> QED
      BY <2>1, <2>2, <3>1, <3>2, <3>3 DEF CodecTypeOK
  <2> DEFINE at == [i \in 1 .. 1 |-> 2]
  <2>5. at \in [1 .. 1 -> Nat] /\ at[1] = 2 /\ Len(given) = 0 /\ Len(got) = 0
    BY <2>1
  <2> HIDE DEF at
  <2>6. Layout(rawBuf, given, at)
    BY <2>5 DEF Layout
  <2>7. Reading(at) /\ Taken(at)
    BY <2>1, <2>5 DEF Reading, Taken
  <2> QED
    BY <2>4, <2>6, <2>7 DEF MessageInv
<1>2. MessageInv /\ [Next]_vars => MessageInv'
  <2> SUFFICES ASSUME MessageInv, [Next]_vars PROVE MessageInv'
    OBVIOUS
  <2>1. ASSUME UNCHANGED codecVars PROVE MessageInv'
    BY <2>1 DEF codecVars, MessageInv, CodecTypeOK, Reading, Taken, FieldOf
  <2>2. CASE CodecNext
    BY <2>2, AddRecordInv, FinishInv, ParseFieldInv DEF CodecNext
  <2> QED
    BY <2>1, <2>2 DEF Next, vars
<1> QED
  BY <1>1, <1>2, PTL DEF Spec

(* What the server reads from a field that was taken out.                  *)
LEMMA FieldTaken ==
    ASSUME MessageInv, NEW f \in DOMAIN got
    PROVE  /\ given[f] \in Nat /\ NameLen[f] \in Nat
           /\ got[f].nameLen = NameLen[f] /\ got[f].valueLen = given[f]
           /\ got[f].value \in Nat
           /\ got[f].value + given[f] + 1 <= Len(rawBuf)
           /\ At(got[f].value + given[f]) = Nul
           /\ \A k \in 1 .. NameLen[f] : At(got[f].name + k - 1) = <<InName, f, k>>
           /\ \A k \in 1 .. given[f] : At(got[f].value + k - 1) = <<InValue, f, k>>
<1>1. PICK at : Layout(rawBuf, given, at) /\ Reading(at) /\ Taken(at)
  BY DEF MessageInv
<1>2. /\ CodecTypeOK /\ rawBuf \in Seq(Byte)
      /\ got \in Seq([name : Nat, nameLen : Nat, value : Nat, valueLen : Nat])
  BY DEF MessageInv, CodecTypeOK
<1>3. f \in 1 .. Len(got) /\ Len(got) \in Nat /\ Len(got) # 0
  BY <1>2
<1>4. Len(given) = NumRec /\ Len(got) <= NumRec
  <2>1. got # <<>>
    BY <1>3
  <2> QED
    BY <1>1, <2>1 DEF Reading
<1>5. f \in 1 .. Len(given)
  BY <1>3, <1>4, LengthsType
<1>6. /\ f \in 1 .. NumRec /\ at[f] \in Nat /\ given[f] \in Nat /\ NameLen[f] \in Nat
      /\ FieldAt(rawBuf, given, at[f], f)
  BY <1>1, <1>2, <1>5, FieldOfLayout
<1>7. got[f] = FieldOf(at[f], f)
  BY <1>1, <1>3 DEF Taken
<1> DEFINE v == at[f] + NameLen[f] + 2
<1>8. /\ v \in Nat /\ v + given[f] + 2 <= Len(rawBuf)
      /\ At(v + 1 + given[f]) = Nul
      /\ \A k \in 1 .. NameLen[f] : At(at[f] + 1 + k - 1) = <<InName, f, k>>
      /\ \A k \in 1 .. given[f] : At(v + 1 + k - 1) = <<InValue, f, k>>
  BY <1>2, <1>6, FieldRead
<1>9. /\ got[f].name = at[f] + 1 /\ got[f].nameLen = NameLen[f]
      /\ got[f].value = v + 1 /\ got[f].valueLen = given[f]
  BY <1>6, <1>7 DEF FieldOf
<1> HIDE DEF v
<1>10. v + 1 + given[f] + 1 <= Len(rawBuf) /\ v + 1 \in Nat
  <2> DEFINE n == given[f]
             l == Len(rawBuf)
  <2>1. v \in Nat /\ n \in Nat /\ l \in Nat /\ v + n + 2 <= l
    BY <1>2, <1>6, <1>8
  <2> HIDE DEF n, l
  <2>2. v + 1 + n + 1 <= l
    BY <2>1
  <2> QED
    BY <2>1, <2>2 DEF n, l
<1> QED
  BY <1>6, <1>8, <1>9, <1>10

(* Every value that was put in is taken out, and nothing is left.          *)
THEOREM RoundTripCorrect == Spec => []RoundTrip
<1>1. MessageInv => RoundTrip
  <2> SUFFICES ASSUME MessageInv PROVE RoundTrip
    OBVIOUS
  <2>1. ASSUME NEW f \in DOMAIN got
        PROVE  /\ ByLength(got[f].name, got[f].nameLen) = String(InName, f, NameLen[f])
               /\ ByLength(got[f].value, got[f].valueLen) = String(InValue, f, given[f])
    BY FieldTaken DEF ByLength, String
  <2>2. PICK at : Layout(rawBuf, given, at) /\ Reading(at) /\ Taken(at)
    BY DEF MessageInv
  <2>3. /\ CodecTypeOK /\ rawBuf \in Seq(Byte) /\ lenBuf = Len(rawBuf)
        /\ Len(got) \in Nat /\ next \in 0 .. lenBuf /\ Len(rawBuf) \in Nat
    BY DEF MessageInv, CodecTypeOK
  <2>4. ASSUME next # 0, Len(got) < NumRec PROVE IsNum(At(next))
    <3> DEFINE f == Len(got) + 1
    <3>1. f \in 1 .. Len(given) /\ next = at[f]
      BY <2>2, <2>3, <2>4, LengthsType DEF Reading
    <3> HIDE DEF f
    <3>2. /\ f \in 1 .. NumRec /\ at[f] \in Nat /\ given[f] \in Nat
          /\ FieldAt(rawBuf, given, at[f], f)
      BY <2>2, <2>3, <3>1, FieldOfLayout
    <3>3. At(at[f]) = Num(NameLen[f])
      BY <2>3, <3>2, FieldRead
    <3> QED
      BY <3>1, <3>3 DEF IsNum, Num
  <2>5. ASSUME Len(got) = NumRec PROVE At(next) = End /\ next = lenBuf - 1
    <3>1. next # 0
      <4>1. got # <<>>
        BY <2>5, LengthsType
      <4> QED
        BY <2>2, <4>1 DEF Reading
    <3>2. next = lenBuf - 1 /\ rawBuf[lenBuf] = End
      BY <2>2, <2>5, <3>1 DEF Reading
    <3>3. next < Len(rawBuf) /\ next + 1 = lenBuf
      BY <2>3, <3>2
    <3> QED
      BY <3>2, <3>3 DEF At
  <2> QED
    BY <2>1, <2>4, <2>5 DEF RoundTrip
<1> QED
  BY <1>1, MessageInvCorrect, PTL

(* A value ends where its length says, for either way of reading it.       *)
THEOREM ReadingsAgreeCorrect == Spec => []ReadingsAgree
<1>1. MessageInv => ReadingsAgree
  <2> SUFFICES ASSUME MessageInv, NEW f \in DOMAIN got
               PROVE  UpToNul(got[f].value) = ByLength(got[f].value, got[f].valueLen)
    BY DEF ReadingsAgree
  <2> DEFINE o == got[f].value
             n == given[f]
             l == Len(rawBuf)
             Ends(e) == At(e) = Nul /\ \A i \in o .. e - 1 : At(i) # Nul
  <2>1. rawBuf \in Seq(Byte) /\ l \in Nat
    BY DEF MessageInv, CodecTypeOK
  <2>2. /\ n \in Nat /\ o \in Nat /\ got[f].valueLen = n
        /\ o + n + 1 <= l /\ At(o + n) = Nul
        /\ \A k \in 1 .. n : At(o + k - 1) = <<InValue, f, k>>
    BY FieldTaken
  <2>3. EndsAt(o) = CHOOSE e \in o .. l : Ends(e)
    BY DEF EndsAt
  <2> HIDE DEF o, n, l
  <2>4. \A i \in o .. o + n - 1 : At(i) # Nul
    <3> SUFFICES ASSUME NEW i \in o .. o + n - 1 PROVE At(i) # Nul
      OBVIOUS
    <3> DEFINE k == i - o + 1
    <3>1. k \in 1 .. n /\ i = o + k - 1
      BY <2>2
    <3> HIDE DEF k
    <3>2. At(o + k - 1) = <<InValue, f, k>>
      BY <2>2, <3>1
    <3>3. <<InValue, f, k>> # Nul
      BY DEF InValue, Nul, Num
    <3> QED
      BY <3>1, <3>2, <3>3
  <2>5. o + n \in o .. l /\ Ends(o + n)
    BY <2>1, <2>2, <2>4
  <2>6. ASSUME NEW e \in o .. l, Ends(e) PROVE e = o + n
    <3>1. ~(e < o + n)
      <4> SUFFICES ASSUME e < o + n PROVE FALSE
        OBVIOUS
      <4>1. e \in o .. o + n - 1
        BY <2>1, <2>2
      <4> QED
        BY <2>4, <2>6, <4>1
    <3>2. ~(o + n < e)
      <4> SUFFICES ASSUME o + n < e PROVE FALSE
        OBVIOUS
      <4>1. o + n \in o .. e - 1
        BY <2>1, <2>2
      <4> QED
        BY <2>2, <2>6, <4>1
    <3> QED
      BY <2>1, <2>2, <3>1, <3>2
  <2> HIDE DEF Ends
  <2>7. EndsAt(o) = o + n
    BY <2>3, <2>5, <2>6
  <2>8. EndsAt(o) - o = n
    BY <2>2, <2>7
  <2> QED
    BY <2>2, <2>8 DEF UpToNul, o
<1> QED
  BY <1>1, MessageInvCorrect, PTL

(* Type correctness of what the server reads.                              *)
THEOREM TypeCorrect == Spec => []TypeOK
<1>1. MessageInv => CodecTypeOK
  BY DEF MessageInv
<1>2. KInv => ConfigTypeOK
  BY DEF KInv
<1>3. CInv => CrcTypeOK
  BY DEF CInv
<1>4. CodecTypeOK /\ ConfigTypeOK /\ CrcTypeOK => TypeOK
  BY DEF TypeOK
<1> QED
  BY <1>1, <1>2, <1>3, <1>4, MessageInvCorrect, KInvCorrect, CInvCorrect, PTL
=============================================================================
