----------------------------- MODULE SpoolProofs -----------------------------
(***************************************************************************)
(* Proofs about the bytes of .cul.b, for any records, lengths, faults and  *)
(* kills: until a write is cut short the file is a sequence of whole       *)
(* records, and what is sent and accepted is one of them; after that it is *)
(* still one of them, if no record exceeds another by more than a Wrapper; *)
(* and until something is lost the bytes implement the queue of Reporting. *)
(***************************************************************************)
EXTENDS Spool, SelectionProofs, SequenceTheorems, TLAPS

(* A cell is one of the cells of its record.                               *)
LEMMA CellShape ==
    ASSUME NEW x \in Cell
    PROVE  x[1] \in Msg /\ x[2] \in 0 .. LenOf[x[1]] /\ LenOf[x[1]] \in Nat \ {0, 1}
<1>1. PICK m \in Msg : x \in {m} \X (0 .. LenOf[m])
  BY DEF Cell
<1> QED
  BY <1>1, LenAssumption

(* The cells of a payload.                                                 *)
LEMMA PayloadShape ==
    ASSUME NEW m \in Msg
    PROVE  /\ Payload(m) \in Seq(Cell) /\ Len(Payload(m)) = LenOf[m] /\ LenOf[m] \in Nat \ {0, 1}
           /\ \A k \in 1 .. LenOf[m] : Payload(m)[k] = <<m, k>>
<1>1. LenOf[m] \in Nat \ {0, 1}
  BY LenAssumption
<1>2. \A k \in 0 .. LenOf[m] : <<m, k>> \in Cell
  BY DEF Cell
<1>3. Payload(m) \in [1 .. LenOf[m] -> Cell]
  BY <1>1, <1>2 DEF Payload
<1> QED
  BY <1>1, <1>3, SeqDef DEF Payload

(* The cells of a record: its Wrapper and its payload.                     *)
LEMMA BytesShape ==
    ASSUME NEW m \in Msg
    PROVE  /\ Bytes(m) \in Seq(Cell) /\ Len(Bytes(m)) = LenOf[m] + 1
           /\ \A k \in 1 .. LenOf[m] + 1 : Bytes(m)[k] = <<m, k - 1>>
<1>1. Wrap(m) \in Cell /\ LenOf[m] \in Nat
  BY LenAssumption DEF Wrap, Cell
<1>2. <<Wrap(m)>> \in Seq(Cell) /\ Len(<<Wrap(m)>>) = 1 /\ <<Wrap(m)>>[1] = <<m, 0>>
  BY <1>1 DEF Wrap
<1>3. /\ Bytes(m) \in Seq(Cell) /\ Len(Bytes(m)) = 1 + LenOf[m]
      /\ \A k \in 1 .. 1 + LenOf[m] :
            Bytes(m)[k] = IF k <= 1 THEN <<Wrap(m)>>[k] ELSE Payload(m)[k - 1]
  BY <1>2, PayloadShape, ConcatProperties DEF Bytes
<1>4. ASSUME NEW k \in 1 .. LenOf[m] + 1 PROVE Bytes(m)[k] = <<m, k - 1>>
  <2>1. CASE k = 1
    BY <1>1, <1>2, <1>3, <2>1
  <2>2. CASE k # 1
    <3>1. k - 1 \in 1 .. LenOf[m] /\ ~(k <= 1) /\ k \in 1 .. 1 + LenOf[m]
      BY <1>1, <2>2
    <3> QED
      BY <1>3, <3>1, PayloadShape
  <2> QED
    BY <2>1, <2>2
<1> QED
  BY <1>1, <1>3, <1>4

(* write_log keeps an intact file intact.                                  *)
LEMMA IntactAppend ==
    ASSUME NEW f \in Seq(Cell), Intact(f), NEW m \in Msg
    PROVE  Intact(f \o Bytes(m))
<1> DEFINE g == f \o Bytes(m)
           n == Len(f)
           l == LenOf[m]
<1>1. n \in Nat /\ l \in Nat
  BY LenAssumption
<1>2. /\ Len(g) = n + (l + 1)
      /\ \A k \in 1 .. n + (l + 1) : g[k] = IF k <= n THEN f[k] ELSE Bytes(m)[k - n]
  BY BytesShape, ConcatProperties
<1>3. \A k \in 1 .. n : g[k] = f[k]
  BY <1>1, <1>2
<1>a. \A j \in 1 .. l + 1 : Bytes(m)[j] = <<m, j - 1>>
  BY BytesShape
<1>b. /\ f # <<>> => IsWrapper(f[1])
      /\ \A i \in 1 .. n : IsWrapper(f[i]) =>
            /\ End(f, i) <= n
            /\ \A k \in i .. End(f, i) : f[k] = <<f[i][1], k - i>>
            /\ End(f, i) < n => IsWrapper(f[End(f, i) + 1])
  BY DEF Intact
<1>c. \A i \in 1 .. n : f[i] \in Cell
  BY ElementOfSeq
<1>d. f # <<>> <=> n # 0
  BY EmptySeq
<1> SUFFICES Intact(g)
  OBVIOUS
<1> HIDE DEF g, n
<1>4. \A k \in n + 1 .. n + l + 1 : g[k] = <<m, k - n - 1>>
  <2> SUFFICES ASSUME NEW k \in n + 1 .. n + l + 1 PROVE g[k] = <<m, k - n - 1>>
    OBVIOUS
  <2>1. k - n \in 1 .. l + 1 /\ ~(k <= n) /\ k \in 1 .. n + (l + 1)
    BY <1>1
  <2>2. g[k] = Bytes(m)[k - n]
    BY <1>2, <2>1
  <2>3. Bytes(m)[k - n] = <<m, (k - n) - 1>>
    BY <1>a, <2>1
  <2> QED
    BY <2>2, <2>3
<1>5. IsWrapper(g[1])
  <2>1. CASE n = 0
    BY <1>1, <1>4, <2>1 DEF IsWrapper
  <2>2. CASE n # 0
    <3>1. f # <<>> /\ 1 \in 1 .. n
      BY <1>1, <1>d, <2>2
    <3> QED
      BY <1>3, <1>b, <3>1
  <2> QED
    BY <2>1, <2>2
<1>6. ASSUME NEW i \in 1 .. Len(g), IsWrapper(g[i])
      PROVE  /\ End(g, i) <= Len(g)
             /\ \A k \in i .. End(g, i) : g[k] = <<g[i][1], k - i>>
             /\ End(g, i) < Len(g) => IsWrapper(g[End(g, i) + 1])
  <2>1. CASE i <= n
    <3>1. i \in 1 .. n /\ g[i] = f[i] /\ End(g, i) = End(f, i)
      BY <1>1, <1>2, <1>3, <2>1 DEF End
    <3>2. /\ End(f, i) <= n /\ End(f, i) \in Nat
          /\ \A k \in i .. End(f, i) : f[k] = <<f[i][1], k - i>>
          /\ End(f, i) < n => IsWrapper(f[End(f, i) + 1])
      <4>1. f[i] \in Cell
        BY <1>c, <3>1
      <4>2. End(f, i) \in Nat
        BY <3>1, <4>1, CellShape DEF End
      <4>3. IsWrapper(f[i])
        BY <1>6, <3>1
      <4> QED
        BY <1>b, <3>1, <4>2, <4>3
    <3>3. \A k \in i .. End(g, i) : g[k] = <<g[i][1], k - i>>
      <4> SUFFICES ASSUME NEW k \in i .. End(g, i) PROVE g[k] = <<g[i][1], k - i>>
        OBVIOUS
      <4>1. k \in 1 .. n /\ k \in i .. End(f, i)
        BY <1>1, <3>1, <3>2
      <4> QED
        BY <1>3, <3>1, <3>2, <4>1
    <3>4. CASE End(f, i) = n
      <4>1. n + 1 \in n + 1 .. n + l + 1
        BY <1>1
      <4>a. \A k : k = n + 1 => k - n - 1 = 0
        BY <1>1
      <4>2. g[n + 1] = <<m, 0>>
        BY <1>4, <4>1, <4>a
      <4>3. IsWrapper(g[n + 1])
        BY <4>2 DEF IsWrapper
      <4>4. n <= Len(g)
        BY <1>1, <1>2
      <4> QED
        BY <3>1, <3>3, <3>4, <4>3, <4>4
    <3>5. CASE End(f, i) # n
      <4>1. End(f, i) + 1 \in 1 .. n /\ End(f, i) < n /\ End(f, i) <= Len(g)
        BY <1>1, <1>2, <3>2, <3>5
      <4>2. IsWrapper(f[End(f, i) + 1])
        BY <3>2, <4>1
      <4>3. IsWrapper(g[End(f, i) + 1])
        BY <1>3, <4>1, <4>2
      <4> QED
        BY <3>1, <3>3, <4>1, <4>3
    <3> QED
      BY <3>4, <3>5
  <2>2. CASE ~(i <= n)
    <3>1. i \in n + 1 .. n + l + 1
      BY <1>1, <1>2, <2>2
    <3>2. g[i] = <<m, i - n - 1>>
      BY <1>4, <3>1
    <3>3. i = n + 1 /\ g[i][1] = m
      BY <1>1, <1>6, <3>1, <3>2 DEF IsWrapper
    <3>4. End(g, i) = n + l + 1
      BY <1>1, <3>3 DEF End
    <3>5. \A k \in i .. End(g, i) : g[k] = <<g[i][1], k - i>>
      BY <1>1, <1>4, <3>3, <3>4
    <3>6. Len(g) \in Nat /\ End(g, i) = Len(g)
      BY <1>1, <1>2, <3>4
    <3>7. End(g, i) <= Len(g) /\ ~(End(g, i) < Len(g))
      BY <3>6
    <3> QED
      BY <3>5, <3>7
  <2> QED
    BY <2>1, <2>2
<1> QED
  BY <1>5, <1>6 DEF Intact

(* A slice of a file is a piece of a file.                                 *)
LEMMA SliceType ==
    ASSUME NEW f \in Seq(Cell), NEW i \in Nat \ {0}, NEW j \in Nat, j <= Len(f)
    PROVE  SubSeq(f, i, j) \in Seq(Cell) /\ Len(SubSeq(f, i, j)) = IF i <= j THEN j - i + 1 ELSE 0
<1>1. \A k \in i .. j : f[k] \in Cell
  BY ElementOfSeq
<1> QED
  BY <1>1, SubSeqProperties

(* The cells of a slice.                                                   *)
LEMMA SliceCells ==
    ASSUME NEW f \in Seq(Cell), NEW i \in Nat \ {0}, NEW j \in Nat, j <= Len(f)
    PROVE  /\ SubSeq(f, i, j) \in Seq(Cell)
           /\ Len(SubSeq(f, i, j)) = IF i <= j THEN j - i + 1 ELSE 0
           /\ \A k \in 1 .. j - i + 1 : SubSeq(f, i, j)[k] = f[i + k - 1]
<1>1. i \in Int /\ j \in Int
  OBVIOUS
<1>2. \A k \in i .. j : f[k] \in Cell
  BY ElementOfSeq
<1> QED
  BY <1>1, <1>2, SubSeqProperties

(* What is left of a file after a cell is its later cells, in order.       *)
LEMMA SliceFrom ==
    ASSUME NEW f \in Seq(Cell), NEW e \in Nat, e <= Len(f)
    PROVE  /\ SubSeq(f, e + 1, Len(f)) \in Seq(Cell)
           /\ Len(SubSeq(f, e + 1, Len(f))) = Len(f) - e
           /\ \A k \in 1 .. Len(f) - e : SubSeq(f, e + 1, Len(f))[k] = f[k + e]
<1> DEFINE n == Len(f)
           o == e + 1
           g == SubSeq(f, o, n)
<1>1. n \in Nat /\ n = Len(f) /\ o \in Nat \ {0} /\ o = e + 1 /\ n <= Len(f) /\ e <= n
  OBVIOUS
<1> HIDE DEF n, o
<1>2. /\ g \in Seq(Cell) /\ Len(g) = IF o <= n THEN n - o + 1 ELSE 0
      /\ \A k \in 1 .. n - o + 1 : g[k] = f[o + k - 1]
  <2>1. n <= Len(f) /\ n \in Nat /\ o \in Nat \ {0}
    BY <1>1
  <2> QED
    BY <2>1, SliceCells
<1> HIDE DEF g
<1>3. Len(g) = n - e
  <2>1. (IF o <= n THEN n - o + 1 ELSE 0) = n - e
    BY <1>1
  <2> QED
    BY <1>2, <2>1
<1>4. ASSUME NEW k \in 1 .. n - e PROVE g[k] = f[k + e]
  <2>1. k \in 1 .. n - o + 1 /\ o + k - 1 = k + e
    BY <1>1
  <2> QED
    BY <1>2, <2>1
<1>5. g = SubSeq(f, e + 1, Len(f)) /\ n - e = Len(f) - e
  BY <1>1 DEF g
<1> QED
  BY <1>2, <1>3, <1>4, <1>5

(* The first record of an intact file is whole, and what follows is intact.*)
LEMMA IntactRest ==
    ASSUME NEW f \in Seq(Cell), Intact(f), f # <<>>
    PROVE  /\ f[1] \in Cell /\ End(f, 1) <= Len(f)
           /\ SubSeq(f, 2, End(f, 1)) = Payload(f[1][1])
           /\ Intact(SubSeq(f, End(f, 1) + 1, Len(f)))
<1> DEFINE n == Len(f)
           e == End(f, 1)
           g == SubSeq(f, e + 1, n)
           h == SubSeq(f, 2, e)
<1>1. n \in Nat /\ 1 \in 1 .. n
  BY EmptySeq
<1>2. f[1] \in Cell /\ f[1][1] \in Msg
  BY <1>1, ElementOfSeq, CellShape
<1>3. e \in Nat /\ e >= 3 /\ e = LenOf[f[1][1]] + 1
  BY <1>2, CellShape DEF End
<1>4. /\ e <= n /\ \A k \in 1 .. e : f[k] = <<f[1][1], k - 1>>
      /\ e < n => IsWrapper(f[e + 1])
  BY <1>1 DEF Intact
<1>5. /\ g \in Seq(Cell) /\ Len(g) = n - e
      /\ \A k \in 1 .. n - e : g[k] = f[k + e]
  <2>1. e \in Nat /\ e <= Len(f)
    BY <1>3, <1>4
  <2> HIDE DEF e
  <2> QED
    BY <2>1, SliceFrom
<1>a. /\ \A i \in 1 .. n : f[i] \in Cell
      /\ \A i \in 1 .. n : IsWrapper(f[i]) =>
            /\ End(f, i) <= n
            /\ \A k \in i .. End(f, i) : f[k] = <<f[i][1], k - i>>
            /\ End(f, i) < n => IsWrapper(f[End(f, i) + 1])
  BY ElementOfSeq DEF Intact
<1>6. h = Payload(f[1][1])
  <2>1. \A k \in 2 .. e : f[k] \in Cell
    BY <1>1, <1>3, <1>4, ElementOfSeq
  <2>2. /\ h \in Seq(Cell) /\ Len(h) = e - 1
        /\ \A k \in 1 .. e - 1 : h[k] = f[k + 1]
    <3>1. /\ h \in Seq(Cell) /\ Len(h) = IF 2 <= e THEN e - 2 + 1 ELSE 0
          /\ \A k \in 1 .. e - 2 + 1 : h[k] = f[2 + k - 1]
      BY <1>3, <2>1, SubSeqProperties
    <3>2. e - 2 + 1 = e - 1 /\ \A k \in 1 .. e - 1 : 2 + k - 1 = k + 1
      BY <1>3
    <3> QED
      BY <1>3, <3>1, <3>2
  <2>3. \A k \in 1 .. e - 1 : h[k] = <<f[1][1], k>>
    <3> SUFFICES ASSUME NEW k \in 1 .. e - 1 PROVE h[k] = <<f[1][1], k>>
      OBVIOUS
    <3>1. k + 1 \in 1 .. e /\ k + 1 - 1 = k
      BY <1>3
    <3> QED
      BY <1>4, <2>2, <3>1
  <2> DEFINE q == Payload(f[1][1])
  <2>4. /\ q \in Seq(Cell) /\ Len(q) = e - 1
        /\ \A k \in 1 .. e - 1 : q[k] = <<f[1][1], k>>
    <3>1. LenOf[f[1][1]] \in Nat /\ LenOf[f[1][1]] = e - 1
      BY <1>2, <1>3, PayloadShape
    <3> QED
      BY <1>2, <3>1, PayloadShape
  <2> HIDE DEF h, q
  <2>5. \A k \in 1 .. Len(h) : h[k] = q[k]
    BY <2>2, <2>3, <2>4
  <2>6. h = q
    BY <2>2, <2>4, <2>5, SeqEqual
  <2> QED
    BY <2>6 DEF h, q
<1>7. g # <<>> => IsWrapper(g[1])
  <2> SUFFICES ASSUME g # <<>> PROVE IsWrapper(g[1])
    OBVIOUS
  <2>1. e < n
    BY <1>1, <1>3, <1>4, <1>5, EmptySeq
  <2>2. 1 \in 1 .. n - e /\ 1 + e = e + 1
    BY <1>1, <1>3, <2>1
  <2> QED
    BY <1>4, <1>5, <2>1, <2>2
<1> HIDE DEF n, e, g, h
<1>8. ASSUME NEW i \in 1 .. Len(g), IsWrapper(g[i])
      PROVE  /\ End(g, i) <= Len(g)
             /\ \A k \in i .. End(g, i) : g[k] = <<g[i][1], k - i>>
             /\ End(g, i) < Len(g) => IsWrapper(g[End(g, i) + 1])
  <2>0. Len(g) = n - e /\ n \in Nat /\ e \in Nat
    BY <1>1, <1>3, <1>5
  <2>1. i + e \in 1 .. n /\ g[i] = f[i + e] /\ i \in Nat
    <3>1. i \in 1 .. n - e /\ i \in Nat /\ i + e \in 1 .. n
      BY <2>0
    <3> QED
      BY <1>5, <3>1
  <2> DEFINE l == LenOf[g[i][1]]
             a == End(g, i)
             b == End(f, i + e)
  <2>a. l \in Nat
    BY <1>a, <2>1, CellShape
  <2>b. a = i + l /\ b = (i + e) + l
    BY <2>1 DEF End
  <2>3. /\ b <= n
        /\ \A k \in i + e .. b : f[k] = <<g[i][1], k - (i + e)>>
        /\ b < n => IsWrapper(f[b + 1])
    BY <1>8, <1>a, <2>1
  <2> HIDE DEF l, a, b
  <2>d. i \in Nat \ {0} /\ e \in Nat /\ n \in Nat
    BY <1>1, <1>3, <2>1
  <2>2. b = a + e /\ a \in Nat /\ b \in Nat
    BY <2>a, <2>b, <2>d
  <2>c. Len(g) = n - e /\ n - e \in Nat
    BY <1>1, <1>3, <1>4, <1>5
  <2>4. a <= Len(g)
    <3>1. b <= n
      BY <2>3
    <3> QED
      BY <2>c, <2>d, <2>2, <3>1
  <2>5. \A k \in i .. a : g[k] = <<g[i][1], k - i>>
    <3> SUFFICES ASSUME NEW k \in i .. a PROVE g[k] = <<g[i][1], k - i>>
      OBVIOUS
    <3>1. k \in 1 .. n - e /\ k + e \in i + e .. b /\ (k + e) - (i + e) = k - i
      BY <2>c, <2>d, <2>2, <2>4
    <3> QED
      BY <1>5, <2>3, <3>1
  <2>6. a < Len(g) => IsWrapper(g[a + 1])
    <3> SUFFICES ASSUME a < Len(g) PROVE IsWrapper(g[a + 1])
      OBVIOUS
    <3>1. a + 1 \in 1 .. n - e /\ b < n /\ a + 1 + e = b + 1
      BY <2>c, <2>d, <2>2
    <3> QED
      BY <1>5, <2>3, <3>1
  <2> QED
    BY <2>4, <2>5, <2>6 DEF a
<1> QED
  BY <1>2, <1>4, <1>6, <1>7, <1>8 DEF Intact, n, e, g, h

(***************************************************************************)
(* The inductive invariant.  WholeOrComposed says nothing of what is on    *)
(* its way; that was the head of a file that was intact.                   *)
(***************************************************************************)
WholeOnWire == ~torn => \A p \in wire : \E m \in Msg : p = Payload(m)

BInv == TypeOK /\ SpoolIntact /\ WholeOnWire

(* So is a write that was cut short.                                       *)
LEMMA TornType ==
    ASSUME NEW f \in Seq(Cell), NEW s \in Seq(Cell), NEW g \in Torn(f, s)
    PROVE  g \in Seq(Cell)
<1>1. PICK n \in 0 .. Len(s) - 1 : g = f \o SubSeq(s, 1, n)
  BY DEF Torn
<1>2. SubSeq(s, 1, n) \in Seq(Cell)
  BY SliceType
<1> QED
  BY <1>1, <1>2, ConcatProperties

(* What a readable head consists of, whole or not.                         *)
LEMMA HeadShape ==
    ASSUME file \in Seq(Cell), Readable
    PROVE  /\ HeadPayload \in Seq(Cell) /\ HeadPayload # <<>>
           /\ AfterHead \in Seq(Cell)
<1>1. Len(file) \in Nat /\ file # <<>> /\ file[1] \in Cell
  BY EmptySeq, ElementOfSeq DEF Readable
<1> DEFINE l == LenOf[file[1][1]]
<1>2. l \in Nat \ {0, 1}
  BY <1>1, CellShape
<1>3. l <= Len(file) - 1
  BY DEF Readable
<1> HIDE DEF l
<1>4. 2 \in Nat \ {0} /\ l + 1 \in Nat /\ l + 1 <= Len(file) /\ l + 2 \in Nat \ {0}
  BY <1>1, <1>2, <1>3
<1>5. SubSeq(file, 2, l + 1) \in Seq(Cell) /\ Len(SubSeq(file, 2, l + 1)) = l
  <2> DEFINE j == l + 1
  <2>1. j \in Nat /\ j <= Len(file) /\ 2 <= j /\ j - 2 + 1 = l
    BY <1>2, <1>4
  <2> HIDE DEF j
  <2>2. SubSeq(file, 2, j) \in Seq(Cell) /\ Len(SubSeq(file, 2, j)) = IF 2 <= j THEN j - 2 + 1 ELSE 0
    BY <1>4, <2>1, SliceType
  <2> QED
    BY <2>1, <2>2 DEF j
<1>6. SubSeq(file, l + 2, Len(file)) \in Seq(Cell)
  BY <1>1, <1>4, SliceType
<1> QED
  BY <1>2, <1>5, <1>6, EmptySeq DEF HeadPayload, AfterHead, l

(* What the head of an intact file consists of.                            *)
LEMMA WholeHead ==
    ASSUME file \in Seq(Cell), Intact(file), Readable
    PROVE  /\ \E m \in Msg : HeadPayload = Payload(m)
           /\ Intact(AfterHead)
<1>1. file # <<>>
  BY DEF Readable
<1>2. file[1] \in Cell /\ file[1][1] \in Msg /\ LenOf[file[1][1]] \in Nat
  BY <1>1, IntactRest, CellShape
<1>3. End(file, 1) = LenOf[file[1][1]] + 1 /\ End(file, 1) + 1 = LenOf[file[1][1]] + 2
  BY <1>2 DEF End
<1>4. HeadPayload = Payload(file[1][1])
  BY <1>1, <1>3, IntactRest DEF HeadPayload
<1>5. Intact(AfterHead)
  BY <1>1, <1>3, IntactRest DEF AfterHead
<1> QED
  BY <1>2, <1>4, <1>5

(* An empty spool is intact.                                               *)
LEMMA EmptyIntact == Intact(<<>>) /\ <<>> \in Seq(Cell)
  BY DEF Intact

(* BInv holds at the start.                                                *)
LEMMA BInit ==
    ASSUME Init
    PROVE  BInv
<1>1. TypeOK
  <2>1. faults \in 0 .. MaxFaults /\ pc \in {"log", "send", "ack", "rewrite"}
    BY FaultsAssumption DEF Init
  <2>2. torn \in BOOLEAN /\ (torn => lost)
    BY DEF Init
  <2>3. file \in Seq(Cell) /\ pBuf \in Seq(Cell) /\ (pc # "rewrite" => pBuf = <<>>)
    BY EmptyIntact DEF Init
  <2>4. logged \subseteq Msg /\ accepted \subseteq wire /\ \A p \in wire : p \in Seq(Cell) /\ p # <<>>
    BY DEF Init
  <2> QED
    BY <2>1, <2>2, <2>3, <2>4 DEF TypeOK
<1>2. SpoolIntact
  BY EmptyIntact DEF Init, SpoolIntact
<1>3. WholeOnWire
  BY DEF Init, WholeOnWire
<1> QED
  BY <1>1, <1>2, <1>3 DEF BInv

(* A step of the loop that neither writes the file nor sends.              *)
LEMMA BSame ==
    ASSUME BInv, UNCHANGED <<file, pBuf, torn, wire>>, TypeOK'
    PROVE  BInv'
  BY DEF BInv, SpoolIntact, WholeOnWire

(* Every step keeps BInv.                                                  *)
LEMMA BNext ==
    ASSUME BInv, [Next]_vars
    PROVE  BInv'
<1> USE DEF BInv
<1>1. ASSUME NEW m \in Msg, WriteLog(m) PROVE BInv'
  <2>1. Bytes(m) \in Seq(Cell)
    BY BytesShape
  <2>2. file' \in Seq(Cell)
    <3>1. CASE file' = file \o Bytes(m)
      BY <2>1, <3>1, ConcatProperties DEF TypeOK
    <3>2. CASE file' \in Torn(file, Bytes(m))
      BY <2>1, <3>2, TornType DEF TypeOK
    <3> QED
      BY <1>1, <3>1, <3>2 DEF WriteLog
  <2>3. TypeOK'
    <3>1. faults' \in 0 .. MaxFaults
      BY <1>1, FaultsAssumption DEF TypeOK, WriteLog, CutShort, Fault
    <3>2. torn' \in BOOLEAN /\ (torn' => lost')
      <4>1. (torn' = torn /\ lost' = lost) \/ (torn' = TRUE /\ lost' = TRUE)
        BY <1>1 DEF WriteLog, CutShort
      <4>2. torn \in BOOLEAN /\ (torn => lost)
        BY DEF TypeOK
      <4>3. CASE torn' = torn /\ lost' = lost
        <5>1. torn' \in BOOLEAN
          BY <4>2, <4>3
        <5>2. ASSUME torn' PROVE lost'
          <6>1. torn
            BY <4>3, <5>2
          <6>2. lost
            BY <4>2, <6>1
          <6> QED
            BY <4>3, <6>2
        <5> QED
          BY <5>1, <5>2
      <4> QED
        BY <4>1, <4>3
    <3>3. pc' \in {"log", "send", "ack", "rewrite"} /\ pBuf' = pBuf /\ pBuf = <<>>
      BY <1>1 DEF TypeOK, WriteLog
    <3>4. logged' \subseteq Msg /\ accepted' = accepted /\ wire' = wire
      BY <1>1 DEF TypeOK, WriteLog
    <3> QED
      BY <2>2, <3>1, <3>2, <3>3, <3>4, EmptyIntact DEF TypeOK
  <2>4. SpoolIntact'
    <3> SUFFICES ASSUME ~torn' PROVE Intact(file') /\ Intact(pBuf')
      BY DEF SpoolIntact
    <3>1. file' = file \o Bytes(m) /\ ~torn /\ pBuf' = pBuf
      BY <1>1 DEF WriteLog, CutShort
    <3> QED
      BY <3>1, IntactAppend DEF SpoolIntact, TypeOK
  <2>5. WholeOnWire'
    BY <1>1 DEF WholeOnWire, WriteLog, CutShort
  <2> QED
    BY <2>3, <2>4, <2>5
<1>2. ASSUME NoEvent \/ NoAck PROVE BInv'
  <2>1. TypeOK'
    BY <1>2 DEF TypeOK, NoEvent, NoAck
  <2> QED
    BY <1>2, <2>1, BSame DEF NoEvent, NoAck
<1>3. ASSUME AfterRead, UNCHANGED <<pBuf, torn>> PROVE
         /\ file' \in Seq(Cell)
         /\ SpoolIntact'
  <2>1. file' = file \/ file' = <<>>
    BY <1>3 DEF AfterRead
  <2> QED
    BY <1>3, <2>1, EmptyIntact DEF SpoolIntact, TypeOK
<1>4. ASSUME SendMsgToServer PROVE BInv'
  <2>1. file' \in Seq(Cell) /\ SpoolIntact'
    BY <1>3, <1>4 DEF SendMsgToServer
  <2>2. \A p \in wire' : p \in wire \/ (Readable /\ p = HeadPayload)
    BY <1>4 DEF SendMsgToServer
  <2>3. TypeOK'
    <3>1. \A p \in wire' : p \in Seq(Cell) /\ p # <<>>
      BY <2>2, HeadShape DEF TypeOK
    <3>2. wire \subseteq wire'
      BY <1>4 DEF SendMsgToServer
    <3> QED
      BY <1>4, <2>1, <3>1, <3>2 DEF TypeOK, SendMsgToServer
  <2>4. WholeOnWire'
    <3>1. ~torn /\ Readable => \E m \in Msg : HeadPayload = Payload(m)
      BY WholeHead DEF SpoolIntact, TypeOK
    <3>2. torn' = torn
      BY <1>4 DEF SendMsgToServer
    <3> QED
      BY <2>2, <3>1, <3>2 DEF WholeOnWire
  <2> QED
    BY <2>1, <2>3, <2>4
<1>5. ASSUME NEW p \in wire, ServerAccept(p) PROVE BInv'
  <2>1. TypeOK'
    BY <1>5 DEF TypeOK, ServerAccept
  <2> QED
    BY <1>5, <2>1, BSame DEF ServerAccept
<1>6. ASSUME NEW p \in accepted, IgnoreAck(p) PROVE BInv'
  <2>1. file' \in Seq(Cell) /\ SpoolIntact'
    BY <1>3, <1>6 DEF IgnoreAck
  <2>2. TypeOK'
    BY <1>6, <2>1 DEF TypeOK, IgnoreAck
  <2> QED
    BY <1>6, <2>1, <2>2 DEF WholeOnWire, IgnoreAck
<1>7. ASSUME NEW p \in accepted, DeleteBufMsg(p) PROVE BInv'
  <2>1. Readable
    BY <1>7 DEF DeleteBufMsg, HeadIs
  <2>2. AfterHead \in Seq(Cell)
    BY <2>1, HeadShape DEF TypeOK
  <2>3. TypeOK'
    BY <1>7, <2>2, EmptyIntact DEF TypeOK, DeleteBufMsg
  <2>4. ~torn => Intact(AfterHead)
    BY <2>1, WholeHead DEF SpoolIntact, TypeOK
  <2>5. SpoolIntact'
    BY <1>7, <2>4, EmptyIntact DEF SpoolIntact, DeleteBufMsg
  <2> QED
    BY <1>7, <2>3, <2>5 DEF WholeOnWire, DeleteBufMsg
<1>8. ASSUME NEW p \in accepted, DeleteFails(p) PROVE BInv'
  <2>1. TypeOK'
    BY <1>8, EmptyIntact, FaultsAssumption DEF TypeOK, DeleteFails, Fault
  <2>2. SpoolIntact'
    BY <1>8, EmptyIntact DEF SpoolIntact, DeleteFails
  <2> QED
    BY <1>8, <2>1, <2>2 DEF WholeOnWire, DeleteFails
<1>9. ASSUME RewriteSpool PROVE BInv'
  <2>1. file' \in Seq(Cell)
    BY <1>9, EmptyIntact, TornType DEF TypeOK, RewriteSpool
  <2>2. TypeOK'
    <3>1. faults' \in 0 .. MaxFaults
      BY <1>9, FaultsAssumption DEF TypeOK, RewriteSpool, CutShort, Fault
    <3>2. torn' \in BOOLEAN /\ (torn' => lost')
      <4>1. (torn' = torn /\ lost' = lost) \/ (torn' = TRUE /\ lost' = TRUE)
        BY <1>9 DEF RewriteSpool, CutShort
      <4>2. torn \in BOOLEAN /\ (torn => lost)
        BY DEF TypeOK
      <4>3. CASE torn' = torn /\ lost' = lost
        <5>1. torn' \in BOOLEAN
          BY <4>2, <4>3
        <5>2. ASSUME torn' PROVE lost'
          <6>1. torn
            BY <4>3, <5>2
          <6>2. lost
            BY <4>2, <6>1
          <6> QED
            BY <4>3, <6>2
        <5> QED
          BY <5>1, <5>2
      <4> QED
        BY <4>1, <4>3
    <3>3. pc' \in {"log", "send", "ack", "rewrite"} /\ pBuf' = <<>>
      BY <1>9 DEF RewriteSpool
    <3>4. logged' = logged /\ accepted' = accepted /\ wire' = wire
      BY <1>9 DEF RewriteSpool
    <3> QED
      BY <2>1, <3>1, <3>2, <3>3, <3>4, EmptyIntact DEF TypeOK
  <2>3. SpoolIntact'
    BY <1>9, EmptyIntact DEF SpoolIntact, RewriteSpool, CutShort
  <2> QED
    BY <1>9, <2>2, <2>3 DEF WholeOnWire, RewriteSpool, CutShort
<1>10. ASSUME Kill PROVE BInv'
  <2>1. TypeOK'
    BY <1>10, EmptyIntact, FaultsAssumption DEF TypeOK, Kill, Fault
  <2>2. SpoolIntact'
    BY <1>10, EmptyIntact DEF SpoolIntact, Kill
  <2> QED
    BY <1>10, <2>1, <2>2 DEF WholeOnWire, Kill
<1>11. ASSUME UNCHANGED vars PROVE BInv'
  <2>1. TypeOK'
    BY <1>11 DEF TypeOK, vars
  <2> QED
    BY <1>11, <2>1, BSame DEF vars
<1> QED
  BY <1>1, <1>2, <1>4, <1>5, <1>6, <1>7, <1>8, <1>9, <1>10, <1>11
     DEF Next, BigLoop, GetAckFromServer

(* Hence BInv holds.                                                       *)
LEMMA BInvHolds == Spec => []BInv
  BY BInit, BNext, PTL DEF Spec

(* The places, the cells and the budget have their types, and a copy of    *)
(* the spool in memory exists inside delete_buf_msg only.                  *)
THEOREM SpoolTypeCorrect == Spec => []TypeOK
  BY BInvHolds, PTL DEF BInv

(***************************************************************************)
(* For any records, lengths, faults and kills: until a write is cut short, *)
(* .cul.b and the copy in memory are sequences of whole records.           *)
(***************************************************************************)
THEOREM SpoolIntactCorrect == Spec => []SpoolIntact
  BY BInvHolds, PTL DEF BInv

-----------------------------------------------------------------------------
(***************************************************************************)
(* Torn files.  Whatever a full disk cuts off, it is the end of a write,   *)
(* and a write begins with a Wrapper: what stands in front of a cell is    *)
(* its record up to there.  Hence the last byte of a record tells where    *)
(* its Wrapper is, and what stands after it begins with a Wrapper again.   *)
(***************************************************************************)
Tidy(f) ==
    \A i \in 1 .. Len(f) : \A k \in 0 .. f[i][2] :
        k < i /\ f[i - k] = <<f[i][1], f[i][2] - k>>

Sound(p) == (\E m \in Msg : p = Payload(m)) \/ Composition(p)

TInv ==
    /\ Tidy(file) /\ Tidy(pBuf)
    /\ \A p \in wire : WellFormed(p) => Sound(p)
    /\ \A p \in accepted : WellFormed(p)

(* The beginning of a tidy file is tidy.                                   *)
LEMMA TidyBegin ==
    ASSUME NEW f \in Seq(Cell), NEW g \in Seq(Cell), Tidy(f), Len(g) <= Len(f),
           \A i \in 1 .. Len(g) : g[i] = f[i]
    PROVE  Tidy(g)
<1>1. Len(f) \in Nat /\ Len(g) \in Nat
  OBVIOUS
<1>2. ASSUME NEW i \in 1 .. Len(g), NEW k \in 0 .. g[i][2]
      PROVE  k < i /\ g[i - k] = <<g[i][1], g[i][2] - k>>
  <2>1. i \in 1 .. Len(f) /\ g[i] = f[i] /\ k \in 0 .. f[i][2]
    BY <1>1
  <2>2. k < i /\ f[i - k] = <<f[i][1], f[i][2] - k>>
    BY <2>1 DEF Tidy
  <2>3. k \in Nat
    OBVIOUS
  <2>4. i - k \in 1 .. Len(g)
    BY <1>1, <2>2, <2>3
  <2> QED
    BY <2>1, <2>2, <2>4
<1> QED
  BY <1>2 DEF Tidy

(* An empty one is.                                                        *)
LEMMA TidyEmpty == Tidy(<<>>)
  BY DEF Tidy

(* A record, or the beginning of one, is added to a tidy file.             *)
LEMMA TidyAppend ==
    ASSUME NEW f \in Seq(Cell), Tidy(f), NEW m \in Msg, NEW s \in Seq(Cell),
           \A k \in 1 .. Len(s) : s[k] = <<m, k - 1>>
    PROVE  f \o s \in Seq(Cell) /\ Tidy(f \o s)
<1> DEFINE g == f \o s
           o == Len(f)
           n == Len(s)
<1>1. o \in Nat /\ n \in Nat
  OBVIOUS
<1>2. /\ g \in Seq(Cell) /\ Len(g) = o + n
      /\ \A i \in 1 .. o + n : g[i] = IF i <= o THEN f[i] ELSE s[i - o]
  BY ConcatProperties
<1> HIDE DEF g
<1>3. ASSUME NEW j \in 1 .. n PROVE g[o + j] = <<m, j - 1>>
  <2> DEFINE i == o + j
  <2>1. i \in 1 .. o + n /\ ~(i <= o) /\ i - o = j
    BY <1>1
  <2> HIDE DEF i
  <2>2. g[i] = s[j]
    BY <1>2, <2>1
  <2> QED
    BY <2>2 DEF i
<1>4. ASSUME NEW i \in 1 .. Len(g), NEW k \in 0 .. g[i][2]
      PROVE  k < i /\ g[i - k] = <<g[i][1], g[i][2] - k>>
  <2>0. k \in Nat /\ i \in 1 .. o + n
    BY <1>2
  <2>1. CASE i <= o
    <3>1. i \in 1 .. o /\ g[i] = f[i]
      BY <1>1, <1>2, <2>0, <2>1
    <3>2. k < i /\ f[i - k] = <<f[i][1], f[i][2] - k>>
      BY <1>4, <3>1 DEF Tidy
    <3>3. i - k \in 1 .. o + n /\ i - k <= o
      BY <1>1, <2>0, <3>1, <3>2
    <3> QED
      BY <1>2, <3>1, <3>2, <3>3
  <2>2. CASE ~(i <= o)
    <3> DEFINE j == i - o
               d == j - k
    <3>1. j \in 1 .. n /\ o + j = i
      BY <1>1, <2>0, <2>2
    <3>2. g[i] = <<m, j - 1>>
      BY <1>3, <3>1
    <3>3. k <= j - 1
      BY <1>1, <2>0, <3>1, <3>2
    <3>4. d \in 1 .. n /\ o + d = i - k /\ d - 1 = (j - 1) - k /\ k < i
      BY <1>1, <2>0, <3>1, <3>3
    <3> HIDE DEF d
    <3>5. g[i - k] = <<m, d - 1>>
      BY <1>3, <3>4
    <3> QED
      BY <3>2, <3>4, <3>5
  <2> QED
    BY <2>1, <2>2
<1>5. Tidy(g)
  BY <1>4 DEF Tidy
<1> QED
  BY <1>2, <1>5 DEF g

(* write_log on a disk with room, or without.                              *)
LEMMA TidyWrite ==
    ASSUME NEW f \in Seq(Cell), Tidy(f), NEW m \in Msg,
           NEW g, g = f \o Bytes(m) \/ g \in Torn(f, Bytes(m))
    PROVE  g \in Seq(Cell) /\ Tidy(g)
<1> DEFINE b == Bytes(m)
<1>1. /\ b \in Seq(Cell) /\ Len(b) = LenOf[m] + 1 /\ Len(b) \in Nat
      /\ \A k \in 1 .. Len(b) : b[k] = <<m, k - 1>>
  BY BytesShape
<1> HIDE DEF b
<1>2. CASE g = f \o b
  BY <1>1, <1>2, TidyAppend
<1>3. CASE g \in Torn(f, b)
  <2> DEFINE one == 1
  <2>1. PICK n \in 0 .. Len(b) - 1 : g = f \o SubSeq(b, one, n)
    BY <1>3 DEF Torn
  <2> DEFINE s == SubSeq(b, one, n)
  <2>2. one \in Int /\ n \in Nat /\ n \in Int /\ one = 1 /\ \A i \in one .. n : b[i] \in Cell
    BY <1>1, ElementOfSeq
  <2> HIDE DEF one
  <2>3. /\ s \in Seq(Cell) /\ Len(s) = IF one <= n THEN n - one + 1 ELSE 0
        /\ \A i \in 1 .. n - one + 1 : s[i] = b[one + i - 1]
    BY <2>2, SubSeqProperties
  <2> HIDE DEF s
  <2>4. Len(s) = n /\ \A i \in 1 .. n : i \in 1 .. n - one + 1 /\ one + i - 1 = i /\ i \in 1 .. Len(b)
    BY <1>1, <2>2, <2>3
  <2>5. \A i \in 1 .. Len(s) : s[i] = <<m, i - 1>>
    BY <1>1, <2>3, <2>4
  <2>6. f \o s \in Seq(Cell) /\ Tidy(f \o s)
    BY <2>3, <2>5, TidyAppend
  <2> QED
    BY <2>1, <2>6 DEF s
<1> QED
  BY <1>2, <1>3 DEF b

(* delete_buf_msg's rewrite on a disk without room.                        *)
LEMMA TidyRewrite ==
    ASSUME NEW f \in Seq(Cell), Tidy(f), NEW g \in Torn(<<>>, f)
    PROVE  Tidy(g)
<1> DEFINE one == 1
           e == <<>>
<1>1. PICK n \in 0 .. Len(f) - 1 : g = e \o SubSeq(f, one, n)
  BY DEF Torn
<1> DEFINE s == SubSeq(f, one, n)
<1>2. one \in Int /\ n \in Nat /\ n \in Int /\ one = 1 /\ Len(f) \in Nat /\ \A i \in one .. n : f[i] \in Cell
  BY ElementOfSeq
<1> HIDE DEF one
<1>3. /\ s \in Seq(Cell) /\ Len(s) = IF one <= n THEN n - one + 1 ELSE 0
      /\ \A i \in 1 .. n - one + 1 : s[i] = f[one + i - 1]
  BY <1>2, SubSeqProperties
<1>4. g = s
  BY <1>1, <1>3, ConcatEmptySeq
<1> HIDE DEF s
<1>5. Len(s) = n /\ n <= Len(f) /\ \A i \in 1 .. n : i \in 1 .. n - one + 1 /\ one + i - 1 = i
  BY <1>2, <1>3
<1>6. \A i \in 1 .. Len(s) : s[i] = f[i]
  BY <1>3, <1>5
<1> QED
  BY <1>3, <1>4, <1>5, <1>6, TidyBegin

(* The cells of a readable head and of what follows it.                    *)
LEMMA HeadCells ==
    ASSUME file \in Seq(Cell), Readable
    PROVE  LET l == LenOf[file[1][1]] IN
           /\ file[1] \in Cell /\ file[1][1] \in Msg /\ file[1][2] = 0
           /\ l \in Nat \ {0, 1} /\ Len(file) \in Nat /\ l + 1 <= Len(file)
           /\ HeadPayload \in Seq(Cell) /\ Len(HeadPayload) = l
           /\ \A i \in 1 .. l : HeadPayload[i] = file[i + 1]
           /\ AfterHead \in Seq(Cell) /\ Len(AfterHead) = Len(file) - (l + 1)
           /\ \A i \in 1 .. Len(AfterHead) : AfterHead[i] = file[(l + 1) + i]
<1> DEFINE l == LenOf[file[1][1]]
           n == Len(file)
           a == l + 1
           two == 2
           b == l + 2
<1>1. n \in Nat /\ file # <<>> /\ file[1] \in Cell /\ IsWrapper(file[1]) /\ l <= n - 1
  BY EmptySeq, ElementOfSeq DEF Readable
<1>2. l \in Nat \ {0, 1} /\ file[1][1] \in Msg /\ file[1][2] = 0
  BY <1>1, CellShape DEF IsWrapper
<1>3. /\ two \in Int /\ a \in Int /\ b \in Int /\ n \in Int /\ a <= n /\ two <= a
      /\ a - two + 1 = l /\ (IF b <= n THEN n - b + 1 ELSE 0) = n - a /\ n - b + 1 = n - a
      /\ two = 2 /\ b = a + 1 /\ a = l + 1
  <2>1. l \in Nat \ {0, 1} /\ n \in Nat /\ l <= n - 1
    BY <1>1, <1>2
  <2> HIDE DEF l, n
  <2> QED
    BY <2>1
<1>4. HeadPayload = SubSeq(file, two, a) /\ AfterHead = SubSeq(file, b, n)
  BY DEF HeadPayload, AfterHead
<1>5. n = Len(file) /\ two \in Nat \ {0} /\ a \in Nat /\ b \in Nat \ {0} /\ n \in Nat /\ n <= n
  BY <1>1, <1>2
<1> HIDE DEF l, n, a, two, b
<1>6. /\ HeadPayload \in Seq(Cell) /\ Len(HeadPayload) = IF two <= a THEN a - two + 1 ELSE 0
      /\ \A i \in 1 .. a - two + 1 : HeadPayload[i] = file[two + i - 1]
  <2>1. a <= Len(file)
    BY <1>3, <1>5
  <2> QED
    BY <1>4, <1>5, <2>1, SliceCells
<1>7. /\ AfterHead \in Seq(Cell) /\ Len(AfterHead) = IF b <= n THEN n - b + 1 ELSE 0
      /\ \A i \in 1 .. n - b + 1 : AfterHead[i] = file[b + i - 1]
  <2>1. n <= Len(file)
    BY <1>5
  <2> QED
    BY <1>4, <1>5, <2>1, SliceCells
<1>8. Len(HeadPayload) = l /\ Len(AfterHead) = n - a
  BY <1>3, <1>6, <1>7
<1>9. ASSUME NEW i \in 1 .. l PROVE HeadPayload[i] = file[i + 1]
  <2>1. i \in 1 .. a - two + 1 /\ two + i - 1 = i + 1
    BY <1>2, <1>3
  <2> QED
    BY <1>6, <2>1
<1>10. ASSUME NEW i \in 1 .. n - a PROVE AfterHead[i] = file[a + i]
  <2>1. i \in 1 .. n - b + 1 /\ b + i - 1 = a + i
    BY <1>1, <1>2, <1>3
  <2> QED
    BY <1>7, <2>1
<1> QED
  BY <1>1, <1>2, <1>3, <1>6, <1>7, <1>8, <1>9, <1>10 DEF l, a, n

(* What ends with the last byte of a record is removed: no cell of that    *)
(* record is left, and none is needed.                                     *)
LEMMA TidyRest ==
    ASSUME file \in Seq(Cell), Tidy(file), Readable, WellFormed(HeadPayload)
    PROVE  Tidy(AfterHead)
<1> DEFINE l == LenOf[file[1][1]]
           a == l + 1
           g == AfterHead
           n == Len(file)
           m == file[a][1]
           last == LenOf[m]
<1>1. /\ l \in Nat \ {0, 1} /\ n \in Nat /\ a <= n /\ a \in Nat /\ a = l + 1
      /\ Len(HeadPayload) = l /\ \A i \in 1 .. l : HeadPayload[i] = file[i + 1]
      /\ g \in Seq(Cell) /\ Len(g) = n - a
      /\ \A i \in 1 .. Len(g) : g[i] = file[a + i]
  BY HeadCells
<1>2. file[a] \in Cell /\ m \in Msg /\ last \in Nat
  <2>1. a \in 1 .. Len(file)
    BY <1>1
  <2> QED
    BY <2>1, ElementOfSeq, CellShape
<1> HIDE DEF l, g
<1>3. file[a][1] = m /\ file[a][2] = last
  <2>1. l \in 1 .. l
    BY <1>1
  <2>2. HeadPayload[l] = file[a]
    BY <1>1, <2>1
  <2> QED
    BY <1>1, <2>2 DEF WellFormed
<1> HIDE DEF a, n
<1>4. ASSUME NEW i \in 1 .. Len(g), NEW k \in 0 .. g[i][2]
      PROVE  k < i /\ g[i - k] = <<g[i][1], g[i][2] - k>>
  <2> DEFINE q == a + i
  <2>1. q \in 1 .. n /\ q \in 1 .. Len(file) /\ i \in Nat /\ g[i] = file[q]
    <3>1. n \in Nat /\ a \in Nat /\ a <= n /\ i \in 1 .. n - a
      BY <1>1
    <3>2. q \in 1 .. n /\ i \in Nat
      BY <3>1
    <3> QED
      BY <1>1, <3>2 DEF n
  <2>2. file[q] \in Cell
    BY <2>1, ElementOfSeq
  <2>3. file[q][1] \in Msg /\ file[q][2] \in 0 .. LenOf[file[q][1]] /\ LenOf[file[q][1]] \in Nat
    BY <2>2, CellShape
  <2>4. \A j \in 0 .. file[q][2] : j < q /\ file[q - j] = <<file[q][1], file[q][2] - j>>
    BY <2>1 DEF Tidy
  <2>5. q - i = a /\ q \in Nat
    <3>1. a \in Nat
      BY <1>1
    <3> QED
      BY <2>1, <3>1
  <2>6. file[q][2] < i
    <3> SUFFICES ASSUME ~(file[q][2] < i) PROVE FALSE
      OBVIOUS
    <3>1. i \in 0 .. file[q][2]
      BY <2>1, <2>3
    <3>2. file[q - i] = <<file[q][1], file[q][2] - i>>
      BY <2>4, <3>1
    <3>3. file[q][1] = m /\ file[q][2] - i = last
      BY <1>3, <2>5, <3>2
    <3>4. file[q][2] <= last
      BY <2>3, <3>3
    <3> DEFINE v == file[q][2]
    <3>5. v \in Nat /\ i \in Nat \ {0} /\ last \in Nat /\ v - i = last /\ v <= last
      BY <1>2, <2>1, <2>3, <3>3, <3>4
    <3> HIDE DEF v, last
    <3> QED
      BY <3>5
  <2>7. k \in Nat /\ k < i /\ k \in 0 .. file[q][2]
    BY <2>1, <2>3, <2>6
  <2>8. file[q - k] = <<g[i][1], g[i][2] - k>>
    BY <2>1, <2>4, <2>7
  <2>9. i - k \in 1 .. Len(g) /\ a + (i - k) = q - k
    BY <1>1, <2>1, <2>7
  <2> HIDE DEF q
  <2> DEFINE d == i - k
  <2>10. d \in 1 .. Len(g) /\ a + d = q - k
    BY <2>9
  <2> HIDE DEF d
  <2>11. g[d] = file[q - k]
    BY <1>1, <2>10
  <2> QED
    BY <2>7, <2>8, <2>11 DEF d
<1>5. Tidy(g)
  BY <1>4 DEF Tidy
<1> QED
  BY <1>5 DEF g

(***************************************************************************)
(* What begins with a first byte and ends with a last byte ends with all   *)
(* of a record: if it is not that record alone, the record's Wrapper is    *)
(* behind the first byte, so the record is shorter by more than that.      *)
(***************************************************************************)
LEMMA HeadIsSound ==
    ASSUME file \in Seq(Cell), Tidy(file), Readable, WellFormed(HeadPayload)
    PROVE  Sound(HeadPayload)
<1> DEFINE m == file[1][1]
           l == LenOf[m]
           e == l + 1
           p == HeadPayload
           x == file[e]
           n == x[1]
           w == LenOf[n]
<1>1. /\ m \in Msg /\ file[1][2] = 0
      /\ l \in Nat \ {0, 1} /\ Len(file) \in Nat /\ e <= Len(file)
      /\ p \in Seq(Cell) /\ Len(p) = l /\ \A i \in 1 .. l : p[i] = file[i + 1]
  BY HeadCells
<1>2. e \in 1 .. Len(file) /\ e = l + 1
  BY <1>1
<1>3. x \in Cell /\ n \in Msg /\ w \in Nat \ {0, 1}
  BY <1>2, ElementOfSeq, CellShape
<1>4. p[1] = file[2] /\ p[l] = x
  <2>1. 1 \in 1 .. l /\ l \in 1 .. l /\ 1 + 1 = 2
    BY <1>1
  <2> QED
    BY <1>1, <2>1
<1>5. file[2][2] = 1 /\ x[2] = w
  BY <1>1, <1>4 DEF WellFormed
<1>6. \A k \in 0 .. w : k < e /\ file[e - k] = <<n, w - k>>
  BY <1>2, <1>5 DEF Tidy
<1>7. w < e /\ file[e - w] = <<n, 0>>
  <2>1. w \in 0 .. w /\ w - w = 0
    BY <1>3
  <2> QED
    BY <1>6, <2>1
<1> HIDE DEF l, w, e, x, p
<1>8. e - w # 2
  <2>1. file[e - w][2] = 0
    BY <1>7
  <2> QED
    BY <1>5, <2>1
<1>9. CASE w + 1 < l
  <2>1. p[1] = <<m, 1>>
    <3>1. 2 \in 1 .. Len(file) /\ file[2] \in Cell
      <4>1. 2 \in 1 .. Len(file)
        BY <1>1, <1>2
      <4> QED
        BY <4>1, ElementOfSeq
    <3>2. 0 \in 0 .. file[2][2] /\ 1 \in 0 .. file[2][2]
      BY <1>5
    <3>3. file[2 - 0] = <<file[2][1], file[2][2] - 0>> /\ file[2 - 1] = <<file[2][1], file[2][2] - 1>>
      BY <3>1, <3>2 DEF Tidy
    <3>4. 2 - 0 = 2 /\ 2 - 1 = 1 /\ file[2][2] - 0 = 1
      BY <1>5
    <3> QED
      BY <1>4, <3>3, <3>4
  <2>2. ASSUME NEW k \in 0 .. w PROVE p[l - k] = <<n, w - k>>
    <3> DEFINE i == l - k
    <3>1. i \in 1 .. l /\ i + 1 = e - k
      BY <1>1, <1>2, <1>3, <1>9
    <3> HIDE DEF i
    <3>2. p[i] = file[e - k]
      BY <1>1, <3>1
    <3> QED
      BY <1>6, <3>2 DEF i
  <2>3. EndsWith(p, n)
    BY <1>1, <2>2 DEF EndsWith, w
  <2> QED
    BY <1>1, <1>3, <1>9, <2>1, <2>3 DEF Sound, Composition, l, w, p
<1>10. CASE ~(w + 1 < l)
  <2>1. w = l
    BY <1>1, <1>2, <1>3, <1>7, <1>8, <1>10
  <2>2. n = m
    <3>1. e - w = 1
      BY <1>1, <1>2, <2>1
    <3> QED
      BY <1>7, <3>1
  <2>3. ASSUME NEW i \in 1 .. l PROVE p[i] = Payload(m)[i]
    <3> DEFINE k == l - i
    <3>1. k \in 0 .. w /\ e - k = i + 1 /\ w - k = i
      BY <1>1, <1>2, <2>1
    <3> HIDE DEF k, m, n
    <3>2. file[e - k] = <<n, w - k>>
      BY <1>6, <3>1
    <3>3. p[i] = <<n, i>>
      BY <1>1, <3>1, <3>2
    <3>4. Payload(m)[i] = <<m, i>>
      BY <1>1, PayloadShape DEF l
    <3> QED
      BY <2>2, <3>3, <3>4
  <2>4. Payload(m) \in Seq(Cell) /\ Len(Payload(m)) = l
    BY <1>1, PayloadShape DEF l
  <2>5. p = Payload(m)
    <3> HIDE DEF m
    <3> QED
      BY <1>1, <2>3, <2>4, SeqEqual
  <2> QED
    BY <1>1, <2>5 DEF Sound, p
<1> QED
  BY <1>9, <1>10

(* TInv is inductive.                                                      *)
LEMMA TNext ==
    ASSUME TypeOK, TInv, [Next]_vars
    PROVE  TInv'
<1> USE DEF TInv
<1>0. file \in Seq(Cell) /\ pBuf \in Seq(Cell) /\ accepted \subseteq wire
  BY DEF TypeOK
<1>1. ASSUME NEW m \in Msg, WriteLog(m) PROVE TInv'
  <2>1. file' = file \o Bytes(m) \/ file' \in Torn(file, Bytes(m))
    BY <1>1 DEF WriteLog
  <2>2. Tidy(file')
    BY <1>0, <2>1, TidyWrite
  <2> QED
    BY <1>1, <2>2 DEF WriteLog
<1>2. ASSUME file' \in {file, <<>>}, pBuf' \in {pBuf, <<>>}, UNCHANGED <<wire, accepted>>
      PROVE  TInv'
  BY <1>2, TidyEmpty
<1>3. AfterRead => file' \in {file, <<>>}
  BY DEF AfterRead
<1>4. ASSUME SendMsgToServer PROVE TInv'
  <2>1. /\ file' \in {file, <<>>} /\ pBuf' = pBuf /\ accepted' = accepted
        /\ \A p \in wire' : p \in wire \/ (Readable /\ p = HeadPayload)
    BY <1>3, <1>4 DEF SendMsgToServer
  <2>2. \A p \in wire' : WellFormed(p) => Sound(p)
    BY <1>0, <2>1, HeadIsSound
  <2> QED
    BY <2>1, <2>2, TidyEmpty
<1>5. ASSUME NEW p \in wire, ServerAccept(p) PROVE TInv'
  BY <1>5 DEF ServerAccept
<1>6. ASSUME NEW p \in accepted, DeleteBufMsg(p) PROVE TInv'
  <2>1. Readable /\ HeadPayload = p /\ file' = <<>> /\ pBuf' = AfterHead
        /\ UNCHANGED <<wire, accepted>>
    BY <1>6 DEF DeleteBufMsg, HeadIs
  <2>2. WellFormed(HeadPayload)
    BY <2>1
  <2>3. Tidy(AfterHead)
    BY <1>0, <2>1, <2>2, TidyRest
  <2> QED
    BY <2>1, <2>3, TidyEmpty
<1>7. ASSUME RewriteSpool PROVE TInv'
  <2>1. /\ file' = pBuf \/ file' \in Torn(<<>>, pBuf)
        /\ pBuf' = <<>> /\ UNCHANGED <<wire, accepted>>
    BY <1>7 DEF RewriteSpool
  <2>2. Tidy(file')
    BY <1>0, <2>1, TidyRewrite
  <2> QED
    BY <2>1, <2>2, TidyEmpty
<1>8. CASE NoEvent \/ NoAck \/ Kill \/ UNCHANGED vars
  BY <1>2, <1>8 DEF NoEvent, NoAck, Kill, vars
<1>9. CASE \E p \in accepted : IgnoreAck(p) \/ DeleteFails(p)
  BY <1>2, <1>3, <1>9 DEF IgnoreAck, DeleteFails
<1> QED
  BY <1>1, <1>4, <1>5, <1>6, <1>7, <1>8, <1>9 DEF Next, BigLoop, GetAckFromServer

(***************************************************************************)
(* For any records of any lengths, with kills, failed allocations and      *)
(* writes cut short anywhere: what the server accepts is one record a      *)
(* client wrote or, once a write was cut short, a composition that begins  *)
(* as one record does and ends with all of a shorter one.                  *)
(***************************************************************************)
THEOREM AcceptedCorrect == Spec => []WholeOrComposed
<1>1. Init => TInv
  BY TidyEmpty DEF Init, TInv
<1>2. TypeOK /\ TInv /\ [Next]_vars => TInv'
  BY TNext
<1>3. BInv /\ TInv => WholeOrComposed
  BY DEF BInv, TInv, TypeOK, WholeOnWire, WholeOrComposed, Sound
<1> QED
  BY <1>1, <1>2, <1>3, BInvHolds, SpoolTypeCorrect, PTL DEF Spec

-----------------------------------------------------------------------------
(***************************************************************************)
(* The refinement.  The records in the file are where its Wrappers are, so *)
(* what is said of the k-th record rests on the k-th of these places.      *)
(***************************************************************************)
LEMMA RecordsShape ==
    ASSUME NEW f \in Seq(Cell)
    PROVE  LET S == WrappersIn(f)
           IN  /\ S \in SUBSET (1 .. Len(f)) /\ S \in SUBSET Nat /\ IsFiniteSet(S)
               /\ \A i \in 1 .. Len(f) : i \in S <=> f[i][2] = 0
               /\ Cardinality(S) \in Nat
               /\ RecordsIn(f) \in Seq(Msg) /\ Len(RecordsIn(f)) = Cardinality(S)
               /\ \A k \in 1 .. Cardinality(S) :
                     Nth(S, k) \in S /\ RecordsIn(f)[k] = f[Nth(S, k)][1]
<1> DEFINE S == WrappersIn(f)
           n == Cardinality(S)
           r == RecordsIn(f)
           w == Selected(f, S)
<1>1. S = {i \in 1 .. Len(f) : f[i][2] = 0}
  BY DEF WrappersIn, IsWrapper
<1>2. S \in SUBSET (1 .. Len(f)) /\ S \in SUBSET Nat
  BY <1>1
<1>3. IsFiniteSet(S)
  <2>1. 1 \in Int /\ Len(f) \in Int
    OBVIOUS
  <2>2. IsFiniteSet(1 .. Len(f))
    BY <2>1, FS_Interval
  <2> QED
    BY <1>2, <2>2, FS_Subset
<1>4. \A i \in S : f[i] \in Cell
  BY <1>2, ElementOfSeq
<1>5. n \in Nat /\ \A k \in 1 .. n : Nth(S, k) \in S
  <2> HIDE DEF S
  <2> QED
    BY <1>2, <1>3, NthOf
<1>6. DOMAIN w = 1 .. n /\ \A k \in 1 .. n : w[k] = f[Nth(S, k)]
  BY DEF Selected
<1>7. r = [k \in DOMAIN w |-> w[k][1]]
  BY DEF RecordsIn
<1> HIDE DEF S, n, r, w
<1>8. r = [k \in 1 .. n |-> f[Nth(S, k)][1]]
  BY <1>6, <1>7
<1>9. \A k \in 1 .. n : f[Nth(S, k)][1] \in Msg
  BY <1>4, <1>5, CellShape
<1>10. r \in [1 .. n -> Msg]
  BY <1>8, <1>9
<1>11. r \in Seq(Msg) /\ Len(r) = n
  BY <1>5, <1>10
<1> QED
  BY <1>1, <1>2, <1>3, <1>5, <1>8, <1>11 DEF S, n, r

(* A record that is written is the last one.                               *)
LEMMA RecordsAppend ==
    ASSUME NEW f \in Seq(Cell), NEW m \in Msg
    PROVE  /\ f \o Bytes(m) \in Seq(Cell)
           /\ RecordsIn(f \o Bytes(m)) = Append(RecordsIn(f), m)
<1> DEFINE g == f \o Bytes(m)
           n == Len(f)
           l == LenOf[m]
           S == WrappersIn(f)
           T == WrappersIn(g)
           c == Cardinality(S)
           r == RecordsIn(f)
           q == RecordsIn(g)
<1>1. n \in Nat /\ l \in Nat
  BY LenAssumption
<1>2. /\ g \in Seq(Cell) /\ Len(g) = n + (l + 1)
      /\ \A k \in 1 .. n + (l + 1) : g[k] = IF k <= n THEN f[k] ELSE Bytes(m)[k - n]
  <2>1. Bytes(m) \in Seq(Cell) /\ Len(Bytes(m)) = l + 1
    BY BytesShape
  <2>2. /\ g \in Seq(Cell) /\ Len(g) = Len(f) + Len(Bytes(m))
        /\ \A k \in 1 .. Len(f) + Len(Bytes(m)) :
              g[k] = IF k <= Len(f) THEN f[k] ELSE Bytes(m)[k - Len(f)]
    BY <2>1, ConcatProperties
  <2> QED
    BY <2>1, <2>2
<1>3. \A j \in 1 .. l + 1 : Bytes(m)[j] = <<m, j - 1>>
  BY BytesShape
<1>4. /\ S \in SUBSET (1 .. n) /\ S \in SUBSET Nat /\ IsFiniteSet(S)
      /\ \A i \in 1 .. n : i \in S <=> f[i][2] = 0
      /\ c \in Nat /\ r \in Seq(Msg) /\ Len(r) = c
      /\ \A k \in 1 .. c : Nth(S, k) \in S /\ r[k] = f[Nth(S, k)][1]
  BY RecordsShape
<1>5. /\ T \in SUBSET (1 .. Len(g))
      /\ \A i \in 1 .. Len(g) : i \in T <=> g[i][2] = 0
      /\ q \in Seq(Msg) /\ Len(q) = Cardinality(T)
      /\ \A k \in 1 .. Cardinality(T) : q[k] = g[Nth(T, k)][1]
  <2> HIDE DEF g
  <2> QED
    BY <1>2, RecordsShape
<1> HIDE DEF n, l, g, S, T, c, r, q
<1> DEFINE x == n + 1
<1>6. \A k \in 1 .. n : g[k] = f[k]
  BY <1>1, <1>2
<1>7. ASSUME NEW j \in 1 .. l + 1 PROVE g[n + j] = <<m, j - 1>>
  <2> DEFINE k == n + j
  <2>1. k \in 1 .. n + (l + 1) /\ ~(k <= n) /\ k - n = j
    BY <1>1
  <2> HIDE DEF k
  <2>2. g[k] = Bytes(m)[j]
    BY <1>2, <2>1
  <2> QED
    BY <1>3, <2>2 DEF k
<1>8. x \in Nat /\ x \in 1 .. Len(g) /\ g[x][1] = m /\ g[x][2] = 0
  <2>1. 1 \in 1 .. l + 1 /\ 1 - 1 = 0
    BY <1>1
  <2>2. g[n + 1] = <<m, 0>>
    BY <1>7, <2>1
  <2>3. x \in Nat /\ x \in 1 .. Len(g)
    BY <1>1, <1>2
  <2> QED
    BY <2>2, <2>3
<1>9. ASSUME NEW i \in 1 .. Len(g) PROVE i \in T <=> i \in S \/ i = x
  <2>1. CASE i \in 1 .. n
    <3>1. i # x
      BY <1>1, <2>1
    <3> QED
      BY <1>4, <1>5, <1>6, <2>1, <3>1
  <2>2. CASE i \notin 1 .. n
    <3> DEFINE j == i - n
    <3>1. j \in 1 .. l + 1 /\ i = n + j /\ i \notin S
      BY <1>1, <1>2, <1>4, <2>2
    <3> HIDE DEF j
    <3>2. g[i] = <<m, j - 1>>
      BY <1>7, <3>1
    <3>3. g[i][2] = 0 <=> j = 1
      BY <3>1, <3>2
    <3>4. i = x <=> j = 1
      BY <1>1, <3>1
    <3> QED
      BY <1>5, <3>1, <3>3, <3>4
  <2> QED
    BY <2>1, <2>2
<1>10. T = S \cup {x}
  <2>1. \A i \in S : i \in 1 .. Len(g)
    BY <1>1, <1>2, <1>4
  <2> QED
    BY <1>5, <1>8, <1>9, <2>1
<1>11. \A i \in S : i < x
  BY <1>1, <1>4
<1> HIDE DEF x
<1>12. /\ Cardinality(T) = c + 1
       /\ \A k \in 1 .. c : Nth(T, k) = Nth(S, k)
       /\ Nth(T, c + 1) = x
  <2>1. /\ Cardinality(S \cup {x}) = Cardinality(S) + 1
        /\ \A k \in 1 .. Cardinality(S) : Nth(S \cup {x}, k) = Nth(S, k)
        /\ Nth(S \cup {x}, Cardinality(S) + 1) = x
    BY <1>4, <1>8, <1>11, NthAdd
  <2> QED
    BY <1>10, <2>1 DEF c
<1> DEFINE a == Append(r, m)
<1>13. /\ a \in Seq(Msg) /\ Len(a) = c + 1
       /\ \A k \in 1 .. c : a[k] = r[k]
       /\ a[c + 1] = m
  BY <1>4, AppendProperties
<1> HIDE DEF a
<1>14. ASSUME NEW k \in 1 .. c + 1 PROVE q[k] = a[k]
  <2>1. CASE k = c + 1
    <3>1. q[k] = g[x][1]
      BY <1>5, <1>12, <2>1
    <3> QED
      BY <1>8, <1>13, <2>1, <3>1
  <2>2. CASE k # c + 1
    <3>1. k \in 1 .. c
      BY <1>4, <2>2
    <3>2. q[k] = g[Nth(S, k)][1] /\ Nth(S, k) \in 1 .. n
      BY <1>4, <1>5, <1>12, <3>1
    <3> QED
      BY <1>4, <1>6, <1>13, <3>1, <3>2
  <2> QED
    BY <2>1, <2>2
<1>15. q = a
  BY <1>5, <1>12, <1>13, <1>14, SeqEqual
<1> QED
  BY <1>2, <1>15 DEF g, q, a, r

(* Nothing in an empty file.                                               *)
LEMMA RecordsEmpty == RecordsIn(<<>>) = <<>>
<1> DEFINE f == <<>>
           c == Cardinality(WrappersIn(f))
<1>1. f \in Seq(Cell) /\ Len(f) = 0
  OBVIOUS
<1> HIDE DEF f
<1>2. /\ WrappersIn(f) \in SUBSET (1 .. Len(f))
      /\ RecordsIn(f) \in Seq(Msg) /\ Len(RecordsIn(f)) = c
  BY <1>1, RecordsShape
<1>3. WrappersIn(f) = {}
  BY <1>1, <1>2
<1>4. c = 0
  BY <1>3, FS_EmptySet
<1>5. RecordsIn(f) \in Seq(Msg) /\ Len(RecordsIn(f)) = 0
  BY <1>2, <1>4
<1>6. RecordsIn(f) = <<>>
  BY <1>5
<1> QED
  BY <1>6 DEF f

(* The first record of an intact file is the one at its head, and deleting *)
(* it leaves the others.                                                   *)
LEMMA RecordsRest ==
    ASSUME NEW f \in Seq(Cell), Intact(f), f # <<>>
    PROVE  /\ RecordsIn(f) # <<>> /\ Head(RecordsIn(f)) = f[1][1]
           /\ RecordsIn(SubSeq(f, End(f, 1) + 1, Len(f))) = Tail(RecordsIn(f))
<1> DEFINE n == Len(f)
           e == End(f, 1)
           g == SubSeq(f, e + 1, n)
           S == WrappersIn(f)
           T == WrappersIn(g)
           c == Cardinality(S)
           r == RecordsIn(f)
           q == RecordsIn(g)
<1>1. n \in Nat /\ 1 \in 1 .. n
  BY EmptySeq
<1>2. f[1] \in Cell
  BY <1>1, ElementOfSeq
<1>3. e \in Nat /\ e >= 3 /\ e = LenOf[f[1][1]] + 1
  BY <1>2, CellShape DEF End
<1>4. /\ e <= n /\ \A k \in 1 .. e : f[k] = <<f[1][1], k - 1>>
      /\ IsWrapper(f[1])
  BY <1>1 DEF Intact
<1>5. /\ g \in Seq(Cell) /\ Len(g) = n - e
      /\ \A k \in 1 .. n - e : g[k] = f[k + e]
  <2>1. e \in Nat /\ e <= Len(f)
    BY <1>3, <1>4
  <2> HIDE DEF e
  <2> QED
    BY <2>1, SliceFrom
<1>6. /\ S \in SUBSET (1 .. n) /\ S \in SUBSET Nat /\ IsFiniteSet(S)
      /\ \A i \in 1 .. n : i \in S <=> f[i][2] = 0
      /\ c \in Nat /\ r \in Seq(Msg) /\ Len(r) = c
      /\ \A k \in 1 .. c : Nth(S, k) \in S /\ r[k] = f[Nth(S, k)][1]
  BY RecordsShape
<1>7. /\ T \in SUBSET (1 .. Len(g))
      /\ \A i \in 1 .. Len(g) : i \in T <=> g[i][2] = 0
      /\ Cardinality(T) \in Nat
      /\ q \in Seq(Msg) /\ Len(q) = Cardinality(T)
      /\ \A k \in 1 .. Cardinality(T) : Nth(T, k) \in T /\ q[k] = g[Nth(T, k)][1]
  <2> HIDE DEF g
  <2> QED
    BY <1>5, RecordsShape
<1> HIDE DEF n, e, g, S, T, c, r, q
<1>8. \A i \in 1 .. e : i \in S <=> i = 1
  <2>1. \A i \in 1 .. e : f[i][2] = i - 1 /\ i \in 1 .. n
    BY <1>1, <1>3, <1>4
  <2>2. \A i \in 1 .. e : i - 1 = 0 <=> i = 1
    BY <1>3
  <2> QED
    BY <1>6, <2>1, <2>2
<1> DEFINE one == 1
<1>9. one \in S /\ one = 1
  BY <1>3, <1>8
<1>10. ASSUME NEW i \in S \ {one} PROVE i \in 1 .. n /\ e < i /\ one < i
  <2>1. i \in 1 .. n /\ i # one /\ i \in S
    BY <1>6
  <2>2. i \notin 1 .. e
    BY <1>8, <1>9, <2>1
  <2> QED
    BY <1>1, <1>3, <1>9, <2>1, <2>2
<1> HIDE DEF one
<1>11. /\ \A i \in S \ {one} : one < i /\ i - e \in T
       /\ \A j \in T : j + e \in S \ {one}
       /\ T \in SUBSET Nat
  <2>1. ASSUME NEW j \in T PROVE j + e \in S \ {one}
    <3>1. j \in 1 .. n - e /\ g[j] = f[j + e] /\ g[j][2] = 0
      BY <1>5, <1>7
    <3> DEFINE i == j + e
    <3>2. i \in 1 .. n /\ i # 1
      <4>1. e \in Nat /\ e >= 3 /\ e <= n /\ n \in Nat
        BY <1>1, <1>3, <1>4
      <4>2. j \in 1 .. n - e
        BY <3>1
      <4> QED
        BY <4>1, <4>2
    <3> HIDE DEF i
    <3>3. f[i][2] = 0
      BY <3>1 DEF i
    <3>4. i \in S \ {one}
      BY <1>6, <1>9, <3>2, <3>3
    <3> QED
      BY <3>4 DEF i
  <2>2. ASSUME NEW i \in S \ {one} PROVE i - e \in T
    <3>1. i \in 1 .. n /\ f[i][2] = 0 /\ e < i
      BY <1>6, <1>10
    <3> DEFINE j == i - e
    <3>2. i \in Nat /\ e \in Nat /\ n \in Nat /\ i <= n
      BY <1>1, <1>3, <3>1
    <3>3. j \in 1 .. n - e /\ j + e = i
      BY <3>1, <3>2
    <3> HIDE DEF j
    <3>4. g[j] = f[i]
      BY <1>5, <3>3
    <3>5. j \in T
      BY <1>5, <1>7, <3>1, <3>3, <3>4
    <3> QED
      BY <3>5 DEF j
  <2>3. T \in SUBSET Nat
    BY <1>7
  <2> QED
    BY <1>10, <2>1, <2>2, <2>3
<1>12. /\ c \in Nat \ {0} /\ Nth(S, 1) = one
       /\ Cardinality(T) = c - 1
       /\ \A k \in 1 .. c - 1 : Nth(S, k + 1) = Nth(T, k) + e
  <2>1. /\ Cardinality(S) \in Nat \ {0} /\ Nth(S, 1) = one
        /\ IsFiniteSet(T) /\ Cardinality(T) = Cardinality(S) - 1
        /\ \A k \in 1 .. Cardinality(S) - 1 : Nth(S, k + 1) = Nth(T, k) + e
    <3>1. S \in SUBSET Nat /\ IsFiniteSet(S) /\ one \in S /\ e \in Nat /\ T \in SUBSET Nat
      BY <1>3, <1>6, <1>9, <1>11
    <3>2. Moved(S, one, e, T)
      BY <1>11 DEF Moved
    <3> QED
      BY <3>1, <3>2, NthRest
  <2> QED
    BY <2>1 DEF c
<1>13. r # <<>> /\ Head(r) = f[1][1]
  <2>1. r # <<>>
    BY <1>6, <1>12
  <2>2. 1 \in 1 .. c
    BY <1>12
  <2>3. r[1] = f[1][1]
    BY <1>6, <1>9, <1>12, <2>2
  <2> QED
    BY <1>6, <2>1, <2>3
<1> DEFINE t == Tail(r)
<1>14. t \in Seq(Msg) /\ Len(t) = c - 1 /\ \A k \in 1 .. c - 1 : t[k] = r[k + 1]
  BY <1>6, <1>13, HeadTailProperties
<1> HIDE DEF t
<1>15. ASSUME NEW k \in 1 .. c - 1 PROVE q[k] = t[k]
  <2>1. k + 1 \in 1 .. c
    BY <1>12
  <2>2. t[k] = f[Nth(S, k + 1)][1]
    BY <1>6, <1>14, <2>1
  <2>3. q[k] = g[Nth(T, k)][1] /\ Nth(T, k) \in 1 .. n - e
    BY <1>5, <1>7, <1>12
  <2>4. g[Nth(T, k)] = f[Nth(T, k) + e]
    BY <1>5, <2>3
  <2> QED
    BY <1>12, <2>2, <2>3, <2>4
<1>16. q = t
  BY <1>7, <1>12, <1>14, <1>15, SeqEqual
<1> QED
  BY <1>13, <1>16 DEF r, q, t, g, e, n

(* A payload tells the record.                                             *)
LEMMA PayloadTells ==
    ASSUME NEW m \in Msg, NEW k \in Msg, Payload(m) = Payload(k)
    PROVE  m = k
<1>1. 1 \in 1 .. LenOf[m] /\ 1 \in 1 .. LenOf[k]
  BY LenAssumption
<1>2. Payload(m)[1] = <<m, 1>> /\ Payload(k)[1] = <<k, 1>>
  BY <1>1, PayloadShape
<1> QED
  BY <1>2

(* An intact file that cannot be read is empty, and what is read of one is *)
(* its first record.                                                       *)
LEMMA HeadRecord ==
    ASSUME file \in Seq(Cell), Intact(file)
    PROVE  /\ ~Readable => file = <<>>
           /\ Readable => /\ RecordsIn(file) # <<>>
                          /\ HeadPayload = Payload(Head(RecordsIn(file)))
                          /\ RecordsIn(AfterHead) = Tail(RecordsIn(file))
<1>1. ASSUME file # <<>>
      PROVE  /\ Readable
             /\ RecordsIn(file) # <<>>
             /\ HeadPayload = Payload(Head(RecordsIn(file)))
             /\ RecordsIn(AfterHead) = Tail(RecordsIn(file))
  <2>1. file[1] \in Cell /\ End(file, 1) <= Len(file) /\ IsWrapper(file[1])
    BY <1>1, IntactRest DEF Intact
  <2>2. LenOf[file[1][1]] \in Nat /\ Len(file) \in Nat
    BY <2>1, CellShape
  <2>3. End(file, 1) = LenOf[file[1][1]] + 1 /\ End(file, 1) + 1 = LenOf[file[1][1]] + 2
    BY <2>2 DEF End
  <2>4. Readable
    BY <1>1, <2>1, <2>2, <2>3 DEF Readable
  <2>5. /\ SubSeq(file, 2, End(file, 1)) = Payload(file[1][1])
        /\ RecordsIn(file) # <<>> /\ Head(RecordsIn(file)) = file[1][1]
        /\ RecordsIn(SubSeq(file, End(file, 1) + 1, Len(file))) = Tail(RecordsIn(file))
    BY <1>1, IntactRest, RecordsRest
  <2>6. HeadPayload = Payload(Head(RecordsIn(file)))
    BY <2>3, <2>5 DEF HeadPayload
  <2>7. AfterHead = SubSeq(file, End(file, 1) + 1, Len(file))
    BY <2>3 DEF AfterHead
  <2> QED
    BY <2>4, <2>5, <2>6, <2>7
<1>2. Readable => file # <<>>
  BY DEF Readable
<1> QED
  BY <1>1, <1>2

(***************************************************************************)
(* What is needed beyond BInv: as long as nothing is lost, what is on its  *)
(* way and not accepted yet is the record at the head of the spool.        *)
(***************************************************************************)
FirstOnWire ==
    ~lost => \A p \in wire \ accepted : Pending # <<>> /\ p = Payload(Head(Pending))

RInv == BInv /\ FirstOnWire

(* A step of the queue, or none.                                           *)
Reports == [R!Next \/ lost']_<<Pending, HandledSet>>

(* The queue of Reporting, in terms of this module.                        *)
LEMMA LogStep ==
    ASSUME NEW m \in Msg, Pending' = Append(Pending, m), HandledSet' = HandledSet
    PROVE  R!Next
<1> DEFINE q == [c \in {Cul} |-> Pending]
<1>1. q' = [q EXCEPT ![Cul] = Append(@, m)]
  OBVIOUS
<1>2. [k \in Msg |-> Cul][m] = Cul
  OBVIOUS
<1> QED
  BY <1>1, <1>2 DEF R!Next, R!Log

(* The record at the head is accepted.                                     *)
LEMMA HandleStep ==
    ASSUME Pending # <<>>, HandledSet' = HandledSet \cup {Head(Pending)}, Pending' = Pending
    PROVE  R!Next
<1> DEFINE q == [c \in {Cul} |-> Pending]
<1>1. q' = q /\ q[Cul] = Pending
  OBVIOUS
<1> QED
  BY <1>1 DEF R!Next, R!Handle

(* The record at the head leaves the queue.                                *)
LEMMA DischargeStep ==
    ASSUME Pending # <<>>, Head(Pending) \in HandledSet,
           Pending' = Tail(Pending), HandledSet' = HandledSet
    PROVE  R!Next
<1> DEFINE q == [c \in {Cul} |-> Pending]
<1>1. q' = [q EXCEPT ![Cul] = Tail(@)] /\ q[Cul] = Pending
  OBVIOUS
<1> QED
  BY <1>1 DEF R!Next, R!Discharge

(* Nothing that the queue is made of changes.                              *)
LEMMA Idle ==
    ASSUME RInv, lost' = lost, Pending' = Pending, accepted' = accepted, wire' = wire
    PROVE  FirstOnWire' /\ Reports
<1>1. HandledSet' = HandledSet
  BY DEF HandledSet
<1> QED
  BY <1>1 DEF RInv, FirstOnWire, Reports

(* Once something is lost nothing is claimed.                              *)
LEMMA Lost ==
    ASSUME lost'
    PROVE  FirstOnWire' /\ Reports
  BY DEF FirstOnWire, Reports

(* As long as nothing is lost, the file and the copy are intact.           *)
LEMMA NothingLost ==
    ASSUME BInv, ~lost
    PROVE  /\ ~torn /\ Intact(file) /\ Intact(pBuf)
           /\ file \in Seq(Cell) /\ pBuf \in Seq(Cell)
           /\ \A p \in wire : \E m \in Msg : p = Payload(m)
<1>1. torn => lost
  BY DEF BInv, TypeOK
<1>2. ~torn
  BY <1>1
<1> QED
  BY <1>2 DEF BInv, TypeOK, SpoolIntact, WholeOnWire

(* What was lost stays lost.                                               *)
LEMMA LostStays ==
    ASSUME [Next]_vars, lost
    PROVE  lost'
<1>1. ASSUME NEW m \in Msg, WriteLog(m) PROVE lost'
  BY <1>1 DEF WriteLog, CutShort
<1>2. ASSUME NoEvent \/ SendMsgToServer \/ NoAck \/ RewriteSpool PROVE lost'
  BY <1>2 DEF NoEvent, SendMsgToServer, NoAck, RewriteSpool, CutShort
<1>3. ASSUME NEW p, GetAckFromServer(p) \/ ServerAccept(p) PROVE lost'
  BY <1>3 DEF GetAckFromServer, IgnoreAck, DeleteBufMsg, DeleteFails, ServerAccept
<1>4. ASSUME Kill \/ UNCHANGED vars PROVE lost'
  BY <1>4 DEF Kill, vars
<1> QED
  BY <1>1, <1>2, <1>3, <1>4 DEF Next, BigLoop

(* write_log.                                                              *)
LEMMA WriteLogReports ==
    ASSUME RInv, ~lost, ~lost', NEW m \in Msg, WriteLog(m)
    PROVE  FirstOnWire' /\ Reports
<1>1. /\ file' = file \o Bytes(m) /\ pc = "log" /\ pc' = "send"
      /\ wire' = wire /\ accepted' = accepted
  BY DEF WriteLog, CutShort
<1>2. Pending = RecordsIn(file) /\ Pending' = RecordsIn(file')
  BY <1>1 DEF Pending, InMemory
<1>3. file \in Seq(Cell)
  BY NothingLost DEF RInv
<1>4. Pending' = Append(Pending, m) /\ Pending \in Seq(Msg)
  BY <1>1, <1>2, <1>3, RecordsAppend, RecordsShape
<1>5. HandledSet' = HandledSet
  BY <1>1 DEF HandledSet
<1>6. Pending # <<>> => Pending' # <<>> /\ Head(Pending') = Head(Pending)
  <2> SUFFICES ASSUME Pending # <<>> PROVE Pending' # <<>> /\ Head(Pending') = Head(Pending)
    OBVIOUS
  <2> DEFINE q == Pending
             a == Append(q, m)
  <2>1. q \in Seq(Msg) /\ q # <<>>
    BY <1>4
  <2> HIDE DEF q
  <2>2. Len(q) \in Nat /\ 1 \in 1 .. Len(q)
    BY <2>1, EmptySeq
  <2>3. a \in Seq(Msg) /\ a # <<>> /\ a[1] = q[1]
    BY <2>1, <2>2, AppendProperties
  <2>4. Head(a) = Head(q)
    BY <2>1, <2>3
  <2> QED
    BY <1>4, <2>3, <2>4 DEF q
<1>7. FirstOnWire'
  BY <1>1, <1>6 DEF RInv, FirstOnWire
<1> QED
  BY <1>4, <1>5, <1>7, LogStep DEF Reports

(* A read that erases the file if it cannot be read.                       *)
LEMMA ReadReports ==
    ASSUME BInv, ~lost, AfterRead, pc # "rewrite", pc' # "rewrite"
    PROVE  Pending' = Pending
<1>1. file' = file
  BY NothingLost, HeadRecord DEF AfterRead
<1> QED
  BY <1>1 DEF Pending, InMemory

(* send_msg_to_server.                                                     *)
LEMMA SendReports ==
    ASSUME RInv, ~lost, SendMsgToServer
    PROVE  FirstOnWire' /\ Reports
<1>1. /\ AfterRead /\ pc = "send" /\ pc' = "ack" /\ lost' = lost /\ accepted' = accepted
      /\ wire' = IF Readable THEN wire \cup {HeadPayload} ELSE wire
  BY DEF SendMsgToServer
<1>2. Pending' = Pending
  BY <1>1, ReadReports DEF RInv
<1>3. Pending = RecordsIn(file)
  BY <1>1 DEF Pending, InMemory
<1>4. HandledSet' = HandledSet
  BY <1>1 DEF HandledSet
<1>5. Readable => Pending # <<>> /\ HeadPayload = Payload(Head(Pending))
  BY <1>3, NothingLost, HeadRecord DEF RInv
<1>6. FirstOnWire'
  <2> SUFFICES ASSUME NEW p \in wire' \ accepted
               PROVE  Pending # <<>> /\ p = Payload(Head(Pending))
    BY <1>1, <1>2 DEF FirstOnWire
  <2> QED
    BY <1>1, <1>5 DEF RInv, FirstOnWire
<1> QED
  BY <1>2, <1>4, <1>6 DEF Reports

(* The server takes what it receives for the record it is.                 *)
LEMMA AcceptReports ==
    ASSUME RInv, ~lost, NEW p \in wire, ServerAccept(p)
    PROVE  FirstOnWire' /\ Reports
<1>1. /\ p \in wire \ accepted /\ accepted' = accepted \cup {p}
      /\ pc' = pc /\ file' = file /\ pBuf' = pBuf /\ lost' = lost /\ wire' = wire
  BY DEF ServerAccept
<1>2. Pending' = Pending
  BY <1>1 DEF Pending, InMemory
<1>3. Pending # <<>> /\ p = Payload(Head(Pending))
  BY <1>1 DEF RInv, FirstOnWire
<1>4. PICK m \in Msg : p = Payload(m)
  BY NothingLost DEF RInv
<1>5. Head(Pending) \in Msg
  <2>1. Pending \in Seq(Msg)
    BY NothingLost, RecordsShape DEF RInv, Pending
  <2> QED
    BY <1>3, <2>1, HeadTailProperties
<1>6. \A k \in Msg : Payload(k) \in accepted' <=> Payload(k) \in accepted \/ k = Head(Pending)
  BY <1>1, <1>3, <1>5, PayloadTells
<1>7. HandledSet' = HandledSet \cup {Head(Pending)}
  BY <1>5, <1>6 DEF HandledSet
<1>8. FirstOnWire'
  BY <1>1, <1>2 DEF RInv, FirstOnWire
<1> QED
  BY <1>2, <1>3, <1>7, <1>8, HandleStep DEF Reports

(* delete_buf_msg up to erase_buf_file: what was accepted is the head, so  *)
(* that nothing else is on its way.                                        *)
LEMMA DeleteReports ==
    ASSUME RInv, ~lost, NEW p \in accepted, DeleteBufMsg(p)
    PROVE  FirstOnWire' /\ Reports
<1>1. /\ pc = "ack" /\ pc' = "rewrite" /\ HeadIs(p) /\ pBuf' = AfterHead
      /\ lost' = lost /\ wire' = wire /\ accepted' = accepted
  BY DEF DeleteBufMsg
<1>2. Readable /\ HeadPayload = p
  BY <1>1 DEF HeadIs
<1>3. Pending = RecordsIn(file) /\ Pending' = RecordsIn(AfterHead)
  BY <1>1 DEF Pending, InMemory
<1>4. Pending # <<>> /\ p = Payload(Head(Pending)) /\ Pending' = Tail(Pending)
  BY <1>2, <1>3, NothingLost, HeadRecord DEF RInv
<1>5. Head(Pending) \in Msg
  <2>1. Pending \in Seq(Msg)
    BY <1>3, NothingLost, RecordsShape DEF RInv
  <2> QED
    BY <1>4, <2>1, HeadTailProperties
<1>6. Head(Pending) \in HandledSet /\ HandledSet' = HandledSet
  BY <1>1, <1>4, <1>5 DEF HandledSet
<1>7. wire \ accepted = {}
  BY <1>4 DEF RInv, FirstOnWire
<1>8. FirstOnWire'
  BY <1>1, <1>7 DEF FirstOnWire
<1> QED
  BY <1>4, <1>6, <1>8, DischargeStep DEF Reports

(* Every step of the program is a step of the queue, or none, or loses     *)
(* something.                                                              *)
LEMMA RStep ==
    ASSUME RInv, [Next]_vars
    PROVE  FirstOnWire' /\ Reports
<1> SUFFICES ASSUME ~lost' PROVE FirstOnWire' /\ Reports
  BY Lost
<1>1. ~lost
  BY LostStays
<1>2. BInv
  BY DEF RInv
<1>3. ASSUME NEW m \in Msg, WriteLog(m) PROVE FirstOnWire' /\ Reports
  BY <1>1, <1>3, WriteLogReports
<1>4. ASSUME NoEvent \/ NoAck \/ UNCHANGED vars PROVE FirstOnWire' /\ Reports
  <2>1. /\ file' = file /\ pBuf' = pBuf /\ lost' = lost /\ accepted' = accepted /\ wire' = wire
        /\ pc' = pc \/ (pc # "rewrite" /\ pc' # "rewrite")
    BY <1>4 DEF NoEvent, NoAck, vars
  <2>2. Pending' = Pending
    BY <2>1 DEF Pending, InMemory
  <2> QED
    BY <2>1, <2>2, Idle
<1>5. ASSUME SendMsgToServer PROVE FirstOnWire' /\ Reports
  BY <1>1, <1>5, SendReports
<1>6. ASSUME NEW p \in wire, ServerAccept(p) PROVE FirstOnWire' /\ Reports
  BY <1>1, <1>6, AcceptReports
<1>7. ASSUME NEW p \in accepted, IgnoreAck(p) PROVE FirstOnWire' /\ Reports
  <2>1. /\ AfterRead /\ pc # "rewrite" /\ pc' # "rewrite"
        /\ lost' = lost /\ accepted' = accepted /\ wire' = wire
    BY <1>7 DEF IgnoreAck
  <2>2. Pending' = Pending
    BY <1>1, <1>2, <2>1, ReadReports
  <2> QED
    BY <2>1, <2>2, Idle
<1>8. ASSUME NEW p \in accepted, DeleteBufMsg(p) PROVE FirstOnWire' /\ Reports
  BY <1>1, <1>8, DeleteReports
<1>9. ASSUME NEW p \in accepted, DeleteFails(p) PROVE FALSE
  BY <1>9 DEF DeleteFails
<1>10. ASSUME RewriteSpool PROVE FirstOnWire' /\ Reports
  <2>1. /\ pc = "rewrite" /\ pc' = "log" /\ file' = pBuf
        /\ lost' = lost /\ accepted' = accepted /\ wire' = wire
    BY <1>10 DEF RewriteSpool, CutShort
  <2>2. Pending' = Pending
    BY <2>1 DEF Pending, InMemory
  <2> QED
    BY <2>1, <2>2, Idle
<1>11. ASSUME Kill PROVE FirstOnWire' /\ Reports
  <2>1. /\ pc # "rewrite" /\ pc' = "log" /\ file' = file
        /\ accepted' = accepted /\ wire' = wire
    BY <1>11 DEF Kill
  <2>2. Pending' = Pending
    BY <2>1 DEF Pending, InMemory
  <2>3. HandledSet' = HandledSet
    BY <2>1 DEF HandledSet
  <2>4. FirstOnWire'
    BY <1>1, <2>1, <2>2 DEF RInv, FirstOnWire
  <2> QED
    BY <2>2, <2>3, <2>4 DEF Reports
<1> QED
  BY <1>3, <1>4, <1>5, <1>6, <1>7, <1>8, <1>9, <1>10, <1>11
     DEF Next, BigLoop, GetAckFromServer

(***************************************************************************)
(* Until a write is cut short, an allocation fails or a kill hits          *)
(* delete_buf_msg, the bytes implement the queue of Reporting, for any     *)
(* records, lengths and kills, and for a network that loses, repeats and   *)
(* reorders both payloads and acknowledgements.                            *)
(***************************************************************************)
THEOREM ReportingCorrect == Spec => ReportingUntilLoss
<1>1. Init => RInv /\ R!Init
  <2> SUFFICES ASSUME Init PROVE RInv /\ R!Init
    OBVIOUS
  <2>1. pc = "log" /\ file = <<>> /\ wire = {} /\ accepted = {}
    BY DEF Init
  <2>2. Pending = <<>>
    BY <2>1, RecordsEmpty DEF Pending, InMemory
  <2>3. HandledSet = {}
    BY <2>1 DEF HandledSet
  <2>4. FirstOnWire
    BY <2>1 DEF FirstOnWire
  <2>5. R!Init
    BY <2>2, <2>3 DEF R!Init
  <2> QED
    BY <2>4, <2>5, BInit DEF RInv
<1>2. RInv /\ [Next]_vars => RInv' /\ Reports
  BY RStep, BNext DEF RInv
<1>3. RInv /\ [Next]_vars => [R!Next \/ lost']_<<Pending, HandledSet>>
  BY <1>2 DEF Reports
<1> QED
  BY <1>1, <1>2, <1>3, PTL DEF Spec, ReportingUntilLoss
=============================================================================
