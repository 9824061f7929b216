---------------------------- MODULE WebPollProofs ----------------------------
(***************************************************************************)
(* What holds of report.txt and of the pages for every number of fields,   *)
(* reports, requests and browsers: types always; and as long as no clean   *)
(* overlaps a save or another clean, that a saved report stands in one     *)
(* piece, that the file is whole lines when no server is killed, and that  *)
(* it implements the log of ReportLog whether one is killed or not.        *)
(***************************************************************************)
EXTENDS WebPoll, SelectionProofs, SequenceTheorems, TLAPS

(* save_packet writes two cells for every field.                           *)
LEMMA LineShape ==
    ASSUME NEW x \in Row \cup {Header}
    PROVE  Line(x) \in Seq(Cell) /\ Len(Line(x)) = 2 * NumFields /\ Line(x) # <<>>
<1> DEFINE n == 2 * NumFields
<1>1. n \in Nat /\ n >= 2
  BY FieldsAssumption
<1>2. ASSUME NEW i \in 1 .. n
      PROVE  (IF i % 2 = 1 THEN <<x, (i + 1) \div 2>>
              ELSE IF i = n THEN Newline ELSE Tab) \in Cell
  <2>1. CASE i % 2 = 1
    <3>1. (i + 1) \div 2 \in 1 .. NumFields
      BY <2>1, FieldsAssumption
    <3> QED
      BY <2>1, <3>1 DEF Cell
  <2> QED
    BY <2>1 DEF Cell
<1>3. Line(x) \in [1 .. n -> Cell]
  BY <1>2 DEF Line
<1> QED
  BY <1>1, <1>3, SeqDef, EmptySeq

(* A write leaves a file that is as long as it has to be.                  *)
LEMMA WriteAtShape ==
    ASSUME NEW f \in Seq(Cell), NEW o \in Nat, NEW s \in Seq(Cell)
    PROVE  /\ WriteAt(f, o, s) \in Seq(Cell)
           /\ Len(WriteAt(f, o, s)) = IF Len(f) <= o + Len(s) THEN o + Len(s) ELSE Len(f)
           /\ \A i \in 1 .. Len(WriteAt(f, o, s)) :
                 WriteAt(f, o, s)[i] = IF i \in o + 1 .. o + Len(s) THEN s[i - o]
                                       ELSE IF i <= Len(f) THEN f[i] ELSE Hole
<1> DEFINE n == IF Len(f) <= o + Len(s) THEN o + Len(s) ELSE Len(f)
           v(i) == IF i \in o + 1 .. o + Len(s) THEN s[i - o]
                   ELSE IF i <= Len(f) THEN f[i] ELSE Hole
<1>1. Len(f) \in Nat /\ Len(s) \in Nat /\ n \in Nat
  OBVIOUS
<1>2. Max({Len(f), o + Len(s)}) = n
  BY <1>1, MaxOfTwo
<1>3. ASSUME NEW i \in 1 .. n PROVE v(i) \in Cell
  <2>1. CASE i \in o + 1 .. o + Len(s)
    BY <1>1, <2>1, ElementOfSeq
  <2>2. CASE i \notin o + 1 .. o + Len(s) /\ i <= Len(f)
    BY <1>1, <2>2, ElementOfSeq
  <2> QED
    BY <2>1, <2>2 DEF Cell
<1>4. WriteAt(f, o, s) = [i \in 1 .. n |-> v(i)]
  BY <1>2 DEF WriteAt
<1> HIDE DEF n, v
<1>5. WriteAt(f, o, s) \in [1 .. n -> Cell]
  BY <1>3, <1>4
<1>6. WriteAt(f, o, s) \in Seq(Cell) /\ Len(WriteAt(f, o, s)) = n
  BY <1>1, <1>5, SeqDef
<1> QED
  BY <1>4, <1>6 DEF n, v

(* A write of one cell at the end of a file appends it.                    *)
LEMMA WriteAtEnd ==
    ASSUME NEW f \in Seq(Cell), NEW x \in Cell
    PROVE  WriteAt(f, Len(f), <<x>>) = Append(f, x)
<1> DEFINE g == WriteAt(f, Len(f), <<x>>)
           h == Append(f, x)
           s == <<x>>
<1>1. s \in Seq(Cell) /\ Len(s) = 1 /\ Len(f) \in Nat /\ s[1] = x
  OBVIOUS
<1>2. g \in Seq(Cell) /\ Len(g) = Len(f) + 1
      /\ \A i \in 1 .. Len(g) : g[i] = IF i \in Len(f) + 1 .. Len(f) + 1 THEN s[i - Len(f)]
                                       ELSE IF i <= Len(f) THEN f[i] ELSE Hole
  <2> DEFINE o == Len(f)
  <2>1. g = WriteAt(f, o, s) /\ o \in Nat /\ o <= o + Len(s) /\ o + Len(s) = o + 1
    BY <1>1
  <2> HIDE DEF g, s, h
  <2>2. o = Len(f)
    OBVIOUS
  <2> HIDE DEF o
  <2>3. /\ g \in Seq(Cell)
        /\ Len(g) = IF Len(f) <= o + Len(s) THEN o + Len(s) ELSE Len(f)
        /\ \A i \in 1 .. Len(g) : g[i] = IF i \in o + 1 .. o + Len(s) THEN s[i - o]
                                         ELSE IF i <= Len(f) THEN f[i] ELSE Hole
    <3>1. s \in Seq(Cell) /\ o \in Nat
      BY <1>1, <2>1
    <3>2. /\ WriteAt(f, o, s) \in Seq(Cell)
          /\ Len(WriteAt(f, o, s)) = IF Len(f) <= o + Len(s) THEN o + Len(s) ELSE Len(f)
          /\ \A i \in 1 .. Len(WriteAt(f, o, s)) :
                WriteAt(f, o, s)[i] = IF i \in o + 1 .. o + Len(s) THEN s[i - o]
                                      ELSE IF i <= Len(f) THEN f[i] ELSE Hole
      BY <3>1, WriteAtShape, Zenon
    <3> QED
      BY <2>1, <3>2, Zenon
  <2> QED
    BY <1>1, <2>1, <2>2, <2>3
<1>3. /\ h \in Seq(Cell) /\ Len(h) = Len(f) + 1
      /\ \A i \in 1 .. Len(f) : h[i] = f[i]
      /\ h[Len(f) + 1] = x
  BY AppendProperties
<1> HIDE DEF g, h, s
<1>4. ASSUME NEW i \in 1 .. Len(g) PROVE g[i] = h[i]
  <2>1. CASE i = Len(f) + 1
    BY <1>1, <1>2, <1>3, <2>1
  <2>2. CASE i # Len(f) + 1
    <3>1. i \in 1 .. Len(f) /\ i \notin Len(f) + 1 .. Len(f) + 1 /\ i <= Len(f)
      BY <1>1, <1>2, <2>2
    <3> QED
      BY <1>2, <1>3, <3>1
  <2> QED
    BY <2>1, <2>2
<1>5. g = h
  BY <1>2, <1>3, <1>4, SeqEqual
<1> QED
  BY <1>5 DEF g, h

(* A line written to an empty file is all of it.                           *)
LEMMA WriteAtStart ==
    ASSUME NEW s \in Seq(Cell)
    PROVE  WriteAt(<<>>, 0, s) = s
<1> DEFINE f == <<>>
           o == 0
           g == WriteAt(f, o, s)
           n == Len(s)
<1>1. f \in Seq(Cell) /\ Len(f) = 0 /\ o \in Nat /\ o = 0 /\ n \in Nat
  OBVIOUS
<1> HIDE DEF f, o
<1>2. /\ g \in Seq(Cell)
      /\ Len(g) = IF Len(f) <= o + n THEN o + n ELSE Len(f)
      /\ \A i \in 1 .. Len(g) : g[i] = IF i \in o + 1 .. o + n THEN s[i - o]
                                       ELSE IF i <= Len(f) THEN f[i] ELSE Hole
  <2>1. f \in Seq(Cell) /\ o \in Nat
    BY <1>1
  <2> QED
    BY <2>1, WriteAtShape, Zenon
<1> HIDE DEF g, n
<1>3. Len(g) = n
  BY <1>1, <1>2
<1>4. ASSUME NEW i \in 1 .. Len(g) PROVE g[i] = s[i]
  <2>1. i \in o + 1 .. o + n /\ i - o = i
    BY <1>1, <1>3
  <2> QED
    BY <1>2, <2>1
<1>5. g = s
  BY <1>2, <1>3, <1>4, SeqEqual DEF n
<1> QED
  BY <1>5 DEF g, f, o

(* A line as read_file trims it is a piece of the file, without a newline. *)
LEMMA LineFromType ==
    ASSUME NEW f \in Seq(Cell), NEW from \in 1 .. Len(f), IsText(f[from])
    PROVE  /\ LineFrom(f, from) \in Seq(Cell)
           /\ \A i \in DOMAIN LineFrom(f, from) : LineFrom(f, from)[i] # Newline
<1> DEFINE n == Len(f)
           ends == {i \in DOMAIN f : i > from /\ f[i] = Newline}
           last1 == IF ends = {} THEN n ELSE Min(ends)
           T == {i \in from .. last1 : IsText(f[i])}
           upto == Max(T)
           s == LineFrom(f, from)
<1>1. n \in Nat /\ DOMAIN f = 1 .. n /\ ~IsText(Newline) /\ from \in Nat
  BY DEF IsText
<1>2. s = SubSeq(f, from, upto)
  BY DEF LineFrom
<1>3. /\ last1 \in from .. n
      /\ \A i \in 1 .. n : i > from /\ f[i] = Newline => last1 <= i
  <2>1. CASE ends # {}
    <3>1. ends \in SUBSET Nat
      BY <1>1
    <3>2. last1 \in ends /\ \A i \in ends : last1 <= i
      <4> HIDE DEF ends
      <4> QED
        BY <2>1, <3>1, MinOf
    <3> QED
      BY <1>1, <3>2
  <2>2. CASE ends = {}
    <3>1. \A i \in 1 .. n : ~(i > from /\ f[i] = Newline)
      BY <1>1, <2>2
    <3> QED
      BY <1>1, <2>2, <3>1
  <2> QED
    BY <2>1, <2>2
<1> HIDE DEF last1, s
<1>4. upto \in from .. last1 /\ IsText(f[upto])
  <2>1. T \in SUBSET (0 .. n) /\ from \in T
    BY <1>1, <1>3
  <2>2. Max(T) \in T
    BY <1>1, <2>1, MaxOf
  <2> QED
    BY <2>2
<1> HIDE DEF upto
<1>5. upto \in Nat /\ from <= upto /\ upto <= n
  BY <1>1, <1>3, <1>4
<1>6. ASSUME NEW i \in from .. upto PROVE f[i] # Newline
  <2> SUFFICES ASSUME f[i] = Newline PROVE FALSE
    OBVIOUS
  <2>1. i \in 1 .. n /\ i # from /\ i # upto
    BY <1>1, <1>4, <1>5
  <2>2. i > from /\ i < upto
    BY <1>1, <1>5, <2>1
  <2>3. last1 <= i /\ upto <= last1
    BY <1>3, <1>4, <2>1, <2>2
  <2> QED
    BY <1>1, <1>3, <1>5, <2>1, <2>2, <2>3
<1>7. \A i \in from .. upto : f[i] \in Cell
  BY <1>1, <1>5, ElementOfSeq
<1>8. /\ SubSeq(f, from, upto) \in Seq(Cell)
      /\ Len(SubSeq(f, from, upto)) = IF from <= upto THEN upto - from + 1 ELSE 0
      /\ \A k \in 1 .. upto - from + 1 : SubSeq(f, from, upto)[k] = f[from + k - 1]
  BY <1>1, <1>5, <1>7, SubSeqProperties
<1>9. /\ s \in Seq(Cell) /\ DOMAIN s = 1 .. upto - from + 1
      /\ \A k \in 1 .. upto - from + 1 : s[k] = f[from + k - 1]
  BY <1>2, <1>5, <1>8
<1>10. \A k \in 1 .. upto - from + 1 : from + k - 1 \in from .. upto
  BY <1>1, <1>5
<1>11. \A k \in DOMAIN s : s[k] # Newline
  BY <1>6, <1>9, <1>10
<1> QED
  BY <1>9, <1>11 DEF s

(* read_file's first line is such a line, or empty.                        *)
LEMMA FirstLineType ==
    ASSUME NEW f \in Seq(Cell)
    PROVE  /\ FirstLine(f) \in Seq(Cell)
           /\ \A i \in DOMAIN FirstLine(f) : FirstLine(f)[i] # Newline
<1> DEFINE from == SelectInSeq(f, IsText)
           texts == {i \in 1 .. Len(f) : IsText(f[i])}
<1>1. from = IF texts # {} THEN Min(texts) ELSE 0
  BY DEF SelectInSeq
<1>2. CASE texts = {}
  <2>1. from = 0
    BY <1>1, <1>2
  <2>2. FirstLine(f) = <<>>
    BY <2>1 DEF FirstLine
  <2> QED
    BY <2>2
<1>3. CASE texts # {}
  <2>1. from \in texts
    <3>1. texts \in SUBSET Nat
      OBVIOUS
    <3> HIDE DEF texts, from
    <3> QED
      BY <1>1, <1>3, <3>1, MinOf
  <2> HIDE DEF from
  <2>2. from # 0 /\ from \in 1 .. Len(f) /\ IsText(f[from])
    BY <2>1
  <2>3. FirstLine(f) = LineFrom(f, from)
    BY <2>2 DEF FirstLine, from
  <2> QED
    BY <2>2, <2>3, LineFromType
<1> QED
  BY <1>2, <1>3

(* What is written comes off what is still to be written.                  *)
LEMMA MoveHead ==
    ASSUME NEW f \in Seq(Cell), NEW t \in Seq(Cell), t # <<>>
    PROVE  Append(f, Head(t)) \o Tail(t) = f \o t
<1> DEFINE h == Head(t)
           u == Tail(t)
           g == Append(f, h)
           x == g \o u
           y == f \o t
<1>1. /\ h \in Cell /\ u \in Seq(Cell) /\ Len(u) = Len(t) - 1
      /\ \A i \in 1 .. Len(u) : u[i] = t[i + 1]
  BY HeadTailProperties
<1>2. h = t[1] /\ Len(t) \in Nat \ {0} /\ Len(f) \in Nat
  BY EmptySeq
<1>3. /\ g \in Seq(Cell) /\ Len(g) = Len(f) + 1
      /\ \A i \in 1 .. Len(f) : g[i] = f[i]
      /\ g[Len(f) + 1] = h
  BY <1>1, AppendProperties
<1> HIDE DEF h, u, g
<1>4. /\ x \in Seq(Cell) /\ Len(x) = Len(g) + Len(u)
      /\ \A i \in 1 .. Len(g) + Len(u) : x[i] = IF i <= Len(g) THEN g[i] ELSE u[i - Len(g)]
  BY <1>1, <1>3, ConcatProperties
<1>5. /\ y \in Seq(Cell) /\ Len(y) = Len(f) + Len(t)
      /\ \A i \in 1 .. Len(f) + Len(t) : y[i] = IF i <= Len(f) THEN f[i] ELSE t[i - Len(f)]
  BY ConcatProperties
<1> HIDE DEF x, y
<1>6. Len(x) = Len(y)
  BY <1>1, <1>2, <1>3, <1>4, <1>5
<1>7. ASSUME NEW i \in 1 .. Len(x) PROVE x[i] = y[i]
  <2>1. CASE i <= Len(f)
    <3>1. i \in 1 .. Len(f) /\ i <= Len(g) /\ i \in 1 .. Len(g) + Len(u) /\ i \in 1 .. Len(f) + Len(t)
      BY <1>1, <1>2, <1>3, <1>4, <2>1
    <3>2. x[i] = g[i] /\ y[i] = f[i]
      BY <1>4, <1>5, <2>1, <3>1
    <3> QED
      BY <1>3, <3>1, <3>2
  <2>2. CASE i = Len(f) + 1
    <3>1. i - Len(f) = 1 /\ ~(i <= Len(f)) /\ i <= Len(g) /\ i \in 1 .. Len(f) + Len(t)
      BY <1>2, <1>3, <2>2
    <3>2. x[i] = h
      BY <1>1, <1>3, <1>4, <2>2, <3>1
    <3>3. y[i] = t[1]
      BY <1>5, <3>1
    <3> QED
      BY <1>2, <3>2, <3>3
  <2>3. CASE i > Len(f) + 1
    <3>1. /\ i - Len(g) \in 1 .. Len(u) /\ ~(i <= Len(f)) /\ ~(i <= Len(g))
          /\ (i - Len(g)) + 1 = i - Len(f) /\ i \in 1 .. Len(f) + Len(t)
      BY <1>1, <1>2, <1>3, <1>4, <2>3
    <3>2. x[i] = u[i - Len(g)]
      BY <1>4, <3>1
    <3>3. u[i - Len(g)] = t[(i - Len(g)) + 1]
      BY <1>1, <3>1
    <3>4. y[i] = t[i - Len(f)]
      BY <1>5, <3>1
    <3> QED
      BY <3>1, <3>2, <3>3, <3>4
  <2> QED
    BY <1>2, <1>4, <2>1, <2>2, <2>3
<1>8. x = y
  BY <1>4, <1>5, <1>6, <1>7, SeqEqual
<1> QED
  BY <1>8 DEF x, y, g, h, u

-----------------------------------------------------------------------------
(***************************************************************************)
(* Types hold whatever overlaps or is killed.                              *)
(***************************************************************************)
LEMMA WriteType ==
    ASSUME ReportTypeOK, Write
    PROVE  ReportTypeOK'
<1>1. /\ todo \in Seq(Cell) /\ todo # <<>> /\ todo' = Tail(todo)
      /\ file \in Seq(Cell) /\ off \in Nat /\ saving \in Row /\ saving # NoRow
  <2>1. todo # <<>> /\ todo' = Tail(todo)
    BY DEF Write
  <2> QED
    BY <2>1 DEF ReportTypeOK
<1>2. Head(todo) \in Cell /\ todo' \in Seq(Cell) /\ Len(todo') = Len(todo) - 1
  BY <1>1, HeadTailProperties
<1>3. Len(todo) = 1 <=> todo' = <<>>
  <2>1. Len(todo') = 0 <=> todo' = <<>>
    BY <1>2, EmptySeq
  <2>2. Len(todo) \in Nat
    BY <1>1
  <2> QED
    BY <1>2, <2>1, <2>2
<1>4. file' \in Seq(Cell)
  <2> DEFINE o == IF append THEN Len(file) ELSE off
  <2>1. file' = WriteAt(file, o, <<Head(todo)>>)
    BY DEF Write
  <2>2. <<Head(todo)>> \in Seq(Cell) /\ o \in Nat
    BY <1>1, <1>2
  <2> HIDE DEF o
  <2> QED
    BY <1>1, <2>1, <2>2, WriteAtShape
<1>5. /\ saving' \in Row \cup {NoRow} /\ (saving' = NoRow <=> todo' = <<>>)
      /\ saved' \subseteq Row /\ fresh' \subseteq Row \cap (saved' \cup {saving'})
  <2>1. saved \subseteq Row /\ fresh \subseteq Row \cap (saved \cup {saving}) /\ fresh' = fresh
    BY DEF Write, ReportTypeOK
  <2>2. CASE Len(todo) = 1
    <3>1. saved' = saved \cup {saving} /\ saving' = NoRow
      BY <2>2 DEF Write
    <3> QED
      BY <1>1, <1>3, <2>1, <2>2, <3>1
  <2>3. CASE Len(todo) # 1
    <3>1. saved' = saved /\ saving' = saving
      BY <2>3 DEF Write
    <3> QED
      BY <1>1, <1>3, <2>1, <2>3, <3>1
  <2> QED
    BY <2>2, <2>3
<1>6. /\ off' \in Nat
      /\ cpc' = cpc /\ header' = header /\ cleans' = cleans /\ kills' = kills
  BY DEF Write, ReportTypeOK, cleanVars
<1>7. append' = append /\ present' = present /\ headless' = headless /\ present
  BY <1>1 DEF Write, ReportTypeOK, cleanVars
<1> QED
  BY <1>2, <1>4, <1>5, <1>6, <1>7 DEF ReportTypeOK

(* save_packet opens or creates report.txt.                                *)
LEMMA OpenType ==
    ASSUME ReportTypeOK, NEW r \in Row, OpenReport(r)
    PROVE  ReportTypeOK'
<1>1. todo' \in Seq(Cell) /\ todo' # <<>>
  <2>1. Line(r) \in Seq(Cell) /\ Line(r) # <<>>
    BY LineShape
  <2>2. Line(Header) \o Line(r) \in Seq(Cell) /\ Line(Header) \o Line(r) # <<>>
    <3>1. Line(Header) \in Seq(Cell) /\ Len(Line(Header)) = 2 * NumFields /\ 2 * NumFields \in Nat \ {0}
      BY LineShape, FieldsAssumption
    <3>2. /\ Line(Header) \o Line(r) \in Seq(Cell)
          /\ Len(Line(Header) \o Line(r)) = Len(Line(Header)) + Len(Line(r))
      BY <2>1, <3>1, ConcatProperties
    <3> QED
      BY <2>1, <3>1, <3>2, EmptySeq
  <2>3. todo' = Line(r) \/ todo' = Line(Header) \o Line(r)
    BY DEF OpenReport
  <2> QED
    BY <2>1, <2>2, <2>3
<1>2. saving' = r /\ saving' # NoRow /\ saved' = saved /\ fresh' = fresh \cup {r}
      /\ saving = NoRow
  BY RowAssumption DEF OpenReport
<1>3. saved \subseteq Row /\ fresh \subseteq Row \cap saved
  BY <1>2, RowAssumption DEF ReportTypeOK
<1>4. file' = file /\ off' = 0 /\ cpc' = cpc /\ header' = header /\ cleans' = cleans /\ kills' = kills
  BY DEF OpenReport, cleanVars
<1>5. /\ present' \in BOOLEAN /\ append' \in BOOLEAN /\ headless' \in BOOLEAN
      /\ present'
  BY DEF OpenReport, cleanVars, ReportTypeOK
<1>6. /\ file' \in Seq(Cell) /\ off' \in Nat
      /\ cpc' \in [Cleaner -> {"idle", "read", "truncated"}]
      /\ header' \in [Cleaner -> Seq(Cell)]
      /\ cleans' \in 0 .. MaxCleans /\ kills' \in 0 .. MaxKills
  BY <1>4 DEF ReportTypeOK
<1>7. /\ saving' \in Row \cup {NoRow} /\ (saving' = NoRow <=> todo' = <<>>)
      /\ saved' \subseteq Row /\ fresh' \subseteq Row \cap (saved' \cup {saving'})
  BY <1>1, <1>2, <1>3
<1> QED
  BY <1>1, <1>5, <1>6, <1>7 DEF ReportTypeOK

(* The server is killed.                                                   *)
LEMMA KillType ==
    ASSUME ReportTypeOK, KillServer
    PROVE  ReportTypeOK'
<1>1. /\ todo' = <<>> /\ todo' \in Seq(Cell) /\ saving' = NoRow
      /\ fresh' = fresh \ {saving} /\ saved' = saved
      /\ file' = file /\ off' = off /\ cpc' = cpc /\ header' = header /\ cleans' = cleans
  BY DEF KillServer, cleanVars
<1>2. kills' \in 0 .. MaxKills
  BY BoundAssumption DEF KillServer, ReportTypeOK
<1>3. /\ present' \in BOOLEAN /\ append' \in BOOLEAN /\ headless' \in BOOLEAN
      /\ (~present' => file' = <<>>)
      /\ \A d \in Cleaner : cpc'[d] = "truncated" => present'
  BY DEF KillServer, cleanVars, ReportTypeOK
<1>4. saved' \subseteq Row /\ fresh' \subseteq Row \cap (saved' \cup {saving'})
  BY <1>1 DEF ReportTypeOK
<1> QED
  BY <1>1, <1>2, <1>3, <1>4 DEF ReportTypeOK

(* The three steps of clean_file.                                          *)
LEMMA CleanType ==
    ASSUME ReportTypeOK, NEW c \in Cleaner, CleanRead(c) \/ CleanTruncate(c) \/ CleanWrite(c)
    PROVE  ReportTypeOK'
<1>1. /\ todo' = todo /\ off' = off /\ saving' = saving /\ saved' = saved /\ kills' = kills
  BY DEF CleanRead, CleanTruncate, CleanWrite, serverVars
<1>2. cpc' \in [Cleaner -> {"idle", "read", "truncated"}]
  BY DEF CleanRead, CleanTruncate, CleanWrite, ReportTypeOK
<1>3. cleans' \in 0 .. MaxCleans
  BY BoundAssumption DEF CleanRead, CleanTruncate, CleanWrite, ReportTypeOK
<1>4. fresh' \subseteq Row \cap (saved' \cup {saving'})
  BY <1>1 DEF CleanRead, CleanTruncate, CleanWrite, ReportTypeOK
<1>5. /\ present' \in BOOLEAN /\ append' \in BOOLEAN /\ headless' \in BOOLEAN
      /\ present' = present \/ present' = TRUE
  BY DEF CleanRead, CleanTruncate, CleanWrite, cleanVars, serverVars, ReportTypeOK
<1>6. file' \in Seq(Cell) /\ header' \in [Cleaner -> Seq(Cell)]
  <2>0. file \in Seq(Cell) /\ header \in [Cleaner -> Seq(Cell)] /\ <<>> \in Seq(Cell)
    BY DEF ReportTypeOK
  <2>1. CASE CleanRead(c)
    BY <2>0, <2>1, FirstLineType DEF CleanRead
  <2>2. CASE CleanTruncate(c)
    BY <2>0, <2>2 DEF CleanTruncate
  <2>3. CASE CleanWrite(c)
    <3>1. <<Newline>> \in Seq(Cell)
      BY DEF Cell
    <3>2. header[c] \o <<Newline>> \in Seq(Cell)
      BY <2>0, <3>1, ConcatProperties
    <3>3. file' = WriteAt(file, 0, header[c] \o <<Newline>>) /\ header' = [header EXCEPT ![c] = <<>>]
      BY <2>3 DEF CleanWrite
    <3>4. file' \in Seq(Cell)
      BY <2>0, <3>2, <3>3, WriteAtShape
    <3> QED
      BY <2>0, <3>3, <3>4
  <2> QED
    BY <2>1, <2>2, <2>3
<1>7. ~present' => file' = <<>>
  <2>1. CASE CleanRead(c)
    BY <2>1 DEF CleanRead, ReportTypeOK
  <2>2. CASE CleanTruncate(c)
    BY <2>2 DEF CleanTruncate
  <2>3. CASE CleanWrite(c)
    BY <2>3 DEF CleanWrite, ReportTypeOK
  <2> QED
    BY <2>1, <2>2, <2>3
<1>8. \A d \in Cleaner : cpc'[d] = "truncated" => present'
  BY DEF CleanRead, CleanTruncate, CleanWrite, ReportTypeOK
<1> QED
  BY <1>1, <1>2, <1>3, <1>4, <1>5, <1>6, <1>7, <1>8 DEF ReportTypeOK

(* Every step on report.txt keeps its types.                               *)
LEMMA ReportTypeNext ==
    ASSUME ReportTypeOK, ReportNext
    PROVE  ReportTypeOK'
  BY WriteType, OpenType, KillType, CleanType DEF ReportNext

(* An answer of log.php: a head, some rows, and the number of pages.       *)
LEMMA AnswerIs ==
    ASSUME NEW f \in Seq(Cell), NEW p \in Nat
    PROVE  Answer(f, p) \in AnswerType
<1> DEFINE starts == LineStarts(f)
           rest == Cardinality(starts) - 1
           pages == (rest + PageSize - 1) \div PageSize
           before == PageSize * Min({p, pages - 1})
           size == Min({PageSize, rest - before})
           at(k) == rest + 2 - before - k
           row(k) == LineFrom(f, Nth(starts, at(k)))
           rows == IF pages = 0 THEN <<>> ELSE [k \in 1 .. size |-> row(k)]
<1>1. Len(f) \in Nat /\ DOMAIN f = 1 .. Len(f)
  OBVIOUS
<1>2. /\ starts \in SUBSET Nat /\ starts \in SUBSET (1 .. Len(f))
      /\ \A i \in starts : i \in 1 .. Len(f) /\ IsText(f[i])
  BY <1>1 DEF LineStarts
<1>3. IsFiniteSet(starts)
  <2> DEFINE one == 1
             m == Len(f)
  <2>1. one \in Int /\ m \in Int /\ starts \in SUBSET (one .. m)
    BY <1>1, <1>2
  <2> HIDE DEF one, m, starts
  <2>2. IsFiniteSet(one .. m)
    BY <2>1, FS_Interval
  <2> QED
    BY <2>1, <2>2, FS_Subset
<1>4. CASE starts = {}
  <2>1. Answer(f, p) = NoAnswer
    BY <1>4 DEF Answer
  <2> QED
    BY <2>1 DEF NoAnswer, AnswerType
<1>5. CASE starts # {}
  <2> HIDE DEF starts
  <2>1. /\ Cardinality(starts) \in Nat \ {0}
        /\ \A k \in 1 .. Cardinality(starts) : Nth(starts, k) \in starts
    BY <1>2, <1>3, <1>5, NthOf, FS_EmptySet
  <2>2. rest \in Nat /\ PageSize \in Nat \ {0} /\ Cardinality(starts) = rest + 1
    BY <2>1, PageAssumption
  <2>3. \A k \in 1 .. rest + 1 : LineFrom(f, Nth(starts, k)) \in Seq(Cell)
    <3>1. \A k \in 1 .. rest + 1 : Nth(starts, k) \in 1 .. Len(f) /\ IsText(f[Nth(starts, k)])
      BY <1>2, <2>1, <2>2
    <3> HIDE DEF rest
    <3> QED
      BY <3>1, LineFromType
  <2> HIDE DEF rest
  <2>4. pages \in Nat
    BY <2>2
  <2>5. rows \in Seq(Seq(Cell))
    <3>1. CASE pages = 0
      BY <3>1
    <3>2. CASE pages # 0
      <4> DEFINE m == Min({p, pages - 1})
      <4>1. m \in Nat
        <5> DEFINE S == {p, pages - 1}
        <5>1. S \in SUBSET Nat /\ S # {}
          BY <2>4, <3>2
        <5> HIDE DEF S
        <5> QED
          BY <5>1, MinOf DEF S
      <4> HIDE DEF m, pages
      <4>2. PageSize * m \in Nat
        BY <2>2, <4>1
      <4>3. before \in Nat
        BY <4>2 DEF m
      <4> HIDE DEF before
      <4>4. size \in Int /\ size <= rest - before
        <5>1. PageSize \in Int /\ rest - before \in Int
          BY <2>2, <4>3
        <5>2. \E x \in {PageSize, rest - before} : \A y \in {PageSize, rest - before} : x <= y
          BY <5>1
        <5>3. size \in {PageSize, rest - before} /\ \A y \in {PageSize, rest - before} : size <= y
          BY <5>2 DEF Min
        <5> HIDE DEF size
        <5> QED
          BY <5>1, <5>3
      <4> HIDE DEF size
      <4>5. ASSUME NEW k \in 1 .. size PROVE row(k) \in Seq(Cell)
        <5>1. at(k) \in 1 .. rest + 1
          BY <2>2, <4>3, <4>4
        <5> HIDE DEF at
        <5> QED
          BY <2>3, <5>1
      <4> DEFINE q == IF size < 0 THEN 0 ELSE size
      <4>6. q \in Nat /\ 1 .. q = 1 .. size
        BY <4>4
      <4> HIDE DEF q, row
      <4>7. [k \in 1 .. q |-> row(k)] \in [1 .. q -> Seq(Cell)]
        BY <4>5, <4>6
      <4>8. [k \in 1 .. q |-> row(k)] \in Seq(Seq(Cell))
        BY <4>6, <4>7, SeqDef
      <4> QED
        BY <3>2, <4>6, <4>8
    <3> QED
      BY <3>1, <3>2
  <2> DEFINE h == LineFrom(f, Nth(starts, 1))
  <2>6. h \in Seq(Cell)
    BY <2>2, <2>3
  <2>7. Answer(f, p) = [head |-> h, rows |-> rows, pages |-> pages]
    BY <1>5 DEF Answer, starts, rest
  <2> HIDE DEF h, rows, pages
  <2> QED
    BY <2>4, <2>5, <2>6, <2>7 DEF AnswerType
<1> QED
  BY <1>4, <1>5

(* The part of TypeOK that is about the browsers.                          *)
PollTypeOK ==
    /\ last \in Nat /\ open \in [Browser -> BOOLEAN]
    /\ req \in [Browser -> [Slot -> {"none", "last", "stat", "put", "read", "reply"}]]
    /\ known \in [Browser -> [Slot -> Nat]]
    /\ asked \in [Browser -> [Slot -> Nat]]
    /\ answer \in [Browser -> [Slot -> AnswerType]]
    /\ shown \in [Browser -> AnswerType]
    /\ \A b \in Browser :
          /\ ~open[b] => shown[b] = NoAnswer
          /\ \A k \in Slot :
                /\ req[b][k] # "none" => open[b]
                /\ req[b][k] # "reply" => answer[b][k] = NoAnswer
                /\ req[b][k] # "read" => asked[b][k] = 0

(* TypeOK is about report.txt and about the pages.                         *)
LEMMA TypeParts == TypeOK <=> ReportTypeOK /\ PollTypeOK
  BY DEF TypeOK, PollTypeOK

(* Every step of a page or of log.php keeps theirs.                        *)
LEMMA PollTypeNext ==
    ASSUME PollTypeOK, file \in Seq(Cell), PollNext
    PROVE  PollTypeOK'
<1>1. PICK b \in Browser, k \in Slot :
         Load(b, k) \/ Request(b, k) \/ \E p \in 0 .. shown[b].pages : Click(b, k, p)
  BY DEF PollNext
<1>2. Size \in Nat
  BY DEF Size
<1>3. NoAnswer \in AnswerType
  BY DEF NoAnswer, AnswerType
<1> USE DEF PollTypeOK, Goto
<1>4. CASE Load(b, k)
  BY <1>4 DEF Load
<1>5. CASE Poll(b, k)
  BY <1>5 DEF Poll
<1>6. CASE GetLast(b, k)
  BY <1>6 DEF GetLast
<1>7. CASE Unchanged(b, k)
  BY <1>7 DEF Unchanged
<1>8. CASE Changed(b, k)
  BY <1>2, <1>8 DEF Changed
<1>9. CASE PutLast(b, k)
  BY <1>9 DEF PutLast
<1>10. CASE ReadReport(b, k)
  <2>1. Answer(file, asked[b][k]) \in AnswerType
    BY AnswerIs
  <2> QED
    BY <1>10, <2>1 DEF ReadReport
<1>11. CASE Reply(b, k)
  BY <1>3, <1>11 DEF Reply, Show
<1>12. CASE \E p \in 0 .. shown[b].pages : Click(b, k, p)
  <2>1. PICK p \in 0 .. shown[b].pages : Click(b, k, p)
    BY <1>12
  <2>2. p \in Nat
    BY DEF AnswerType
  <2> QED
    BY <2>1, <2>2 DEF Click
<1> QED
  BY <1>1, <1>4, <1>5, <1>6, <1>7, <1>8, <1>9, <1>10, <1>11, <1>12 DEF Request

(* Types, whatever overlaps and is killed: while save_packet writes, the   *)
(* file exists, and only a page that was loaded asks or shows.             *)
THEOREM WebTypeCorrect == Spec => []TypeOK
<1>1. Init => TypeOK
  <2> SUFFICES ASSUME Init PROVE TypeOK
    OBVIOUS
  <2>1. cleans \in 0 .. MaxCleans /\ kills \in 0 .. MaxKills
    BY BoundAssumption DEF Init, ReportInit
  <2>2. ReportTypeOK
    <3>1. present \in BOOLEAN /\ append \in BOOLEAN /\ headless \in BOOLEAN
      BY DEF Init, ReportInit
    <3>2. /\ file = <<>> /\ file \in Seq(Cell) /\ todo = <<>> /\ todo \in Seq(Cell)
          /\ off \in Nat /\ saving = NoRow /\ saved = {} /\ fresh = {}
          /\ cpc = [c \in Cleaner |-> "idle"] /\ header = [c \in Cleaner |-> <<>>]
      BY DEF Init, ReportInit
    <3> QED
      BY <2>1, <3>1, <3>2 DEF ReportTypeOK
  <2>3. PollTypeOK
    <3>1. NoAnswer \in AnswerType
      BY DEF NoAnswer, AnswerType
    <3> QED
      BY <3>1 DEF Init, PollTypeOK
  <2> QED
    BY <2>2, <2>3, TypeParts
<1>2. TypeOK /\ [Next]_vars => TypeOK'
  <2> SUFFICES ASSUME TypeOK, [Next]_vars PROVE TypeOK'
    OBVIOUS
  <2>1. UNCHANGED reportVars => ReportTypeOK'
    BY DEF TypeOK, ReportTypeOK, reportVars, serverVars, cleanVars
  <2>2. UNCHANGED pollVars => PollTypeOK'
    BY TypeParts DEF PollTypeOK, pollVars
  <2>3. file \in Seq(Cell)
    BY DEF TypeOK, ReportTypeOK
  <2>4. ReportTypeOK' /\ PollTypeOK'
    BY <2>1, <2>2, <2>3, TypeParts, ReportTypeNext, PollTypeNext DEF Next, vars
  <2> QED
    BY <2>4 DEF TypeOK, PollTypeOK
<1> QED
  BY <1>1, <1>2, PTL DEF Spec

-----------------------------------------------------------------------------
(***************************************************************************)
(* Why a saved report stands in one piece: save_packet always writes at    *)
(* the end, with O_APPEND or at the offset of a file it created; what it   *)
(* has still to write completes the line; and while nobody overlaps, only  *)
(* a truncation takes anything away, after which nothing is fresh.         *)
(***************************************************************************)
EndsWith(f, r) ==
    /\ 2 * NumFields <= Len(f)
    /\ \A k \in 1 .. 2 * NumFields : f[(Len(f) - 2 * NumFields) + k] = Line(r)[k]

SavedInv ==
    /\ saving # NoRow => ~Cleaning
    /\ \A c \in Cleaner : cpc[c] = "truncated" => fresh = {}
    /\ todo # <<>> => append \/ off = Len(file)
    /\ todo # <<>> => EndsWith(file \o todo, saving)
    /\ \A r \in saved \cap fresh : StandsIn(file, r)

(* A report at the end of a file stands in it.                             *)
LEMMA EndStands ==
    ASSUME NEW f \in Seq(Cell), NEW r, EndsWith(f, r)
    PROVE  StandsIn(f, r)
<1> DEFINE n == 2 * NumFields
           i == (Len(f) - n) + 1
<1>1. n \in Nat \ {0} /\ Len(f) \in Nat /\ n <= Len(f) /\ DOMAIN f = 1 .. Len(f)
  BY FieldsAssumption DEF EndsWith
<1>2. \A k \in 1 .. n : i + k - 1 = (Len(f) - n) + k
  BY <1>1
<1>3. i \in DOMAIN f /\ i + n - 1 <= Len(f)
  BY <1>1
<1> HIDE DEF i
<1> QED
  BY <1>2, <1>3 DEF EndsWith, StandsIn, LineAt

(* What stands in a file stands in every longer one.                       *)
LEMMA LongerStands ==
    ASSUME NEW f \in Seq(Cell), NEW g \in Seq(Cell), NEW x, NEW i \in Nat \ {0},
           Len(f) <= Len(g), \A j \in 1 .. Len(f) : g[j] = f[j],
           LineAt(f, i, x)
    PROVE  LineAt(g, i, x)
<1> DEFINE n == 2 * NumFields
<1>1. n \in Nat \ {0} /\ Len(f) \in Nat /\ Len(g) \in Nat
  BY FieldsAssumption
<1>2. i + n - 1 <= Len(f) /\ \A k \in 1 .. n : f[i + k - 1] = Line(x)[k]
  BY DEF LineAt
<1>3. i + n - 1 <= Len(g) /\ \A k \in 1 .. n : i + k - 1 \in 1 .. Len(f)
  BY <1>1, <1>2
<1> QED
  BY <1>2, <1>3 DEF LineAt

(* It still stands there after one more cell.                              *)
LEMMA AppendStands ==
    ASSUME NEW f \in Seq(Cell), NEW x \in Cell, NEW r, StandsIn(f, r)
    PROVE  StandsIn(Append(f, x), r)
<1> DEFINE g == Append(f, x)
<1>1. g \in Seq(Cell) /\ Len(g) = Len(f) + 1 /\ \A i \in 1 .. Len(f) : g[i] = f[i]
  BY AppendProperties
<1>2. Len(f) \in Nat /\ DOMAIN f = 1 .. Len(f)
  OBVIOUS
<1> HIDE DEF g
<1>3. PICK i \in DOMAIN f : LineAt(f, i, r)
  BY DEF StandsIn
<1>4. i \in Nat \ {0} /\ i \in DOMAIN g /\ Len(f) <= Len(g)
  BY <1>1, <1>2
<1>5. LineAt(g, i, r)
  BY <1>1, <1>3, <1>4, LongerStands
<1> QED
  BY <1>4, <1>5 DEF StandsIn, g

(* save_packet begins a report: it will end the file.                      *)
LEMMA OpenSaved ==
    ASSUME ReportTypeOK, SavedInv, ~Overlap, NEW r \in Row, OpenReport(r)
    PROVE  SavedInv'
<1>1. /\ saving = NoRow /\ r \notin saved /\ ~Cleaning /\ saving' = r
      /\ fresh' = fresh \cup {r} /\ saved' = saved /\ file' = file /\ cpc' = cpc /\ off' = 0
      /\ append' = present
  BY DEF OpenReport, cleanVars
<1>2. ~Cleaning'
  BY <1>1 DEF Cleaning
<1>3. \A c \in Cleaner : cpc'[c] # "truncated"
  BY <1>1 DEF Cleaning
<1>4. append' \/ off' = Len(file')
  BY <1>1 DEF ReportTypeOK
<1>5. EndsWith(file' \o todo', r)
  <2> DEFINE n == 2 * NumFields
             h == IF present THEN file ELSE Line(Header)
             g == file \o todo'
  <2>1. n \in Nat /\ Line(r) \in Seq(Cell) /\ Len(Line(r)) = n
    BY LineShape, FieldsAssumption
  <2>2. h \in Seq(Cell)
    BY LineShape DEF ReportTypeOK
  <2>3. g = h \o Line(r)
    <3>1. CASE present
      BY <3>1 DEF OpenReport
    <3>2. CASE ~present
      <4>1. file = <<>> /\ todo' = Line(Header) \o Line(r)
        BY <3>2 DEF OpenReport, ReportTypeOK
      <4>2. Line(Header) \o Line(r) \in Seq(Cell)
        BY <2>1, LineShape, ConcatProperties
      <4> QED
        BY <3>2, <4>1, <4>2, ConcatEmptySeq
    <3> QED
      BY <3>1, <3>2
  <2> HIDE DEF h, g
  <2>4. /\ Len(g) = Len(h) + n
        /\ \A i \in 1 .. Len(h) + n : g[i] = IF i <= Len(h) THEN h[i] ELSE Line(r)[i - Len(h)]
    BY <2>1, <2>2, <2>3, ConcatProperties
  <2>5. Len(h) \in Nat /\ n <= Len(g) /\ Len(g) - n = Len(h)
    BY <2>1, <2>2, <2>4
  <2>6. ASSUME NEW k \in 1 .. n PROVE g[Len(h) + k] = Line(r)[k]
    <3>1. Len(h) + k \in 1 .. Len(h) + n /\ ~(Len(h) + k <= Len(h)) /\ (Len(h) + k) - Len(h) = k
      BY <2>1, <2>5
    <3> QED
      BY <2>4, <3>1
  <2>7. EndsWith(g, r)
    BY <2>5, <2>6 DEF EndsWith
  <2> QED
    BY <1>1, <2>7 DEF g
<1>6. \A q \in saved' \cap fresh' : StandsIn(file', q)
  BY <1>1 DEF SavedInv
<1> QED
  BY <1>1, <1>2, <1>3, <1>4, <1>5, <1>6 DEF SavedInv

(* One write(2) moves the next cell of todo to the end of the file.        *)
LEMMA WriteAppends ==
    ASSUME ReportTypeOK, SavedInv, Write
    PROVE  file' = Append(file, Head(todo)) /\ file' \o todo' = file \o todo
<1> DEFINE x == Head(todo)
<1>1. /\ todo \in Seq(Cell) /\ todo # <<>> /\ todo' = Tail(todo)
      /\ file \in Seq(Cell)
  BY DEF Write, ReportTypeOK
<1>2. x \in Cell
  BY <1>1, HeadTailProperties
<1>3. file' = Append(file, x)
  <2>1. CASE append
    <3>1. file' = WriteAt(file, Len(file), <<x>>)
      BY <2>1 DEF Write
    <3> QED
      BY <1>1, <1>2, <3>1, WriteAtEnd
  <2>2. CASE ~append
    <3>1. file' = WriteAt(file, Len(file), <<x>>)
      BY <1>1, <2>2 DEF Write, SavedInv
    <3> QED
      BY <1>1, <1>2, <3>1, WriteAtEnd
  <2> QED
    BY <2>1, <2>2
<1> HIDE DEF x
<1> QED
  BY <1>1, <1>3, MoveHead DEF x

(* One write(2), maybe the last one of its report.                         *)
LEMMA WriteSaved ==
    ASSUME ReportTypeOK, SavedInv, Write
    PROVE  SavedInv'
<1> DEFINE x == Head(todo)
<1>1. /\ todo \in Seq(Cell) /\ todo # <<>> /\ todo' = Tail(todo)
      /\ file \in Seq(Cell) /\ saving \in Row /\ saving # NoRow
      /\ cpc' = cpc /\ fresh' = fresh /\ append' = append /\ off' = off + 1
      /\ saving' \in {saving, NoRow}
  BY DEF Write, ReportTypeOK, cleanVars
<1>2. x \in Cell /\ todo' \in Seq(Cell) /\ Len(todo') = Len(todo) - 1
  BY <1>1, HeadTailProperties
<1>3. file' = Append(file, x) /\ file' \o todo' = file \o todo
  BY WriteAppends
<1> HIDE DEF x
<1>4. file' \o todo' = file \o todo
  BY <1>3
<1>5. file' \in Seq(Cell) /\ Len(file') = Len(file) + 1
  BY <1>1, <1>2, <1>3, AppendProperties
<1>6. EndsWith(file \o todo, saving)
  BY <1>1 DEF SavedInv
<1>7. append' \/ off' = Len(file')
  BY <1>1, <1>5 DEF SavedInv
<1>8. CASE Len(todo) = 1
  <2>1. saved' = saved \cup {saving} /\ saving' = NoRow
    BY <1>8 DEF Write
  <2>2. todo' = <<>>
    BY <1>2, <1>8, EmptySeq
  <2>3. file' = file \o todo
    BY <1>4, <1>5, <2>2, ConcatEmptySeq
  <2>4. StandsIn(file', saving)
    BY <1>5, <1>6, <2>3, EndStands
  <2>5. ASSUME NEW q \in saved' \cap fresh' PROVE StandsIn(file', q)
    <3>1. CASE q = saving
      BY <2>4, <3>1
    <3>2. CASE q # saving
      <4>1. StandsIn(file, q)
        BY <1>1, <2>1, <2>5, <3>2 DEF SavedInv
      <4> QED
        BY <1>1, <1>2, <1>3, <4>1, AppendStands
    <3> QED
      BY <3>1, <3>2
  <2> QED
    BY <1>1, <2>1, <2>2, <2>5 DEF SavedInv
<1>9. CASE Len(todo) # 1
  <2>1. saved' = saved /\ saving' = saving
    BY <1>9 DEF Write
  <2>2. ASSUME NEW q \in saved' \cap fresh' PROVE StandsIn(file', q)
    <3>1. StandsIn(file, q)
      BY <1>1, <2>1, <2>2 DEF SavedInv
    <3> QED
      BY <1>1, <1>2, <1>3, <3>1, AppendStands
  <2>3. EndsWith(file' \o todo', saving')
    BY <1>4, <1>6, <2>1
  <2>4. ~Cleaning'
    BY <1>1 DEF SavedInv, Cleaning
  <2> QED
    BY <1>1, <1>7, <2>2, <2>3, <2>4 DEF SavedInv
<1> QED
  BY <1>8, <1>9

(* A kill, and a clean, which finds nobody saving.                         *)
LEMMA OtherSaved ==
    ASSUME ReportTypeOK, SavedInv, ~Overlap,
           \/ KillServer
           \/ \E c \in Cleaner : CleanRead(c) \/ CleanTruncate(c) \/ CleanWrite(c)
    PROVE  SavedInv'
<1>1. CASE KillServer
  <2>1. /\ todo' = <<>> /\ saving' = NoRow /\ fresh' = fresh \ {saving} /\ saved' = saved
        /\ file' = file /\ cpc' = cpc
    BY <1>1 DEF KillServer, cleanVars
  <2> QED
    BY <2>1 DEF SavedInv
<1>2. ASSUME NEW c \in Cleaner, CleanRead(c) PROVE SavedInv'
  <2>1. /\ saving = NoRow /\ todo = <<>> /\ saving' = saving /\ todo' = todo
        /\ fresh' = fresh /\ saved' = saved /\ file' = file
    BY <1>2 DEF CleanRead, ReportTypeOK, serverVars
  <2>2. \A d \in Cleaner : cpc'[d] = "truncated" => cpc[d] = "truncated"
    BY <1>2 DEF CleanRead, ReportTypeOK
  <2> QED
    BY <2>1, <2>2 DEF SavedInv
<1>3. ASSUME NEW c \in Cleaner, CleanTruncate(c) \/ CleanWrite(c) PROVE SavedInv'
  <2>1. cpc[c] # "idle" /\ saving' = saving /\ todo' = todo /\ saved' = saved
    BY <1>3 DEF CleanTruncate, CleanWrite, serverVars
  <2>2. saving = NoRow /\ todo = <<>>
    BY <2>1 DEF SavedInv, Cleaning, ReportTypeOK
  <2>3. fresh' = {}
    BY <1>3 DEF CleanTruncate, CleanWrite, SavedInv
  <2> QED
    BY <2>1, <2>2, <2>3 DEF SavedInv
<1> QED
  BY <1>1, <1>2, <1>3

(* SavedInv is inductive.                                                  *)
LEMMA SavedStep ==
    ASSUME TypeOK, SavedInv, [Next]_vars, ~Overlap
    PROVE  SavedInv'
<1>1. CASE UNCHANGED reportVars
  BY <1>1 DEF SavedInv, Cleaning, reportVars, serverVars, cleanVars
<1>2. CASE ReportNext
  BY <1>2, OpenSaved, WriteSaved, OtherSaved DEF TypeOK, ReportNext
<1> QED
  BY <1>1, <1>2 DEF Next, vars

(***************************************************************************)
(* For any reports, fields, requests, cleans and kills of the server, as   *)
(* long as no clean overlaps a save: a report saved since the last         *)
(* truncation stands in report.txt in one piece.                           *)
(***************************************************************************)
THEOREM SavedCorrect ==
    ASSUME ~Overlap
    PROVE  Spec => []SavedStandsWhole
<1>1. Init => SavedInv
  BY DEF Init, ReportInit, SavedInv
<1>2. TypeOK /\ SavedInv /\ [Next]_vars => SavedInv'
  BY SavedStep
<1>3. TypeOK /\ SavedInv => SavedStandsWhole
  BY DEF SavedInv, SavedStandsWhole
<1> QED
  BY <1>1, <1>2, <1>3, WebTypeCorrect, PTL DEF Spec

-----------------------------------------------------------------------------
(***************************************************************************)
(* Framed.  Lined is what it says of a file, with the newline at its end   *)
(* that save_packet relies on when it appends.                             *)
(***************************************************************************)
TopLine(f, h) ==
    LineAt(f, 1, Header) \/ (h /\ (f[1] = Newline \/ \E r \in Row : LineAt(f, 1, r)))

Lined(f, h) == f # <<>> => TopLine(f, h) /\ WholeReports(f) /\ f[Len(f)] = Newline

(* A line begins and ends with a field and has one newline, its last cell. *)
LEMMA LineCells ==
    ASSUME NEW x \in Row \cup {Header}
    PROVE  /\ IsText(Line(x)[1]) /\ IsText(Line(x)[2 * NumFields - 1])
           /\ Line(x)[2 * NumFields] = Newline /\ ~IsText(Newline)
           /\ \A k \in 1 .. 2 * NumFields - 1 : Line(x)[k] # Newline
<1> DEFINE n == 2 * NumFields
<1>1. n \in Nat /\ n >= 2 /\ n % 2 = 0 /\ (n - 1) % 2 = 1 /\ ((n - 1) + 1) \div 2 = NumFields
  BY FieldsAssumption
<1>2. \A k \in 1 .. n :
        Line(x)[k] = IF k % 2 = 1 THEN <<x, (k + 1) \div 2>> ELSE IF k = n THEN Newline ELSE Tab
  BY DEF Line
<1>3. \A y, k : k # 0 => IsText(<<y, k>>)
  BY DEF IsText, Tab, Newline, Hole
<1>4. Line(x)[1] = <<x, 1>> /\ Line(x)[n - 1] = <<x, NumFields>> /\ Line(x)[n] = Newline
  <2>1. \A k : k = 1 => k % 2 = 1 /\ (k + 1) \div 2 = 1
    OBVIOUS
  <2> HIDE DEF n
  <2>2. 1 \in 1 .. n /\ n - 1 \in 1 .. n /\ n \in 1 .. n /\ n % 2 # 1
    BY <1>1
  <2>3. Line(x)[1] = <<x, 1>>
    BY <1>2, <2>1, <2>2
  <2>4. Line(x)[n - 1] = <<x, NumFields>>
    BY <1>1, <1>2, <2>2
  <2>5. Line(x)[n] = Newline
    BY <1>2, <2>2
  <2> QED
    BY <2>3, <2>4, <2>5
<1>5. ~IsText(Newline) /\ Tab # Newline
  BY DEF IsText, Tab, Newline
<1>6. ASSUME NEW k \in 1 .. n - 1 PROVE Line(x)[k] # Newline
  <2>1. k \in 1 .. n /\ k # n
    BY <1>1
  <2>2. CASE k % 2 = 1
    <3>1. (k + 1) \div 2 # 0
      BY <2>1, <2>2
    <3> QED
      BY <1>2, <1>3, <1>5, <2>1, <2>2, <3>1
  <2> QED
    BY <1>2, <1>5, <2>1, <2>2
<1> QED
  BY <1>3, <1>4, <1>5, <1>6, FieldsAssumption

(* A line by itself is a well-formed file.                                 *)
LEMMA LineLined ==
    ASSUME NEW x \in Row \cup {Header}, NEW h \in BOOLEAN, x = Header \/ h
    PROVE  Lined(Line(x), h)
<1> DEFINE f == Line(x)
           n == 2 * NumFields
<1>1. n \in Nat \ {0} /\ f \in Seq(Cell) /\ Len(f) = n /\ DOMAIN f = 1 .. n
  BY LineShape, FieldsAssumption
<1>2. LineAt(f, 1, x)
  <2>1. 1 + n - 1 <= Len(f) /\ \A k \in 1 .. n : 1 + k - 1 = k
    BY <1>1
  <2> QED
    BY <2>1 DEF LineAt
<1>3. TopLine(f, h)
  BY <1>2 DEF TopLine
<1>4. f[Len(f)] = Newline
  BY <1>1, LineCells
<1>5. WholeReports(f)
  <2> SUFFICES ASSUME NEW i \in DOMAIN f \ {1}, f[i - 1] = Newline PROVE FALSE
    BY DEF WholeReports
  <2>1. i - 1 \in 1 .. n - 1
    BY <1>1
  <2> QED
    BY <2>1, LineCells
<1> QED
  BY <1>3, <1>4, <1>5 DEF Lined

(* save_packet adds a line to a well-formed file.                          *)
LEMMA LinedAppend ==
    ASSUME NEW f \in Seq(Cell), f # <<>>, NEW h, Lined(f, h), NEW r \in Row
    PROVE  Lined(f \o Line(r), h)
<1> DEFINE l == Line(r)
           g == f \o l
           m == Len(f)
           n == 2 * NumFields
<1>1. m \in Nat \ {0} /\ n \in Nat \ {0} /\ DOMAIN f = 1 .. m
  BY FieldsAssumption, EmptySeq
<1>2. l \in Seq(Cell) /\ Len(l) = n
  BY LineShape
<1>3. /\ g \in Seq(Cell) /\ Len(g) = m + n
      /\ \A i \in 1 .. m + n : g[i] = IF i <= m THEN f[i] ELSE l[i - m]
  BY <1>2, ConcatProperties
<1>4. DOMAIN g = 1 .. m + n
  BY <1>3
<1>5. l[n] = Newline /\ \A k \in 1 .. n - 1 : l[k] # Newline
  BY LineCells
<1>6. TopLine(f, h) /\ WholeReports(f) /\ f[m] = Newline
  BY DEF Lined
<1> HIDE DEF g, l, m
<1>7. m = Len(f) /\ m <= Len(g) /\ \A i \in 1 .. m : g[i] = f[i]
  <2>1. m = Len(f)
    BY DEF m
  <2> QED
    BY <1>1, <1>3, <2>1
<1>8. \A x : \A i \in Nat \ {0} : LineAt(f, i, x) => LineAt(g, i, x)
  BY <1>3, <1>7, LongerStands
<1>9. TopLine(g, h)
  <2>1. g[1] = f[1]
    BY <1>1, <1>7
  <2> QED
    BY <1>6, <1>8, <2>1 DEF TopLine
<1>10. g[Len(g)] = Newline
  <2>1. m + n \in 1 .. m + n /\ ~(m + n <= m) /\ (m + n) - m = n
    BY <1>1
  <2> QED
    BY <1>3, <1>5, <2>1
<1>11. LineAt(g, m + 1, r)
  <2>1. (m + 1) + n - 1 <= Len(g)
    BY <1>1, <1>3
  <2>2. ASSUME NEW k \in 1 .. n PROVE g[(m + 1) + k - 1] = l[k]
    <3>1. (m + 1) + k - 1 \in 1 .. m + n /\ ~((m + 1) + k - 1 <= m) /\ ((m + 1) + k - 1) - m = k
      BY <1>1
    <3> QED
      BY <1>3, <3>1
  <2> QED
    BY <2>1, <2>2 DEF LineAt, l
<1>12. WholeReports(g)
  <2> SUFFICES ASSUME NEW i \in DOMAIN g \ {1}, g[i - 1] = Newline
               PROVE  \E q \in Row : LineAt(g, i, q)
    BY DEF WholeReports
  <2>0. i \in 1 .. m + n /\ i # 1 /\ i \in Nat \ {0}
    BY <1>1, <1>4
  <2>1. CASE i <= m
    <3>1. i \in DOMAIN f \ {1} /\ i - 1 \in 1 .. m
      BY <1>1, <2>0, <2>1
    <3>2. f[i - 1] = Newline
      BY <1>7, <3>1
    <3>3. PICK q \in Row : LineAt(f, i, q)
      BY <1>6, <3>1, <3>2 DEF WholeReports
    <3> QED
      BY <1>8, <2>0, <3>3
  <2>2. CASE i = m + 1
    BY <1>11, <2>2
  <2>3. CASE i > m + 1
    <3>1. i - 1 \in 1 .. m + n /\ ~(i - 1 <= m) /\ (i - 1) - m \in 1 .. n - 1
      BY <1>1, <2>0, <2>3
    <3>2. g[i - 1] = l[(i - 1) - m]
      BY <1>3, <3>1
    <3> QED
      BY <1>5, <3>1, <3>2
  <2> QED
    BY <1>1, <2>0, <2>1, <2>2, <2>3
<1>13. Lined(g, h)
  BY <1>9, <1>10, <1>12 DEF Lined
<1> QED
  BY <1>13 DEF g, l

(* read_file's first line, with its newline, where that line begins at p.  *)
LEMMA FirstLineIs ==
    ASSUME NEW f \in Seq(Cell), NEW x \in Row \cup {Header}, NEW p \in Nat \ {0},
           LineAt(f, p, x), \A i \in 1 .. p - 1 : ~IsText(f[i])
    PROVE  FirstLine(f) \o <<Newline>> = Line(x) /\ FirstLine(f) # <<>>
<1> DEFINE n == 2 * NumFields
           m == Len(f)
           l == Line(x)
           e == p + n - 1
           from == SelectInSeq(f, IsText)
           texts == {i \in 1 .. m : IsText(f[i])}
           ends == {i \in DOMAIN f : i > from /\ f[i] = Newline}
           T == {i \in from .. (IF ends = {} THEN m ELSE Min(ends)) : IsText(f[i])}
           s == SubSeq(f, p, e - 1)
<1>1. n \in Nat /\ n >= 2 /\ m \in Nat /\ DOMAIN f = 1 .. m /\ e \in Nat /\ e - 1 \in Nat
  BY FieldsAssumption
<1>2. e <= m /\ \A k \in 1 .. n : f[p + k - 1] = l[k]
  BY DEF LineAt
<1>3. /\ l \in Seq(Cell) /\ Len(l) = n /\ IsText(l[1]) /\ IsText(l[n - 1]) /\ l[n] = Newline
      /\ ~IsText(Newline) /\ \A k \in 1 .. n - 1 : l[k] # Newline
  BY LineShape, LineCells
<1>4. from = IF texts # {} THEN Min(texts) ELSE 0
  BY DEF SelectInSeq
<1> HIDE DEF l, n
<1>5. f[p] = l[1] /\ f[e - 1] = l[n - 1] /\ f[e] = Newline
  <2>1. /\ 1 \in 1 .. n /\ p + 1 - 1 = p /\ n \in 1 .. n /\ p + n - 1 = e
        /\ n - 1 \in 1 .. n /\ p + (n - 1) - 1 = e - 1
    BY <1>1
  <2> QED
    BY <1>2, <1>3, <2>1
<1>6. ASSUME NEW i \in p .. e - 1 PROVE f[i] # Newline
  <2> DEFINE k == (i - p) + 1
  <2>1. k \in 1 .. n - 1 /\ k \in 1 .. n /\ p + k - 1 = i
    BY <1>1
  <2> HIDE DEF k
  <2> QED
    BY <1>2, <1>3, <2>1
<1>7. p \in 1 .. m /\ e \in 1 .. m /\ p < e /\ e - 1 \in p .. m
  BY <1>1, <1>2
<1> HIDE DEF e, m
<1>8. from = p /\ texts # {}
  <2>1. p \in texts /\ texts \in SUBSET Nat
    BY <1>1, <1>3, <1>5, <1>7
  <2>2. Min(texts) \in texts /\ Min(texts) <= p
    <3> HIDE DEF texts
    <3> QED
      BY <2>1, MinOf
  <2>3. ~(Min(texts) < p)
    <3> SUFFICES ASSUME Min(texts) < p PROVE FALSE
      OBVIOUS
    <3>1. Min(texts) \in 1 .. p - 1 /\ IsText(f[Min(texts)])
      BY <1>1, <1>7, <2>2
    <3> QED
      BY <3>1
  <2>4. Min(texts) = p
    BY <1>1, <2>2, <2>3
  <2> HIDE DEF texts
  <2> QED
    BY <1>4, <2>1, <2>4
<1> HIDE DEF from, texts
<1>9. ends # {} /\ Min(ends) = e
  <2>1. e \in ends /\ ends \in SUBSET Nat
    BY <1>1, <1>5, <1>7, <1>8
  <2>2. Min(ends) \in ends /\ Min(ends) <= e
    <3> HIDE DEF ends
    <3> QED
      BY <2>1, MinOf
  <2>3. Min(ends) \in 1 .. m /\ Min(ends) > p /\ f[Min(ends)] = Newline
    BY <1>1, <1>8, <2>2
  <2>4. ~(Min(ends) < e)
    <3> SUFFICES ASSUME Min(ends) < e PROVE FALSE
      OBVIOUS
    <3>1. Min(ends) \in p .. e - 1
      BY <1>1, <1>7, <2>3
    <3> QED
      BY <1>6, <2>3, <3>1
  <2>5. Min(ends) = e
    BY <1>1, <2>2, <2>3, <2>4
  <2> HIDE DEF ends
  <2> QED
    BY <2>1, <2>5
<1>10. FirstLine(f) = SubSeq(f, from, Max(T))
  <2>1. from # 0
    BY <1>8
  <2> QED
    BY <1>1, <2>1 DEF FirstLine, LineFrom, from, m
<1>11. T = {i \in p .. e : IsText(f[i])}
  BY <1>8, <1>9
<1>12. Max(T) = e - 1
  <2>0. e - 1 \in p .. e /\ IsText(f[e - 1])
    BY <1>1, <1>3, <1>5, <1>7
  <2>1. T \in SUBSET (0 .. e) /\ e - 1 \in T
    <3>1. e - 1 \in T
      BY <1>11, <2>0
    <3>2. p .. e \in SUBSET (0 .. e)
      OBVIOUS
    <3>3. T \in SUBSET (p .. e)
      BY <1>11
    <3> QED
      BY <3>1, <3>2, <3>3
  <2>2. ASSUME NEW i \in T PROVE i <= e - 1
    <3>1. i \in p .. e /\ i # e
      BY <1>3, <1>5, <1>11
    <3> QED
      BY <1>1, <3>1
  <2> HIDE DEF T
  <2>3. Max(T) \in T /\ Max(T) >= e - 1
    BY <1>1, <2>1, MaxOf
  <2>4. Max(T) \in Nat /\ Max(T) <= e - 1
    <3>1. Max(T) \in 0 .. e
      BY <2>1, <2>3
    <3> QED
      BY <1>1, <2>2, <2>3, <3>1
  <2> QED
    BY <1>1, <2>3, <2>4
<1>13. FirstLine(f) = s
  BY <1>8, <1>10, <1>12
<1>14. s \in Seq(Cell) /\ Len(s) = n - 1 /\ \A k \in 1 .. n - 1 : s[k] = l[k]
  <2>1. \A i \in p .. e - 1 : f[i] \in Cell
    BY <1>1, <1>7, ElementOfSeq DEF m
  <2> DEFINE d == e - 1
  <2>2. d \in Int /\ p <= d /\ d - p + 1 = n - 1
    BY <1>1, <1>7 DEF e
  <2>3. \A i \in p .. d : f[i] \in Cell
    BY <2>1
  <2> HIDE DEF d
  <2>4. /\ SubSeq(f, p, d) \in Seq(Cell)
        /\ Len(SubSeq(f, p, d)) = IF p <= d THEN d - p + 1 ELSE 0
        /\ \A k \in 1 .. d - p + 1 : SubSeq(f, p, d)[k] = f[p + k - 1]
    BY <2>2, <2>3, SubSeqProperties
  <2>5. s = SubSeq(f, p, d)
    BY DEF d
  <2> HIDE DEF s
  <2>6. \A k \in 1 .. n - 1 : k \in 1 .. n
    BY <1>1
  <2> QED
    BY <1>2, <2>2, <2>4, <2>5, <2>6
<1> HIDE DEF s
<1>15. s \o <<Newline>> = l
  <2> DEFINE t == <<Newline>>
             g == s \o t
  <2>1. t \in Seq(Cell) /\ Len(t) = 1 /\ t[1] = Newline
    BY DEF Cell
  <2> HIDE DEF t
  <2>2. /\ g \in Seq(Cell) /\ Len(g) = Len(s) + 1
        /\ \A k \in 1 .. Len(s) + 1 : g[k] = IF k <= Len(s) THEN s[k] ELSE t[k - Len(s)]
    <3>1. /\ s \o t \in Seq(Cell) /\ Len(s \o t) = Len(s) + Len(t)
          /\ \A k \in 1 .. Len(s) + Len(t) :
                (s \o t)[k] = IF k <= Len(s) THEN s[k] ELSE t[k - Len(s)]
      <4>1. s \in Seq(Cell) /\ t \in Seq(Cell)
        BY <1>14, <2>1
      <4> QED
        BY <4>1, ConcatProperties
    <3> QED
      BY <2>1, <3>1
  <2> HIDE DEF g
  <2>3. ASSUME NEW k \in 1 .. Len(g) PROVE g[k] = l[k]
    <3>1. CASE k = n
      <4>1. k \in 1 .. Len(s) + 1 /\ ~(k <= Len(s)) /\ k - Len(s) = 1
        BY <1>1, <1>14, <2>2, <3>1
      <4> QED
        BY <1>3, <2>1, <2>2, <3>1, <4>1
    <3>2. CASE k # n
      <4>1. k \in 1 .. Len(s) + 1 /\ k <= Len(s) /\ k \in 1 .. n - 1
        BY <1>1, <1>14, <2>2, <3>2
      <4> QED
        BY <1>14, <2>2, <4>1
    <3> QED
      BY <3>1, <3>2
  <2>4. Len(g) = Len(l)
    BY <1>1, <1>3, <1>14, <2>2
  <2>5. g = l
    BY <1>3, <2>2, <2>3, <2>4, SeqEqual
  <2> QED
    BY <2>5 DEF g, t
<1>16. s # <<>>
  BY <1>1, <1>14, EmptySeq
<1> QED
  BY <1>13, <1>15, <1>16 DEF l

(* What clean_file keeps of a well-formed file is one.                     *)
LEMMA KeptLined ==
    ASSUME NEW f \in Seq(Cell), NEW h \in BOOLEAN, Lined(f, h)
    PROVE  Lined(FirstLine(f) \o <<Newline>>, h \/ FirstLine(f) = <<>>)
<1>0. (h \/ FirstLine(f) = <<>>) \in BOOLEAN /\ ~IsText(Newline)
  BY DEF IsText
<1>1. CASE \A i \in 1 .. Len(f) : ~IsText(f[i])
  <2>1. FirstLine(f) = <<>>
    <3> DEFINE texts == {i \in 1 .. Len(f) : IsText(f[i])}
    <3>1. texts = {}
      BY <1>1
    <3>2. SelectInSeq(f, IsText) = 0
      BY <3>1 DEF SelectInSeq
    <3> QED
      BY <3>2 DEF FirstLine
  <2>2. FirstLine(f) \o <<Newline>> = <<Newline>>
    BY <2>1
  <2>3. DOMAIN <<Newline>> = {1} /\ Len(<<Newline>>) = 1 /\ <<Newline>>[1] = Newline
    OBVIOUS
  <2>4. Lined(<<Newline>>, TRUE)
    BY <2>3 DEF Lined, TopLine, WholeReports
  <2> QED
    BY <2>1, <2>2, <2>4
<1>2. ASSUME NEW x \in Row \cup {Header}, LineAt(f, 1, x), x = Header \/ h
      PROVE  Lined(FirstLine(f) \o <<Newline>>, h \/ FirstLine(f) = <<>>)
  <2>1. FirstLine(f) \o <<Newline>> = Line(x) /\ FirstLine(f) # <<>>
    <3>1. \A i \in 1 .. 1 - 1 : ~IsText(f[i])
      OBVIOUS
    <3> QED
      BY <1>2, <3>1, FirstLineIs
  <2>2. Lined(Line(x), h)
    BY <1>2, LineLined
  <2> QED
    BY <2>1, <2>2
<1>3. CASE h /\ f[1] = Newline /\ \E i \in 1 .. Len(f) : IsText(f[i])
  <2>1. PICK i \in 1 .. Len(f) : IsText(f[i])
    BY <1>3
  <2>2. i # 1 /\ f # <<>> /\ 2 \in DOMAIN f \ {1} /\ f[2 - 1] = Newline
    BY <1>0, <1>3, <2>1, EmptySeq
  <2>3. PICK r \in Row : LineAt(f, 2, r)
    BY <2>2 DEF Lined, WholeReports
  <2>4. \A k \in 1 .. 2 - 1 : ~IsText(f[k])
    BY <1>0, <1>3
  <2>5. FirstLine(f) \o <<Newline>> = Line(r) /\ FirstLine(f) # <<>>
    BY <2>3, <2>4, FirstLineIs
  <2>6. Lined(Line(r), h)
    BY <1>3, LineLined
  <2> QED
    BY <2>5, <2>6
<1>4. CASE \E i \in 1 .. Len(f) : IsText(f[i])
  <2>1. f # <<>>
    BY <1>4
  <2>2. TopLine(f, h)
    BY <2>1 DEF Lined
  <2> QED
    BY <1>2, <1>3, <1>4, <2>2 DEF TopLine
<1> QED
  BY <1>1, <1>4

-----------------------------------------------------------------------------
(***************************************************************************)
(* The invariant: as long as no server was killed, report.txt with what is *)
(* still to be written is well formed, and so is what a clean will write   *)
(* back.  The last conjunct is why save_packet may append to any file it   *)
(* finds: outside a clean, an existing report.txt is never empty.          *)
(***************************************************************************)
FrameInv ==
    kills = 0 =>
        /\ Lined(file \o todo, headless)
        /\ \A c \in Cleaner : cpc[c] # "idle" => Lined(header[c] \o <<Newline>>, headless)
        /\ \A c, d \in Cleaner : cpc[c] # "idle" /\ cpc[d] # "idle" => c = d
        /\ \A c \in Cleaner : cpc[c] = "truncated" => file = <<>>
        /\ present /\ saving = NoRow /\ ~Cleaning => file # <<>>

(* A clean that finds no line to keep asks less of the first line.         *)
LEMMA LinedWeaker ==
    ASSUME NEW f, NEW h, NEW g, h => g, Lined(f, h)
    PROVE  Lined(f, g)
  BY DEF Lined, TopLine

(* Outside a save, nothing is left to write.                               *)
LEMMA NothingToWrite ==
    ASSUME ReportTypeOK, saving = NoRow
    PROVE  todo = <<>> /\ file \o todo = file
<1>1. todo = <<>> /\ file \in Seq(Cell)
  BY DEF ReportTypeOK
<1> QED
  BY <1>1, ConcatEmptySeq

(* save_packet appends to a file that is not empty, or creates it.         *)
LEMMA OpenFramed ==
    ASSUME ReportTypeOK, FrameInv, ~Overlap, NEW r \in Row, OpenReport(r)
    PROVE  FrameInv'
<1> SUFFICES ASSUME kills' = 0 PROVE FrameInv'
  BY DEF FrameInv
<1>1. /\ saving = NoRow /\ ~Cleaning /\ saving' = r /\ kills = 0 /\ file' = file
      /\ cpc' = cpc /\ headless' = headless
  BY DEF OpenReport, cleanVars
<1>2. \A c \in Cleaner : cpc'[c] = "idle"
  BY <1>1 DEF Cleaning
<1>3. Lined(file', headless) /\ (present => file # <<>>)
  <2>1. Lined(file \o todo, headless) /\ (present => file # <<>>)
    BY <1>1 DEF FrameInv
  <2> QED
    BY <1>1, <2>1, NothingToWrite
<1>4. Lined(file' \o todo', headless)
  <2>1. file \in Seq(Cell) /\ headless \in BOOLEAN
    BY DEF ReportTypeOK
  <2>2. CASE present
    <3>1. todo' = Line(r)
      BY <2>2 DEF OpenReport
    <3>2. Lined(file \o Line(r), headless)
      BY <1>1, <1>3, <2>1, <2>2, LinedAppend
    <3> QED
      BY <1>1, <3>1, <3>2
  <2>3. CASE ~present
    <3> DEFINE h == Line(Header)
    <3>1. file = <<>> /\ todo' = h \o Line(r)
      BY <2>3 DEF OpenReport, ReportTypeOK
    <3>2. h \in Seq(Cell) /\ h # <<>> /\ Line(r) \in Seq(Cell)
      BY LineShape
    <3>3. Lined(h, headless)
      BY <2>1, LineLined
    <3> HIDE DEF h
    <3>4. Lined(h \o Line(r), headless) /\ h \o Line(r) \in Seq(Cell)
      BY <3>2, <3>3, LinedAppend, ConcatProperties
    <3>5. file \o todo' = h \o Line(r)
      BY <3>1, <3>4, ConcatEmptySeq
    <3> QED
      BY <1>1, <3>4, <3>5
  <2> QED
    BY <2>2, <2>3
<1>5. saving' # NoRow
  BY <1>1, RowAssumption
<1> QED
  BY <1>1, <1>2, <1>4, <1>5 DEF FrameInv

(* One write(2) changes nothing of file and todo together.                 *)
LEMMA WriteFramed ==
    ASSUME ReportTypeOK, SavedInv, FrameInv, Write
    PROVE  FrameInv'
<1> SUFFICES ASSUME kills' = 0 PROVE FrameInv'
  BY DEF FrameInv
<1>1. kills = 0 /\ cpc' = cpc /\ headless' = headless
  BY DEF Write, cleanVars
<1>2. todo # <<>> /\ saving # NoRow /\ ~Cleaning
  BY DEF Write, ReportTypeOK, SavedInv
<1>3. \A c \in Cleaner : cpc'[c] = "idle"
  BY <1>1, <1>2 DEF Cleaning
<1>4. file' = Append(file, Head(todo)) /\ file' \o todo' = file \o todo
  BY WriteAppends
<1>5. file' # <<>>
  <2>1. file \in Seq(Cell) /\ Head(todo) \in Cell
    BY <1>2, HeadTailProperties DEF ReportTypeOK
  <2> QED
    BY <1>4, <2>1, AppendProperties
<1>6. Lined(file' \o todo', headless')
  BY <1>1, <1>4 DEF FrameInv
<1> QED
  BY <1>3, <1>5, <1>6 DEF FrameInv

(* A clean keeps a line, if there is one, and leaves the file with one.    *)
LEMMA CleanFramed ==
    ASSUME ReportTypeOK, SavedInv, FrameInv, ~Overlap, NEW c \in Cleaner,
           CleanRead(c) \/ CleanTruncate(c) \/ CleanWrite(c)
    PROVE  FrameInv'
<1> SUFFICES ASSUME kills' = 0 PROVE FrameInv'
  BY DEF FrameInv
<1>1. kills = 0 /\ saving = NoRow /\ saving' = saving /\ todo' = todo
  <2>1. kills' = kills /\ saving' = saving /\ todo' = todo
    BY DEF CleanRead, CleanTruncate, CleanWrite, serverVars
  <2>2. saving = NoRow
    BY DEF CleanRead, CleanTruncate, CleanWrite, SavedInv, Cleaning
  <2> QED
    BY <2>1, <2>2
<1>2. /\ todo = <<>> /\ file \o todo = file /\ Lined(file, headless)
      /\ file \in Seq(Cell) /\ headless \in BOOLEAN
  <2>1. Lined(file \o todo, headless)
    BY <1>1 DEF FrameInv
  <2> QED
    BY <1>1, <2>1, NothingToWrite DEF ReportTypeOK
<1>3. \A d \in Cleaner : d # c => cpc[d] = "idle" /\ cpc'[d] = "idle"
  <2>1. \A d \in Cleaner : d # c => cpc'[d] = cpc[d]
    BY DEF CleanRead, CleanTruncate, CleanWrite, ReportTypeOK
  <2>2. CASE CleanRead(c)
    BY <2>1, <2>2 DEF CleanRead, Cleaning
  <2>3. CASE CleanTruncate(c) \/ CleanWrite(c)
    <3>1. cpc[c] # "idle"
      BY <2>3 DEF CleanTruncate, CleanWrite
    <3> QED
      BY <1>1, <2>1, <3>1 DEF FrameInv
  <2> QED
    BY <2>2, <2>3
<1>4. CASE CleanRead(c)
  <2>1. /\ header'[c] = FirstLine(file) /\ cpc'[c] = "read" /\ file' = file
        /\ headless' = (headless \/ FirstLine(file) = <<>>)
    BY <1>4 DEF CleanRead, ReportTypeOK
  <2>2. Lined(header'[c] \o <<Newline>>, headless')
    BY <1>2, <2>1, KeptLined
  <2>3. Lined(file' \o todo', headless')
    <3>1. headless => headless'
      BY <2>1
    <3>2. Lined(file, headless')
      BY <1>2, <3>1, LinedWeaker
    <3> QED
      BY <1>1, <1>2, <2>1, <3>2
  <2> QED
    BY <1>3, <2>1, <2>2, <2>3 DEF FrameInv, Cleaning
<1>5. CASE CleanTruncate(c)
  <2>1. /\ cpc[c] = "read" /\ cpc'[c] = "truncated" /\ file' = <<>> /\ header' = header
        /\ headless' = headless
    BY <1>5 DEF CleanTruncate, ReportTypeOK
  <2>2. Lined(file' \o todo', headless')
    <3>1. file' \o todo' = <<>>
      BY <1>1, <1>2, <2>1
    <3> QED
      BY <3>1 DEF Lined
  <2>3. Lined(header'[c] \o <<Newline>>, headless')
    BY <1>1, <2>1 DEF FrameInv
  <2> QED
    BY <1>3, <2>1, <2>2, <2>3 DEF FrameInv, Cleaning
<1>6. CASE CleanWrite(c)
  <2> DEFINE s == header[c] \o <<Newline>>
  <2>1. /\ cpc[c] = "truncated" /\ cpc'[c] = "idle" /\ file' = WriteAt(file, 0, s)
        /\ headless' = headless
    BY <1>6 DEF CleanWrite, ReportTypeOK
  <2>2. file = <<>> /\ Lined(s, headless)
    BY <1>1, <2>1 DEF FrameInv
  <2>3. s \in Seq(Cell) /\ s # <<>>
    <3> DEFINE t == <<Newline>>
    <3>1. header[c] \in Seq(Cell) /\ t \in Seq(Cell) /\ Len(t) = 1
      BY DEF ReportTypeOK, Cell
    <3> HIDE DEF t
    <3>2. header[c] \o t \in Seq(Cell) /\ Len(header[c] \o t) = Len(header[c]) + 1
      BY <3>1, ConcatProperties
    <3>3. header[c] \o t # <<>>
      BY <3>1, <3>2
    <3> QED
      BY <3>2, <3>3 DEF t
  <2> HIDE DEF s
  <2>4. file' = s
    BY <2>1, <2>2, <2>3, WriteAtStart
  <2>5. Lined(file' \o todo', headless')
    <3>1. file' \o todo' = s
      BY <1>1, <1>2, <2>3, <2>4, ConcatEmptySeq
    <3> QED
      BY <2>1, <2>2, <3>1
  <2> QED
    BY <1>3, <2>1, <2>3, <2>4, <2>5 DEF FrameInv
<1> QED
  BY <1>4, <1>5, <1>6

(* FrameInv is inductive.                                                  *)
LEMMA FrameStep ==
    ASSUME TypeOK, SavedInv, FrameInv, [Next]_vars, ~Overlap
    PROVE  FrameInv'
<1>1. CASE UNCHANGED reportVars
  <2>1. /\ kills' = kills /\ file' = file /\ todo' = todo /\ headless' = headless
        /\ cpc' = cpc /\ header' = header /\ present' = present /\ saving' = saving
    BY <1>1 DEF reportVars, serverVars, cleanVars
  <2> QED
    BY <2>1 DEF FrameInv, Cleaning
<1>2. CASE KillServer
  <2>1. kills' # 0
    <3>1. kills \in Nat /\ kills' = kills + 1
      BY <1>2 DEF KillServer, TypeOK, ReportTypeOK
    <3> QED
      BY <3>1
  <2> QED
    BY <2>1 DEF FrameInv
<1>3. CASE \E r \in Row : OpenReport(r)
  BY <1>3, OpenFramed DEF TypeOK
<1>4. CASE Write
  BY <1>4, WriteFramed DEF TypeOK
<1>5. CASE \E c \in Cleaner : CleanRead(c) \/ CleanTruncate(c) \/ CleanWrite(c)
  BY <1>5, CleanFramed DEF TypeOK
<1> QED
  BY <1>1, <1>2, <1>3, <1>4, <1>5 DEF Next, ReportNext, vars

(***************************************************************************)
(* For any reports, fields and requests, as long as no clean overlaps a    *)
(* save and no server is killed: report.txt, with what is still to be      *)
(* written, is one first line and whole reports.                           *)
(***************************************************************************)
THEOREM FramedCorrect ==
    ASSUME ~Overlap
    PROVE  Spec => []Framed
<1>1. Init => FrameInv /\ SavedInv
  <2> SUFFICES ASSUME Init PROVE FrameInv /\ SavedInv
    OBVIOUS
  <2>1. file = <<>> /\ todo = <<>> /\ file \o todo = <<>> /\ present = FALSE
        /\ \A c \in Cleaner : cpc[c] = "idle"
    BY DEF Init, ReportInit
  <2>2. FrameInv
    BY <2>1 DEF FrameInv, Lined
  <2> QED
    BY <2>2 DEF Init, ReportInit, SavedInv
<1>2. TypeOK /\ SavedInv /\ FrameInv /\ [Next]_vars => SavedInv' /\ FrameInv'
  BY SavedStep, FrameStep
<1>3. FrameInv => Framed
  BY DEF FrameInv, Lined, TopLine, Framed, FirstLineOK
<1> QED
  BY <1>1, <1>2, <1>3, WebTypeCorrect, PTL DEF Spec

-----------------------------------------------------------------------------
(***************************************************************************)
(* ReportLog.  A write adds one cell at the end of the file, so that it    *)
(* completes at most one line, the last; a clean leaves at most the line   *)
(* it kept, which has no newline but the one behind it.                    *)
(***************************************************************************)
(* The field a line begins with tells the line.                            *)
LEMMA RowAtIs ==
    ASSUME NEW f, NEW i \in Nat \ {0}, NEW r \in Row, LineAt(f, i, r)
    PROVE  RowAt(f, i) = r
<1>1. PICK q \in Row : LineAt(f, i, q) /\ RowAt(f, i) = q
  BY DEF RowAt
<1>2. ASSUME NEW x \in Row, LineAt(f, i, x) PROVE f[i] = <<x, 1>>
  <2> DEFINE n == 2 * NumFields
             k == 1
  <2>1. k \in 1 .. n /\ i + k - 1 = i /\ k % 2 = 1 /\ (k + 1) \div 2 = 1
    BY FieldsAssumption
  <2>2. f[i + k - 1] = Line(x)[k]
    BY <1>2, <2>1 DEF LineAt
  <2>3. Line(x)[k] = <<x, 1>>
    BY <2>1 DEF Line
  <2> QED
    BY <2>1, <2>2, <2>3
<1> QED
  BY <1>1, <1>2

(* The lines of a file are a finite number of positions in it.             *)
LEMMA RowStartsType ==
    ASSUME NEW f \in Seq(Cell)
    PROVE  /\ RowStarts(f) \in SUBSET Nat /\ IsFiniteSet(RowStarts(f))
           /\ Cardinality(RowStarts(f)) \in Nat
           /\ \A i \in RowStarts(f) :
                 /\ i \in 1 .. Len(f) /\ i \in Nat \ {0} /\ Begins(f, i)
                 /\ i + 2 * NumFields - 1 <= Len(f)
                 /\ RowAt(f, i) \in Row /\ LineAt(f, i, RowAt(f, i))
<1>1. Len(f) \in Nat /\ DOMAIN f = 1 .. Len(f)
  OBVIOUS
<1>2. RowStarts(f) \in SUBSET (1 .. Len(f))
  BY <1>1 DEF RowStarts
<1>3. IsFiniteSet(RowStarts(f))
  <2> DEFINE one == 1
             m == Len(f)
  <2>1. one \in Int /\ m \in Int /\ RowStarts(f) \in SUBSET (one .. m)
    BY <1>1, <1>2
  <2> HIDE DEF one, m
  <2>2. IsFiniteSet(one .. m)
    BY <2>1, FS_Interval
  <2> QED
    BY <2>1, <2>2, FS_Subset
<1>4. ASSUME NEW i \in RowStarts(f)
      PROVE  /\ i \in 1 .. Len(f) /\ i \in Nat \ {0} /\ Begins(f, i)
             /\ i + 2 * NumFields - 1 <= Len(f)
             /\ RowAt(f, i) \in Row /\ LineAt(f, i, RowAt(f, i))
  <2>1. i \in 1 .. Len(f) /\ i \in Nat \ {0}
    BY <1>1, <1>2
  <2>2. Begins(f, i) /\ \E r \in Row : LineAt(f, i, r)
    BY DEF RowStarts
  <2>3. RowAt(f, i) \in Row /\ LineAt(f, i, RowAt(f, i))
    BY <2>2 DEF RowAt
  <2> QED
    BY <2>1, <2>2, <2>3 DEF LineAt
<1>5. RowStarts(f) \in SUBSET Nat
  BY <1>2
<1> QED
  BY <1>3, <1>4, <1>5, FS_CardinalityType

(* One cell more at the end: no line more, or one behind all the others.   *)
LEMMA RowsAppend ==
    ASSUME NEW f \in Seq(Cell), NEW x \in Cell, NEW p, p = Len(f) + 2 - 2 * NumFields
    PROVE  RowsIn(Append(f, x)) =
              IF p \in RowStarts(Append(f, x))
              THEN Append(RowsIn(f), RowAt(Append(f, x), p)) ELSE RowsIn(f)
<1> DEFINE g == Append(f, x)
           n == 2 * NumFields
           m == Len(f)
           S == RowStarts(f)
           T == RowStarts(g)
<1>1. /\ g \in Seq(Cell) /\ Len(g) = m + 1 /\ m \in Nat
      /\ \A i \in 1 .. m : g[i] = f[i]
  BY AppendProperties
<1>2. n \in Nat /\ n >= 2 /\ DOMAIN f = 1 .. m /\ DOMAIN g = 1 .. m + 1
  BY <1>1, FieldsAssumption
<1> HIDE DEF g
<1>3. /\ S \in SUBSET Nat /\ IsFiniteSet(S) /\ Cardinality(S) \in Nat
      /\ \A i \in S :
            /\ i \in 1 .. m /\ i \in Nat \ {0} /\ Begins(f, i)
            /\ i + n - 1 <= m
            /\ RowAt(f, i) \in Row /\ LineAt(f, i, RowAt(f, i))
  BY RowStartsType
<1>4. \A i \in T :
         /\ i \in 1 .. m + 1 /\ i \in Nat \ {0} /\ Begins(g, i)
         /\ i + n - 1 <= m + 1
         /\ RowAt(g, i) \in Row /\ LineAt(g, i, RowAt(g, i))
  BY <1>1, RowStartsType
<1>5. ASSUME NEW i \in 1 .. m PROVE Begins(g, i) <=> Begins(f, i)
  <2>1. i = 1 \/ i - 1 \in 1 .. m
    BY <1>1
  <2> QED
    BY <1>1, <2>1 DEF Begins
<1>6. ASSUME NEW i \in S PROVE i \in T /\ RowAt(g, i) = RowAt(f, i)
  <2>1. LineAt(g, i, RowAt(f, i))
    <3>1. m <= m + 1
      BY <1>1
    <3> QED
      BY <1>1, <1>3, <3>1, LongerStands
  <2>2. i \in 1 .. m + 1
    BY <1>1, <1>3
  <2>3. i \in T
    BY <1>2, <1>3, <1>5, <2>1, <2>2 DEF RowStarts
  <2> QED
    BY <1>3, <2>1, <2>3, RowAtIs
<1>7. ASSUME NEW i \in T, i # p PROVE i \in S
  <2>1. i + n - 1 <= m /\ i \in 1 .. m
    BY <1>1, <1>2, <1>4, <1>7
  <2>2. LineAt(f, i, RowAt(g, i))
    <3>1. \A k \in 1 .. n : i + k - 1 \in 1 .. m
      BY <1>1, <1>2, <2>1
    <3>2. \A k \in 1 .. n : g[i + k - 1] = Line(RowAt(g, i))[k]
      BY <1>4 DEF LineAt
    <3> QED
      BY <1>1, <2>1, <3>1, <3>2 DEF LineAt
  <2> QED
    BY <1>2, <1>4, <1>5, <2>1, <2>2 DEF RowStarts
<1>8. \A i \in S : i < p
  BY <1>1, <1>2, <1>3
<1> HIDE DEF n, m, S, T
<1>9. CASE p \notin T
  <2>1. T = S
    BY <1>6, <1>7, <1>9
  <2>2. \A k \in 1 .. Cardinality(S) : Nth(S, k) \in S
    BY <1>3, NthOf
  <2>3. \A k \in 1 .. Cardinality(S) : RowAt(g, Nth(S, k)) = RowAt(f, Nth(S, k))
    BY <1>6, <2>2
  <2>4. RowsIn(g) = RowsIn(f)
    BY <2>1, <2>3 DEF RowsIn, S, T
  <2> QED
    BY <1>9, <2>4 DEF g, T
<1>10. CASE p \in T
  <2> DEFINE c == Cardinality(S)
             r == RowAt(g, p)
             u == RowsIn(f)
             v == RowsIn(g)
  <2>1. p \in Nat /\ r \in Row
    BY <1>4, <1>10
  <2>2. T = S \cup {p}
    BY <1>6, <1>7, <1>10
  <2>3. /\ Cardinality(T) = c + 1 /\ c \in Nat
        /\ \A k \in 1 .. c : Nth(T, k) = Nth(S, k)
        /\ Nth(T, c + 1) = p
    BY <1>3, <1>8, <2>1, <2>2, NthAdd
  <2>4. \A k \in 1 .. c : Nth(S, k) \in S
    BY <1>3, NthOf
  <2>5. \A k \in 1 .. c : RowAt(f, Nth(S, k)) \in Row /\ RowAt(g, Nth(S, k)) = RowAt(f, Nth(S, k))
    BY <1>3, <1>6, <2>4
  <2>6. u = [k \in 1 .. c |-> RowAt(f, Nth(S, k))]
    BY DEF RowsIn, S
  <2>7. v = [k \in 1 .. c + 1 |-> RowAt(g, Nth(T, k))]
    BY <2>3 DEF RowsIn, T
  <2> HIDE DEF c, r, u, v
  <2>8. u \in Seq(Row) /\ Len(u) = c
    <3>1. u \in [1 .. c -> Row]
      BY <2>5, <2>6
    <3> QED
      BY <2>3, <3>1, SeqDef
  <2>9. /\ Append(u, r) \in Seq(Row) /\ Len(Append(u, r)) = c + 1
        /\ \A k \in 1 .. c : Append(u, r)[k] = u[k]
        /\ Append(u, r)[c + 1] = r
    BY <2>1, <2>8, AppendProperties
  <2>10. ASSUME NEW k \in 1 .. c + 1 PROVE v[k] = Append(u, r)[k] /\ v[k] \in Row
    <3>1. CASE k = c + 1
      <4>1. v[k] = RowAt(g, p)
        BY <2>3, <2>7, <3>1
      <4> QED
        BY <2>1, <2>9, <3>1, <4>1 DEF r
    <3>2. CASE k # c + 1
      <4>1. k \in 1 .. c
        BY <2>3, <3>2
      <4>2. v[k] = RowAt(g, Nth(S, k))
        BY <2>3, <2>7, <4>1
      <4> QED
        BY <2>5, <2>6, <2>9, <4>1, <4>2
    <3> QED
      BY <3>1, <3>2
  <2>11. v \in Seq(Row) /\ Len(v) = c + 1
    <3>1. v \in [1 .. c + 1 -> Row]
      BY <2>7, <2>10
    <3>2. c + 1 \in Nat
      BY <2>3
    <3> QED
      BY <3>1, <3>2, SeqDef
  <2>12. v = Append(u, r)
    BY <2>9, <2>10, <2>11, SeqEqual
  <2> QED
    BY <1>10, <2>12 DEF g, r, u, v, T
<1> QED
  BY <1>9, <1>10

(* A file without a line has no reports.                                   *)
LEMMA RowsNone ==
    ASSUME NEW f \in Seq(Cell), RowStarts(f) = {}
    PROVE  RowsIn(f) = <<>>
<1>1. 1 .. Cardinality(RowStarts(f)) = {}
  BY FS_EmptySet
<1> DEFINE u == RowsIn(f)
<1>2. u = [k \in {} |-> RowAt(f, Nth(RowStarts(f), k))]
  BY <1>1 DEF RowsIn
<1>3. u \in Seq(Row) /\ Len(u) = 0
  <2>1. u \in [1 .. 0 -> Row]
    BY <1>2
  <2> HIDE DEF u
  <2> QED
    BY <2>1, SeqDef
<1> HIDE DEF u
<1>4. u = <<>>
  BY <1>3, EmptySeq
<1> QED
  BY <1>4 DEF u

(* A file that has a newline at its end only holds at most one.            *)
LEMMA RowsOne ==
    ASSUME NEW f \in Seq(Cell), \A i \in 1 .. Len(f) - 1 : f[i] # Newline
    PROVE  RowsIn(f) = <<>> \/ \E r \in Row : LineAt(f, 1, r) /\ RowsIn(f) = <<r>>
<1> DEFINE S == RowStarts(f)
           one == 1
           r == RowAt(f, one)
           u == RowsIn(f)
           v == <<r>>
<1>1. ASSUME NEW i \in S PROVE i = 1 /\ RowAt(f, i) \in Row
  <2>1. i \in 1 .. Len(f) /\ Begins(f, i) /\ RowAt(f, i) \in Row /\ Len(f) \in Nat
    BY RowStartsType
  <2>2. i = 1 \/ i - 1 \in 1 .. Len(f) - 1
    BY <2>1
  <2> QED
    BY <2>1, <2>2 DEF Begins
<1>2. CASE S = {}
  BY <1>2, RowsNone
<1>3. CASE S # {}
  <2>1. S = {one} /\ r \in Row
    BY <1>1, <1>3
  <2>2. Cardinality(S) = one
    BY <2>1, FS_Singleton
  <2>3. Nth(S, one) = one
    <3>1. S \in SUBSET Nat /\ IsFiniteSet(S)
      BY RowStartsType
    <3>2. one \in 1 .. Cardinality(S)
      BY <2>2
    <3> HIDE DEF S, one
    <3>3. Nth(S, one) \in S
      BY <3>1, <3>2, NthOf
    <3> QED
      BY <2>1, <3>3
  <2>4. u = [k \in 1 .. one |-> RowAt(f, Nth(S, k))]
    BY <2>2 DEF RowsIn
  <2>5. v \in Seq(Row) /\ Len(v) = 1 /\ v[1] = r
    BY <2>1
  <2>6. LineAt(f, one, r)
    BY <2>1, RowStartsType
  <2>7. one = 1
    OBVIOUS
  <2> HIDE DEF S, u, one
  <2>8. \A k \in 1 .. 1 : u[k] = r
    BY <2>3, <2>4, <2>7
  <2>9. u \in Seq(Row) /\ Len(u) = 1
    <3>1. \A k \in 1 .. 1 : RowAt(f, Nth(S, k)) = r
      BY <2>3, <2>7
    <3> HIDE DEF r
    <3>2. u \in [1 .. one -> Row] /\ one \in Nat
      BY <2>1, <2>4, <2>7, <3>1
    <3>3. u \in Seq(Row) /\ Len(u) = one
      BY <3>2, SeqDef
    <3> QED
      BY <2>7, <3>3
  <2> HIDE DEF r
  <2>10. u = v
    <3> HIDE DEF v
    <3> QED
      BY <2>5, <2>8, <2>9, SeqEqual
  <2> QED
    BY <2>1, <2>6, <2>7, <2>10 DEF u, v
<1> QED
  BY <1>2, <1>3

(* One request cleans at a time, finds the file it truncated empty, and    *)
(* kept a line without its newline.                                        *)
LogInv ==
    /\ \A c, d \in Cleaner : c # d => cpc[c] = "idle" \/ cpc[d] = "idle"
    /\ \A c \in Cleaner :
          /\ cpc[c] = "truncated" => file = <<>>
          /\ \A i \in DOMAIN header[c] : header[c][i] # Newline

(***************************************************************************)
(* What save_packet has still to write: it is not saved yet, and what      *)
(* stands before its line is the file, or the line of field names it       *)
(* writes to a file of its own first.                                      *)
(***************************************************************************)
TailInv ==
    todo # <<>> =>
        /\ saving \notin saved
        /\ Len(file) < Len(file \o todo) - 2 * NumFields =>
              /\ Len(file \o todo) = 2 * (2 * NumFields)
              /\ LineAt(file \o todo, 1, Header)

(* The file with what is still to be written, cell by cell.                *)
LEMMA WholeIs ==
    ASSUME ReportTypeOK, SavedInv, todo # <<>>,
           NEW w, w = file \o todo, NEW n, n = Len(w) - 2 * NumFields
    PROVE  /\ w \in Seq(Cell) /\ Len(w) = Len(file) + Len(todo) /\ n \in Nat
           /\ Len(file) \in Nat /\ Len(todo) \in Nat \ {0}
           /\ saving \in Row /\ saving # NoRow
           /\ \A i \in 1 .. Len(file) : w[i] = file[i]
           /\ \A k \in 1 .. 2 * NumFields : w[n + k] = Line(saving)[k]
<1>1. /\ file \in Seq(Cell) /\ todo \in Seq(Cell) /\ saving \in Row /\ saving # NoRow
  BY DEF ReportTypeOK
<1>2. Len(file) \in Nat /\ Len(todo) \in Nat \ {0}
  BY <1>1, EmptySeq
<1>3. /\ w \in Seq(Cell) /\ Len(w) = Len(file) + Len(todo)
      /\ \A i \in 1 .. Len(file) + Len(todo) :
            w[i] = IF i <= Len(file) THEN file[i] ELSE todo[i - Len(file)]
  BY <1>1, ConcatProperties
<1>4. \A i \in 1 .. Len(file) : w[i] = file[i]
  <2>1. \A i \in 1 .. Len(file) : i \in 1 .. Len(file) + Len(todo) /\ i <= Len(file)
    BY <1>2
  <2> QED
    BY <1>3, <2>1
<1>5. 2 * NumFields <= Len(w) /\ \A k \in 1 .. 2 * NumFields : w[n + k] = Line(saving)[k]
  BY DEF SavedInv, EndsWith
<1>6. n \in Nat
  BY <1>2, <1>3, <1>5, FieldsAssumption
<1> QED
  BY <1>1, <1>2, <1>3, <1>4, <1>5, <1>6

(* The line of field names is no report.                                   *)
LEMMA HeaderNoRow ==
    ASSUME NEW f, NEW r \in Row, LineAt(f, 1, r)
    PROVE  ~LineAt(f, 1, Header)
<1> DEFINE one == 1
<1>1. one \in 1 .. 2 * NumFields /\ 1 + one - 1 = 1
  BY FieldsAssumption
<1>2. ASSUME NEW x, LineAt(f, 1, x) PROVE f[1] = <<x, (1 + 1) \div 2>>
  <2>1. f[1] = Line(x)[one]
    BY <1>1, <1>2 DEF LineAt
  <2> QED
    BY <1>1, <2>1 DEF Line
<1>3. r # Header
  BY RowAssumption
<1> QED
  BY <1>2, <1>3

(* No write before the last one of its report completes a report.          *)
LEMMA WriteCompletesNone ==
    ASSUME ReportTypeOK, SavedInv, TailInv, Write, Len(todo) # 1
    PROVE  Rows' = Rows
<1> DEFINE x == Head(todo)
           g == Append(file, x)
           w == file \o todo
           m == Len(file)
           n == Len(w) - 2 * NumFields
           p == m + 2 - 2 * NumFields
<1>1. todo # <<>> /\ file \in Seq(Cell) /\ x \in Cell
  BY HeadTailProperties DEF Write, ReportTypeOK
<1>2. file' = g /\ file' \o todo' = w /\ todo' = Tail(todo)
  BY WriteAppends DEF Write
<1>3. /\ w \in Seq(Cell) /\ Len(w) = m + Len(todo) /\ n \in Nat /\ m \in Nat
      /\ Len(todo) \in Nat \ {0} /\ saving \in Row
      /\ \A i \in 1 .. m : w[i] = file[i]
      /\ \A k \in 1 .. 2 * NumFields : w[n + k] = Line(saving)[k]
  <2>1. w = file \o todo /\ n = Len(w) - 2 * NumFields
    OBVIOUS
  <2> HIDE DEF w, n
  <2> QED
    BY <1>1, <2>1, WholeIs
<1>4. /\ g \in Seq(Cell) /\ Len(g) = m + 1 /\ \A i \in 1 .. m + 1 : g[i] = w[i]
  <2>1. todo \in Seq(Cell) /\ Tail(todo) \in Seq(Cell)
    BY <1>1, HeadTailProperties DEF ReportTypeOK
  <2>2. g \in Seq(Cell) /\ Len(g) = m + 1
    BY <1>1, AppendProperties
  <2>3. w = g \o Tail(todo)
    BY <1>2
  <2> DEFINE u == Tail(todo)
  <2> HIDE DEF g, u, w
  <2>4. \A i \in 1 .. Len(g) + Len(u) : w[i] = IF i <= Len(g) THEN g[i] ELSE u[i - Len(g)]
    BY <2>1, <2>2, <2>3, ConcatProperties DEF u
  <2>5. Len(u) \in Nat
    BY <2>1 DEF u
  <2>6. \A i \in 1 .. m + 1 : i \in 1 .. Len(g) + Len(u) /\ i <= Len(g)
    BY <1>3, <2>2, <2>5
  <2> QED
    BY <2>2, <2>4, <2>6
<1> HIDE DEF x, g, w
<1>5. Len(todo) >= 2
  <2>1. Len(todo) \in Nat \ {0} /\ Len(todo) # 1
    BY <1>3
  <2> HIDE DEF m, n, p
  <2> QED
    BY <2>1
<1>6. ASSUME p \in RowStarts(g) PROVE FALSE
  <2>1. PICK r \in Row : LineAt(g, p, r)
    BY <1>6 DEF RowStarts
  <2>2. p \in 1 .. m + 1
    BY <1>4, <1>6 DEF RowStarts
  <2>3. NumFields \in Nat \ {0}
    BY FieldsAssumption
  <2>4. g[m + 1] = Newline
    <3> DEFINE k == 2 * NumFields
    <3>1. k \in 1 .. 2 * NumFields /\ p + k - 1 = m + 1
      BY <1>3, <2>3
    <3>2. g[p + k - 1] = Line(r)[k]
      BY <2>1, <3>1 DEF LineAt
    <3>3. Line(r)[k] = Newline
      BY LineCells
    <3> QED
      BY <3>1, <3>2, <3>3
  <2>5. CASE n <= m
    <3> DEFINE k == (m + 1) - n
    <3>1. k \in 1 .. 2 * NumFields - 1 /\ k \in 1 .. 2 * NumFields /\ n + k = m + 1
      BY <1>3, <1>5, <2>3, <2>5
    <3>2. m + 1 \in 1 .. m + 1
      BY <1>3
    <3>3. g[m + 1] = Line(saving)[k]
      BY <1>3, <1>4, <3>1, <3>2
    <3>4. Line(saving)[k] # Newline
      BY <1>3, <3>1, LineCells
    <3> QED
      BY <2>4, <3>3, <3>4
  <2>6. CASE ~(n <= m)
    <3>1. m < n
      BY <1>3, <2>6
    <3>2. Len(w) = 2 * (2 * NumFields) /\ LineAt(w, 1, Header)
      BY <1>1, <3>1 DEF TailInv, w
    <3>3. p = 1
      <4>1. n = 2 * NumFields /\ m < 2 * NumFields
        BY <2>3, <3>1, <3>2
      <4>2. 2 * NumFields <= m + 1 /\ 2 * NumFields \in Nat /\ m \in Nat
        BY <1>3, <2>2, <2>3
      <4>3. m = 2 * NumFields - 1
        BY <4>1, <4>2
      <4> QED
        BY <4>2, <4>3
    <3>4. /\ p \in Nat \ {0} /\ Len(g) <= Len(w)
          /\ \A i \in 1 .. Len(g) : w[i] = g[i]
      BY <1>3, <1>4, <1>5, <3>3
    <3>5. LineAt(w, p, r)
      BY <1>3, <1>4, <2>1, <3>4, LongerStands
    <3> QED
      BY <3>2, <3>3, <3>5, HeaderNoRow
  <2> QED
    BY <2>5, <2>6
<1>7. RowsIn(g) = RowsIn(file)
  BY <1>1, <1>6, RowsAppend DEF g
<1> QED
  BY <1>2, <1>7 DEF Rows

(* The last one completes its report, unless the line before it is torn.   *)
LEMMA WriteCompletes ==
    ASSUME ReportTypeOK, SavedInv, TailInv, Write, Len(todo) = 1
    PROVE  /\ Rows' = IF TornTail THEN Rows ELSE Append(Rows, saving)
           /\ ~TornTail' /\ saving \notin saved /\ saved' = saved \cup {saving}
           /\ saving \in Row
<1> DEFINE x == Head(todo)
           g == Append(file, x)
           w == file \o todo
           m == Len(file)
           n == Len(w) - 2 * NumFields
           p == m + 2 - 2 * NumFields
<1>1. todo # <<>> /\ file \in Seq(Cell) /\ x \in Cell
  BY HeadTailProperties DEF Write, ReportTypeOK
<1>2. file' = g /\ file' \o todo' = w /\ todo' = Tail(todo)
  BY WriteAppends DEF Write
<1>3. /\ w \in Seq(Cell) /\ Len(w) = m + Len(todo) /\ n \in Nat /\ m \in Nat
      /\ saving \in Row /\ saving # NoRow
      /\ \A k \in 1 .. 2 * NumFields : w[n + k] = Line(saving)[k]
  <2>1. w = file \o todo /\ n = Len(w) - 2 * NumFields
    OBVIOUS
  <2> HIDE DEF w, n
  <2> QED
    BY <1>1, <2>1, WholeIs
<1>4. todo' = <<>> /\ file' = w
  <2>1. todo \in Seq(Cell) /\ Len(Tail(todo)) = 0 /\ Tail(todo) \in Seq(Cell)
    BY <1>1, HeadTailProperties DEF ReportTypeOK
  <2>2. todo' = <<>>
    BY <1>2, <2>1, EmptySeq
  <2>3. g \in Seq(Cell)
    BY <1>1, AppendProperties
  <2> QED
    BY <1>2, <2>2, <2>3, ConcatEmptySeq
<1>5. saving' = NoRow /\ saved' = saved \cup {saving} /\ saving \notin saved
  BY <1>1 DEF Write, TailInv
<1> HIDE DEF x, g, w
<1>6. /\ g = w /\ p = n + 1 /\ NumFields \in Nat \ {0} /\ Len(w) = n + 2 * NumFields
      /\ DOMAIN w = 1 .. n + 2 * NumFields
  <2>1. g = w
    BY <1>2, <1>4
  <2>2. NumFields \in Nat \ {0} /\ Len(w) = m + 1
    BY <1>3, FieldsAssumption
  <2>3. p = n + 1 /\ Len(w) = n + 2 * NumFields
    BY <1>3, <2>2
  <2> QED
    BY <1>3, <2>1, <2>2, <2>3
<1> HIDE DEF n, p
<1>7. w[Len(w)] = Newline /\ Len(w) > 0
  <2> DEFINE k == 2 * NumFields
  <2>1. k \in 1 .. 2 * NumFields /\ n + k = Len(w) /\ Len(w) > 0
    BY <1>3, <1>6
  <2>2. Line(saving)[k] = Newline
    BY <1>3, LineCells
  <2> QED
    BY <1>3, <2>1, <2>2
<1>8. ~TornTail'
  <2>1. file' \o todo' = w
    BY <1>2
  <2>2. Len(w) - 0 = Len(w)
    BY <1>3, <1>6
  <2> QED
    BY <1>5, <1>7, <2>1, <2>2 DEF TornTail
<1>9. TornTail <=> n > 0 /\ w[n] # Newline
  BY <1>3 DEF TornTail, w, n
<1>10. LineAt(w, p, saving)
  <2>1. p + 2 * NumFields - 1 <= Len(w)
    BY <1>3, <1>6
  <2>2. ASSUME NEW k \in 1 .. 2 * NumFields PROVE w[p + k - 1] = Line(saving)[k]
    <3>1. p + k - 1 = n + k
      BY <1>3, <1>6
    <3> QED
      BY <1>3, <3>1
  <2> QED
    BY <2>1, <2>2 DEF LineAt
<1>11. p \in Nat \ {0} /\ p \in DOMAIN w /\ p - 1 = n
  <2>1. n \in Nat /\ NumFields \in Nat \ {0}
    BY <1>3, <1>6
  <2>2. n + 1 \in 1 .. n + 2 * NumFields
    BY <2>1
  <2>3. p = n + 1 /\ DOMAIN w = 1 .. n + 2 * NumFields
    BY <1>6
  <2> QED
    BY <2>1, <2>2, <2>3
<1>12. p \in RowStarts(w) <=> ~TornTail
  <2>1. p \in RowStarts(w) <=> p = 1 \/ w[n] = Newline
    BY <1>3, <1>10, <1>11 DEF RowStarts, Begins
  <2>2. p = 1 <=> ~(n > 0)
    BY <1>3, <1>11
  <2> QED
    BY <1>9, <2>1, <2>2
<1>13. RowAt(w, p) = saving
  BY <1>3, <1>10, <1>11, RowAtIs
<1>14. RowsIn(w) = IF p \in RowStarts(w) THEN Append(RowsIn(file), RowAt(w, p)) ELSE RowsIn(file)
  <2>1. RowsIn(g) = IF p \in RowStarts(g) THEN Append(RowsIn(file), RowAt(g, p)) ELSE RowsIn(file)
    BY <1>1, RowsAppend DEF g, p
  <2> QED
    BY <1>6, <2>1
<1>15. Rows = RowsIn(file) /\ Rows' = RowsIn(w)
  BY <1>4 DEF Rows
<1> QED
  BY <1>3, <1>5, <1>8, <1>12, <1>13, <1>14, <1>15

(* A kill leaves the last line torn, or as it was.                         *)
LEMMA KillTears ==
    ASSUME ReportTypeOK, SavedInv, TailInv, KillServer
    PROVE  TornTail' \/ TornTail' = TornTail
<1> SUFFICES ASSUME ~TornTail', TornTail PROVE FALSE
  BY DEF TornTail
<1> DEFINE w == file \o todo
           m == Len(file)
           n == Len(w) - 2 * NumFields
<1>1. /\ file' = file /\ todo' = <<>> /\ saving' = NoRow /\ saving # NoRow /\ todo # <<>>
      /\ file \in Seq(Cell)
  BY DEF KillServer, ReportTypeOK
<1>2. /\ w \in Seq(Cell) /\ Len(w) = m + Len(todo) /\ n \in Nat /\ m \in Nat
      /\ Len(todo) \in Nat \ {0} /\ saving \in Row
      /\ \A i \in 1 .. m : w[i] = file[i]
      /\ \A k \in 1 .. 2 * NumFields : w[n + k] = Line(saving)[k]
  <2>1. w = file \o todo /\ n = Len(w) - 2 * NumFields
    OBVIOUS
  <2> HIDE DEF w, n
  <2> QED
    BY <1>1, <2>1, WholeIs
<1>3. file' \o todo' = file
  BY <1>1, ConcatEmptySeq
<1>4. m = 0 \/ file[m] = Newline
  <2>1. m - 0 = m
    BY <1>2
  <2> QED
    BY <1>1, <1>2, <1>3, <2>1 DEF TornTail
<1>5. n > 0 /\ w[n] # Newline
  BY <1>1 DEF TornTail
<1>6. NumFields \in Nat \ {0}
  BY FieldsAssumption
<1>7. m < n => Len(w) = 2 * (2 * NumFields) /\ LineAt(w, 1, Header)
  BY <1>1 DEF TailInv
<1> HIDE DEF w
<1>8. CASE m < n
  <2> DEFINE k == 2 * NumFields
  <2>1. k \in 1 .. 2 * NumFields /\ 1 + k - 1 = n
    BY <1>2, <1>6, <1>7, <1>8
  <2>2. w[n] = Line(Header)[k]
    BY <1>7, <1>8, <2>1 DEF LineAt
  <2>3. Line(Header)[k] = Newline
    BY LineCells
  <2> QED
    BY <1>5, <2>2, <2>3
<1>9. CASE m = n
  <2>1. m \in 1 .. m
    BY <1>2, <1>5, <1>9
  <2> QED
    BY <1>2, <1>4, <1>5, <1>9, <2>1
<1>10. CASE m > n
  <2> DEFINE k == m - n
  <2>1. k \in 1 .. 2 * NumFields - 1 /\ k \in 1 .. 2 * NumFields /\ n + k = m /\ m \in 1 .. m
    BY <1>2, <1>6, <1>10
  <2>2. file[m] = Line(saving)[k]
    BY <1>2, <2>1
  <2>3. Line(saving)[k] # Newline
    BY <1>2, <2>1, LineCells
  <2> QED
    BY <1>2, <1>4, <1>10, <2>2, <2>3
<1> QED
  BY <1>2, <1>8, <1>9, <1>10

(* TailInv is inductive.                                                   *)
LEMMA TailStep ==
    ASSUME ReportTypeOK, SavedInv, TailInv, [Next]_vars, ~Overlap
    PROVE  TailInv'
<1>1. CASE UNCHANGED reportVars
  BY <1>1 DEF TailInv, reportVars, serverVars
<1>2. ASSUME NEW r \in Row, OpenReport(r) PROVE TailInv'
  <2>1. saving' = r /\ r \notin saved /\ saved' = saved /\ file' = file /\ file \in Seq(Cell)
    BY <1>2 DEF OpenReport, ReportTypeOK
  <2>2. NumFields \in Nat \ {0} /\ Line(r) \in Seq(Cell) /\ Len(Line(r)) = 2 * NumFields
    BY LineShape, FieldsAssumption
  <2>3. CASE present
    <3>1. todo' = Line(r)
      BY <1>2, <2>3 DEF OpenReport
    <3>2. Len(file \o Line(r)) = Len(file) + Len(Line(r)) /\ Len(file) \in Nat
      <4>1. file \in Seq(Cell) /\ Line(r) \in Seq(Cell)
        BY <2>1, <2>2
      <4>2. Len(file \o Line(r)) = Len(file) + Len(Line(r))
        BY <4>1, ConcatProperties
      <4> QED
        BY <4>1, <4>2
    <3>3. ~(Len(file) < Len(file \o Line(r)) - 2 * NumFields)
      BY <2>2, <3>2
    <3> QED
      BY <2>1, <3>1, <3>3 DEF TailInv
  <2>4. CASE ~present
    <3> DEFINE h == Line(Header)
               l == Line(r)
               w == h \o l
    <3>1. file = <<>> /\ todo' = w
      BY <1>2, <2>4 DEF OpenReport, ReportTypeOK
    <3>2. h \in Seq(Cell) /\ Len(h) = 2 * NumFields
      BY LineShape
    <3>3. /\ w \in Seq(Cell) /\ Len(w) = Len(h) + Len(l)
          /\ \A i \in 1 .. Len(h) + Len(l) : w[i] = IF i <= Len(h) THEN h[i] ELSE l[i - Len(h)]
      <4> HIDE DEF h, l
      <4>1. h \in Seq(Cell) /\ l \in Seq(Cell)
        BY <2>2, <3>2 DEF l
      <4> QED
        BY <4>1, ConcatProperties
    <3> HIDE DEF h, l, w
    <3>4. file' \o todo' = w
      BY <2>1, <3>1, <3>3, ConcatEmptySeq
    <3>5. Len(w) = 2 * (2 * NumFields)
      BY <2>2, <3>2, <3>3 DEF l
    <3>6. LineAt(w, 1, Header)
      <4>1. 1 + 2 * NumFields - 1 <= Len(w)
        BY <2>2, <3>5
      <4>2. ASSUME NEW k \in 1 .. 2 * NumFields PROVE w[1 + k - 1] = h[k]
        <5>1. 1 + k - 1 = k /\ k \in 1 .. Len(h) + Len(l) /\ k <= Len(h)
          BY <2>2, <3>2 DEF l
        <5> QED
          BY <3>3, <5>1
      <4> QED
        BY <4>1, <4>2 DEF LineAt, h
    <3> QED
      BY <2>1, <3>4, <3>5, <3>6 DEF TailInv
  <2> QED
    BY <2>3, <2>4
<1>3. CASE Write
  <2>1. /\ file' \o todo' = file \o todo /\ file' = Append(file, Head(todo)) /\ todo # <<>>
    BY <1>3, WriteAppends DEF Write
  <2>2. Len(file) \in Nat /\ Len(file') = Len(file) + 1
    <3>1. file \in Seq(Cell) /\ Head(todo) \in Cell
      BY <2>1, HeadTailProperties DEF ReportTypeOK
    <3> QED
      BY <2>1, <3>1, AppendProperties
  <2>3. Len(file') < Len(file' \o todo') - 2 * NumFields
          => Len(file) < Len(file \o todo) - 2 * NumFields
    <3> DEFINE n == Len(file \o todo) - 2 * NumFields
    <3>1. n \in Nat
      BY <2>1, WholeIs
    <3>2. n = Len(file' \o todo') - 2 * NumFields
      BY <2>1
    <3> HIDE DEF n
    <3>3. Len(file') < n => Len(file) < n
      BY <2>2, <3>1
    <3> QED
      BY <3>2, <3>3 DEF n
  <2>4. CASE Len(todo) = 1
    <3>1. todo' = <<>>
      <4>1. todo \in Seq(Cell) /\ Len(Tail(todo)) = 0 /\ Tail(todo) \in Seq(Cell)
        BY <2>1, <2>4, HeadTailProperties DEF ReportTypeOK
      <4> QED
        BY <1>3, <4>1, EmptySeq DEF Write
    <3> QED
      BY <3>1 DEF TailInv
  <2>5. CASE Len(todo) # 1
    <3>1. saved' = saved /\ saving' = saving
      BY <1>3, <2>5 DEF Write
    <3> QED
      BY <2>1, <2>3, <3>1 DEF TailInv
  <2> QED
    BY <2>4, <2>5
<1>4. CASE KillServer
  BY <1>4 DEF KillServer, TailInv
<1>5. ASSUME NEW c \in Cleaner, CleanRead(c) \/ CleanTruncate(c) \/ CleanWrite(c) PROVE TailInv'
  <2>1. todo' = todo
    BY <1>5 DEF CleanRead, CleanTruncate, CleanWrite, serverVars
  <2>2. saving = NoRow
    BY <1>5 DEF CleanRead, CleanTruncate, CleanWrite, SavedInv, Cleaning
  <2> QED
    BY <2>1, <2>2 DEF ReportTypeOK, TailInv
<1> QED
  BY <1>1, <1>2, <1>3, <1>4, <1>5 DEF Next, ReportNext, vars

(* A save that begins tears nothing.                                       *)
LEMMA OpenTears ==
    ASSUME ReportTypeOK, NEW r \in Row, OpenReport(r)
    PROVE  TornTail' = TornTail
<1>1. /\ saving = NoRow /\ saving' # NoRow /\ todo = <<>> /\ file \o todo = file
      /\ file' = file /\ file \in Seq(Cell)
  BY NothingToWrite, RowAssumption DEF OpenReport, ReportTypeOK
<1>2. NumFields \in Nat \ {0} /\ Line(r) \in Seq(Cell) /\ Len(Line(r)) = 2 * NumFields
  BY LineShape, FieldsAssumption
<1> DEFINE m == Len(file)
<1>3. m \in Nat /\ m - 0 = m
  BY <1>1
<1>4. TornTail <=> m > 0 /\ file[m] # Newline
  BY <1>1, <1>3 DEF TornTail
<1>5. CASE present
  <2> DEFINE w == file \o Line(r)
  <2>1. file' \o todo' = w
    BY <1>1, <1>5 DEF OpenReport
  <2>2. /\ w \in Seq(Cell) /\ Len(w) = m + 2 * NumFields
        /\ \A i \in 1 .. m + Len(Line(r)) : w[i] = IF i <= m THEN file[i] ELSE Line(r)[i - m]
    <3>1. file \in Seq(Cell) /\ Line(r) \in Seq(Cell)
      BY <1>1, <1>2
    <3>2. /\ w \in Seq(Cell) /\ Len(w) = m + Len(Line(r))
          /\ \A i \in 1 .. m + Len(Line(r)) : w[i] = IF i <= m THEN file[i] ELSE Line(r)[i - m]
      BY <3>1, ConcatProperties
    <3> QED
      BY <1>2, <3>2
  <2> HIDE DEF w
  <2>3. Len(w) - 2 * NumFields = m
    BY <1>2, <1>3, <2>2
  <2>4. m > 0 => w[m] = file[m]
    <3>1. m > 0 => m \in 1 .. m + Len(Line(r)) /\ m <= m
      BY <1>2, <1>3
    <3> QED
      BY <2>2, <3>1
  <2>5. TornTail' <=> m > 0 /\ w[m] # Newline
    BY <1>1, <2>1, <2>3 DEF TornTail
  <2> QED
    BY <1>4, <2>4, <2>5 DEF TornTail
<1>6. CASE ~present
  <2> DEFINE h == Line(Header)
             l == Line(r)
             w == h \o l
             n == 2 * NumFields
  <2>1. file = <<>> /\ todo' = w
    BY <1>6 DEF OpenReport, ReportTypeOK
  <2>2. h \in Seq(Cell) /\ Len(h) = n /\ h[n] = Newline
    BY LineShape, LineCells
  <2>3. /\ w \in Seq(Cell) /\ Len(w) = Len(h) + Len(l)
        /\ \A i \in 1 .. Len(h) + Len(l) : w[i] = IF i <= Len(h) THEN h[i] ELSE l[i - Len(h)]
    <3> HIDE DEF h, l
    <3>1. h \in Seq(Cell) /\ l \in Seq(Cell)
      BY <1>2, <2>2 DEF l
    <3> QED
      BY <3>1, ConcatProperties
  <2> HIDE DEF h, w
  <2>4. file' \o todo' = w
    BY <1>1, <2>1, <2>3, ConcatEmptySeq
  <2>5. Len(w) - n = n /\ n \in 1 .. Len(h) + Len(l) /\ n <= Len(h)
    BY <1>2, <2>2, <2>3
  <2>6. w[n] = Newline
    BY <2>2, <2>3, <2>5
  <2>7. ~TornTail'
    BY <1>1, <2>4, <2>5, <2>6 DEF TornTail
  <2>8. ~TornTail
    <3>1. m = 0
      BY <2>1
    <3> QED
      BY <1>4, <3>1
  <2> QED
    BY <2>7, <2>8 DEF TornTail
<1> QED
  BY <1>5, <1>6

(* A clean empties the log, then leaves the line it kept in it.            *)
LEMMA CleanLogs ==
    ASSUME ReportTypeOK, SavedInv, LogInv, FrameInv, ~Overlap, NEW c \in Cleaner,
           CleanRead(c) \/ CleanTruncate(c) \/ CleanWrite(c)
    PROVE  /\ saved' = saved
           /\ \/ Rows' = Rows /\ TornTail' = TornTail
              \/ Rows' = <<>> /\ ~TornTail'
              \/ /\ headless \/ kills > 0
                 /\ Rows = <<>> /\ TornTail' = TornTail
                 /\ \E r \in Row : Rows' = <<r>>
<1>1. \A f : f = <<>> => RowsIn(f) = <<>>
  <2>1. <<>> \in Seq(Cell) /\ DOMAIN <<>> = {}
    OBVIOUS
  <2>2. RowStarts(<<>>) = {}
    BY <2>1 DEF RowStarts
  <2> QED
    BY <2>1, <2>2, RowsNone
<1>2. saved' = saved /\ saving' = saving /\ todo' = todo /\ saving = NoRow /\ todo = <<>>
  <2>1. saved' = saved /\ saving' = saving /\ todo' = todo
    BY DEF CleanRead, CleanTruncate, CleanWrite, serverVars
  <2>2. saving = NoRow
    BY DEF CleanRead, CleanTruncate, CleanWrite, SavedInv, Cleaning
  <2> QED
    BY <2>1, <2>2 DEF ReportTypeOK
<1>3. /\ file \in Seq(Cell) => (TornTail <=> Len(file) > 0 /\ file[Len(file)] # Newline)
      /\ file' \in Seq(Cell) => (TornTail' <=> Len(file') > 0 /\ file'[Len(file')] # Newline)
  <2>1. \A f \in Seq(Cell) : f \o <<>> = f /\ Len(f) - 0 = Len(f)
    BY ConcatEmptySeq
  <2> QED
    BY <1>2, <2>1 DEF TornTail
<1>4. CASE CleanRead(c)
  <2>1. file' = file
    BY <1>4 DEF CleanRead
  <2> QED
    BY <1>2, <2>1 DEF Rows, TornTail
<1>5. CASE CleanTruncate(c)
  <2>1. file' = <<>> /\ <<>> \in Seq(Cell) /\ Len(<<>>) = 0
    BY <1>5 DEF CleanTruncate
  <2>2. ~TornTail'
    BY <1>3, <2>1
  <2> QED
    BY <1>1, <1>2, <2>1, <2>2 DEF Rows
<1>6. CASE CleanWrite(c)
  <2> DEFINE t == <<Newline>>
             h == header[c]
             s == h \o t
  <2>1. /\ cpc[c] = "truncated" /\ file' = WriteAt(file, 0, s)
    BY <1>6 DEF CleanWrite
  <2>2. file = <<>> /\ \A i \in DOMAIN h : h[i] # Newline
    BY <2>1 DEF LogInv
  <2>3. h \in Seq(Cell) /\ t \in Seq(Cell) /\ Len(t) = 1
    BY DEF ReportTypeOK, Cell
  <2> HIDE DEF t, h
  <2>4. /\ s \in Seq(Cell) /\ Len(s) = Len(h) + 1 /\ Len(h) \in Nat
        /\ \A i \in 1 .. Len(h) + 1 : s[i] = IF i <= Len(h) THEN h[i] ELSE t[i - Len(h)]
    <3>1. /\ h \o t \in Seq(Cell) /\ Len(h \o t) = Len(h) + Len(t)
          /\ \A i \in 1 .. Len(h) + Len(t) :
                (h \o t)[i] = IF i <= Len(h) THEN h[i] ELSE t[i - Len(h)]
      <4>1. h \in Seq(Cell) /\ t \in Seq(Cell)
        BY <2>3
      <4> QED
        BY <4>1, ConcatProperties
    <3>2. Len(h) \in Nat
      BY <2>3
    <3> QED
      BY <2>3, <3>1, <3>2
  <2> HIDE DEF s
  <2>5. file' = s
    BY <2>1, <2>2, <2>4, WriteAtStart
  <2>6. ASSUME NEW i \in 1 .. Len(s) - 1 PROVE s[i] # Newline
    <3>1. i \in 1 .. Len(h) + 1 /\ i <= Len(h) /\ i \in DOMAIN h
      BY <2>3, <2>4
    <3> QED
      BY <2>2, <2>4, <3>1
  <2>7. RowsIn(s) = <<>> \/ \E r \in Row : LineAt(s, 1, r) /\ RowsIn(s) = <<r>>
    BY <2>4, <2>6, RowsOne
  <2>8. Rows' = RowsIn(s) /\ Rows = <<>>
    BY <1>1, <2>2, <2>5 DEF Rows
  <2>9. TornTail' = TornTail
    <3>1. ~TornTail
      <4>1. file \in Seq(Cell) /\ Len(file) = 0
        BY <2>2
      <4> QED
        BY <1>3, <4>1
    <3>2. ~TornTail'
      <4>1. Len(s) \in 1 .. Len(h) + 1 /\ ~(Len(s) <= Len(h)) /\ Len(s) - Len(h) = 1
        BY <2>4
      <4>2. s[Len(s)] = t[1]
        BY <2>4, <4>1
      <4>3. t[1] = Newline
        BY DEF t
      <4> QED
        BY <1>3, <2>4, <2>5, <4>2, <4>3
    <3> QED
      BY <3>1, <3>2 DEF TornTail
  <2>10. ASSUME NEW r \in Row, LineAt(s, 1, r) PROVE headless \/ kills > 0
    <3> SUFFICES ASSUME ~headless, kills = 0 PROVE FALSE
      BY DEF ReportTypeOK
    <3>1. Lined(s, headless)
      BY <2>1 DEF FrameInv, s, h, t
    <3>2. LineAt(s, 1, Header)
      <4>1. s # <<>>
        BY <2>4
      <4> QED
        BY <3>1, <4>1 DEF Lined, TopLine
    <3> QED
      BY <2>10, <3>2, HeaderNoRow
  <2> QED
    BY <1>2, <2>7, <2>8, <2>9, <2>10
<1> QED
  BY <1>4, <1>5, <1>6

(* LogInv is inductive.                                                    *)
LEMMA LogStep ==
    ASSUME TypeOK, SavedInv, LogInv, [Next]_vars, ~Overlap
    PROVE  LogInv'
<1> USE DEF LogInv
<1>0. ReportTypeOK
  BY DEF TypeOK
<1>1. CASE UNCHANGED reportVars
  BY <1>1 DEF reportVars, cleanVars
<1>2. CASE \E r \in Row : OpenReport(r)
  BY <1>2 DEF OpenReport, cleanVars
<1>3. CASE KillServer
  BY <1>3 DEF KillServer, cleanVars
<1>4. CASE Write
  <2>1. saving # NoRow
    BY <1>0, <1>4 DEF Write, ReportTypeOK
  <2>2. ~Cleaning /\ cpc' = cpc /\ header' = header
    BY <1>4, <2>1 DEF SavedInv, Write, cleanVars
  <2> QED
    BY <2>2 DEF Cleaning
<1>5. ASSUME NEW c \in Cleaner, CleanRead(c) PROVE LogInv'
  <2>1. ~Cleaning /\ cpc' = [cpc EXCEPT ![c] = "read"] /\ header' = [header EXCEPT ![c] = FirstLine(file)]
    BY <1>5 DEF CleanRead
  <2>2. cpc \in [Cleaner -> {"idle", "read", "truncated"}] /\ header \in [Cleaner -> Seq(Cell)]
        /\ file \in Seq(Cell)
    BY <1>0 DEF ReportTypeOK
  <2>3. \A d \in Cleaner : cpc'[d] # "truncated" /\ (d # c => cpc'[d] = "idle")
    BY <2>1, <2>2 DEF Cleaning
  <2>4. \A d \in Cleaner : header'[d] = IF d = c THEN FirstLine(file) ELSE header[d]
    BY <2>1, <2>2
  <2>5. \A i \in DOMAIN FirstLine(file) : FirstLine(file)[i] # Newline
    BY <2>2, FirstLineType
  <2>6. ASSUME NEW d \in Cleaner, NEW i \in DOMAIN header'[d] PROVE header'[d][i] # Newline
    BY <2>4, <2>5, <2>6
  <2> QED
    BY <2>3, <2>6
<1>6. ASSUME NEW c \in Cleaner, CleanTruncate(c) PROVE LogInv'
  <2>1. /\ cpc[c] = "read" /\ cpc' = [cpc EXCEPT ![c] = "truncated"]
        /\ header' = header /\ file' = <<>>
    BY <1>6 DEF CleanTruncate
  <2>2. cpc \in [Cleaner -> {"idle", "read", "truncated"}]
    BY <1>0 DEF ReportTypeOK
  <2>3. \A d \in Cleaner : d # c => cpc[d] = "idle" /\ cpc'[d] = "idle"
    BY <2>1, <2>2
  <2> QED
    BY <2>1, <2>3
<1>7. ASSUME NEW c \in Cleaner, CleanWrite(c) PROVE LogInv'
  <2>1. /\ cpc[c] = "truncated" /\ cpc' = [cpc EXCEPT ![c] = "idle"]
        /\ header' = [header EXCEPT ![c] = <<>>]
    BY <1>7 DEF CleanWrite
  <2>2. cpc \in [Cleaner -> {"idle", "read", "truncated"}] /\ header \in [Cleaner -> Seq(Cell)]
    BY <1>0 DEF ReportTypeOK
  <2>3. \A d \in Cleaner : cpc'[d] = "idle"
    BY <2>1, <2>2
  <2>4. \A d \in Cleaner : header'[d] = IF d = c THEN <<>> ELSE header[d]
    BY <2>1, <2>2
  <2>5. \A i : i \notin DOMAIN <<>>
    OBVIOUS
  <2>6. ASSUME NEW d \in Cleaner, NEW i \in DOMAIN header'[d] PROVE header'[d][i] # Newline
    BY <2>4, <2>5, <2>6
  <2> QED
    BY <2>3, <2>6
<1> QED
  BY <1>1, <1>2, <1>3, <1>4, <1>5, <1>6, <1>7 DEF Next, ReportNext, vars

(***************************************************************************)
(* For any reports, fields, requests and cleans, and any number of kills   *)
(* of the server, as long as no clean overlaps a save or another clean:    *)
(* report.txt is the log of ReportLog.  A report is added behind the       *)
(* others when its save returns, and is no line of its own only when the   *)
(* line before it is torn, which nothing but a kill does; a clean empties  *)
(* the file, but for a report it may keep when the field names are lost or *)
(* a kill tore a line; no step of log.php changes anything.                *)
(***************************************************************************)
THEOREM ReportLogCorrect ==
    ASSUME ~Overlap
    PROVE  Spec => ReportLogSpec
<1> DEFINE Inv == SavedInv /\ FrameInv /\ LogInv /\ TailInv
<1>1. Init => Inv
  <2> SUFFICES ASSUME Init PROVE Inv
    OBVIOUS
  <2>1. /\ file = <<>> /\ todo = <<>> /\ file \o todo = <<>> /\ present = FALSE
        /\ \A c \in Cleaner : cpc[c] = "idle" /\ header[c] = <<>>
        /\ \A i : i \notin DOMAIN <<>>
    BY DEF Init, ReportInit
  <2>2. LogInv /\ TailInv
    BY <2>1 DEF LogInv, TailInv
  <2>3. FrameInv
    BY <2>1 DEF FrameInv, Lined
  <2> QED
    BY <2>2, <2>3 DEF Init, ReportInit, SavedInv
<1>2. TypeOK /\ Inv /\ [Next]_vars => Inv'
  BY SavedStep, FrameStep, LogStep, TailStep DEF TypeOK
<1>3. Init => L!Init
  <2> SUFFICES ASSUME Init PROVE Rows = <<>> /\ saved = {} /\ ~TornTail
    BY DEF L!Init, TornTail
  <2>1. <<>> \in Seq(Cell) /\ DOMAIN <<>> = {} /\ Len(<<>>) = 0 /\ file = <<>>
        /\ todo = <<>> /\ saving = NoRow /\ saved = {} /\ file \o todo = <<>>
    BY DEF Init, ReportInit
  <2>2. RowStarts(file) = {}
    BY <2>1 DEF RowStarts
  <2>3. ~TornTail
    BY <2>1 DEF TornTail
  <2> QED
    BY <2>1, <2>2, <2>3, RowsNone DEF Rows
<1>4. TypeOK /\ Inv /\ [Next]_vars
        => [\/ L!Next
            \/ kills' > kills /\ L!Tear
            \/ (headless \/ kills > 0) /\ \E r \in Row : L!Keep(r)]_(L!vars)
  <2> SUFFICES ASSUME TypeOK, Inv, [Next]_vars
               PROVE  [\/ L!Next
                       \/ kills' > kills /\ L!Tear
                       \/ (headless \/ kills > 0) /\ \E r \in Row : L!Keep(r)]_(L!vars)
    OBVIOUS
  <2>0. ReportTypeOK /\ (TornTail \in BOOLEAN)
    BY DEF TypeOK, TornTail
  <2>1. ASSUME Rows' = Rows, saved' = saved, TornTail' = TornTail PROVE UNCHANGED L!vars
    BY <2>1 DEF L!vars
  <2>2. CASE Write
    <3>1. CASE Len(todo) = 1
      <4>1. /\ Rows' = IF TornTail THEN Rows ELSE Append(Rows, saving)
            /\ ~TornTail' /\ saving \notin saved /\ saved' = saved \cup {saving}
            /\ saving \in Row
        BY <2>0, <2>2, <3>1, WriteCompletes
      <4>2. CASE TornTail
        <5>1. L!SaveGlued(saving)
          BY <4>1, <4>2 DEF L!SaveGlued, TornTail
        <5> QED
          BY <4>1, <5>1 DEF L!Next
      <4>3. CASE ~TornTail
        <5>1. L!Save(saving)
          BY <4>1, <4>3 DEF L!Save, TornTail
        <5> QED
          BY <4>1, <5>1 DEF L!Next
      <4> QED
        BY <4>2, <4>3
    <3>2. CASE Len(todo) # 1
      <4>1. saved' = saved /\ saving' = saving
        BY <2>2, <3>2 DEF Write
      <4>2. file' \o todo' = file \o todo
        BY <2>0, <2>2, WriteAppends
      <4>3. TornTail' = TornTail
        BY <4>1, <4>2 DEF TornTail
      <4>4. Rows' = Rows
        BY <2>0, <2>2, <3>2, WriteCompletesNone
      <4> QED
        BY <2>1, <4>1, <4>3, <4>4
    <3> QED
      BY <3>1, <3>2
  <2>3. CASE \E c \in Cleaner : CleanRead(c) \/ CleanTruncate(c) \/ CleanWrite(c)
    <3>1. /\ saved' = saved
          /\ \/ Rows' = Rows /\ TornTail' = TornTail
             \/ Rows' = <<>> /\ ~TornTail'
             \/ /\ headless \/ kills > 0
                /\ Rows = <<>> /\ TornTail' = TornTail
                /\ \E r \in Row : Rows' = <<r>>
      BY <2>0, <2>3, CleanLogs
    <3>2. CASE Rows' = Rows /\ TornTail' = TornTail
      BY <2>1, <3>1, <3>2
    <3>3. CASE Rows' = <<>> /\ ~TornTail'
      <4>1. L!Clear
        BY <3>1, <3>3 DEF L!Clear, TornTail
      <4> QED
        BY <4>1 DEF L!Next
    <3>4. CASE (headless \/ kills > 0) /\ Rows = <<>> /\ TornTail' = TornTail
               /\ \E r \in Row : Rows' = <<r>>
      <4>1. \E r \in Row : L!Keep(r)
        BY <3>1, <3>4 DEF L!Keep
      <4> QED
        BY <3>4, <4>1
    <3> QED
      BY <3>1, <3>2, <3>3, <3>4
  <2>4. CASE UNCHANGED reportVars
    <3>1. file' = file /\ todo' = todo /\ saving' = saving /\ saved' = saved
      BY <2>4 DEF reportVars, serverVars
    <3> QED
      BY <2>1, <3>1 DEF Rows, TornTail
  <2>5. CASE KillServer
    <3>1. Rows' = Rows /\ saved' = saved
      BY <2>5 DEF KillServer, Rows
    <3>2. kills' > kills
      <4>1. kills \in Nat /\ kills' = kills + 1
        BY <2>0, <2>5 DEF KillServer, ReportTypeOK
      <4> QED
        BY <4>1
    <3>3. CASE TornTail'
      <4>1. L!Tear
        BY <3>1, <3>3 DEF L!Tear, TornTail
      <4> QED
        BY <3>2, <4>1
    <3>4. CASE ~TornTail'
      <4>1. TornTail' = TornTail
        BY <2>0, <2>5, <3>4, KillTears
      <4> QED
        BY <2>1, <3>1, <4>1
    <3> QED
      BY <3>3, <3>4
  <2>6. ASSUME NEW r \in Row, OpenReport(r) PROVE UNCHANGED L!vars
    <3>1. /\ saved' = saved /\ file' = file /\ saving' = r /\ r # NoRow /\ saving = NoRow
      BY <2>6, RowAssumption DEF OpenReport
    <3>2. TornTail' = TornTail
      BY <2>0, <2>6, OpenTears
    <3> QED
      BY <2>1, <3>1, <3>2 DEF Rows
  <2> QED
    BY <2>2, <2>3, <2>4, <2>5, <2>6 DEF Next, ReportNext, vars
<1> HIDE DEF Inv
<1> QED
  BY <1>1, <1>2, <1>3, <1>4, WebTypeCorrect, PTL DEF Spec, ReportLogSpec
=============================================================================
