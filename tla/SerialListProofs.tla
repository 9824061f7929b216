-------------------------- MODULE SerialListProofs ---------------------------
(***************************************************************************)
(* What holds of serial.txt and its pages for every number of browsers and *)
(* requests, every text and every trim: types, that nobody's removed       *)
(* serial is approved once a save has written a line, that a request does  *)
(* what its user asked for and that the server then approves what the page *)
(* shows, or anything if that is nothing.                                  *)
(***************************************************************************)
EXTENDS SerialList, SelectionProofs, SequenceTheorems, TLAPS

(* A trimmed text that is not empty: what read_file returns.               *)
ProperText == {t \in Text : Proper(t)}

(***************************************************************************)
(* The inductive invariant: a form is one of its page's as long as the     *)
(* request runs, what is being written is that form's edit of what the     *)
(* request read, and while nobody else writes the file is as much of it    *)
(* as save_config has written.                                             *)
(***************************************************************************)
FormOfThePage == \A b \in Browser : pc[b] # "idle" => post[b] \in Forms(b)

ListIsTheEdit ==
    \A b \in Browser :
        pc[b] \in {"edited", "save"} =>
            before[b] \in Seq(ProperText) /\ list[b] = Edited(b, before[b])

WritesFromTheStart == \A b \in Browser : pc[b] # "save" => pos[b] = 0

FileIsWhatWasWritten ==
    \A b \in Browser :
        Saving(b) /\ alone[b] => file = SubSeq(list[b], 1, pos[b])

IInv ==
    /\ TypeOK /\ FormOfThePage /\ ListIsTheEdit
    /\ WritesFromTheStart /\ FileIsWhatWasWritten

(* The texts of a list, as they count for a serial t.                      *)
Places(s, t) == {i \in DOMAIN s : Trim[s[i]] = t}

(* The places of a sequence are finitely many.                             *)
LEMMA PlacesFinite ==
    ASSUME NEW T, NEW s \in Seq(T), NEW S \in SUBSET DOMAIN s
    PROVE  S \in SUBSET Nat /\ IsFiniteSet(S)
<1>1. DOMAIN s = 1 .. Len(s) /\ Len(s) \in Nat
  OBVIOUS
<1>2. IsFiniteSet(1 .. Len(s))
  BY <1>1, FS_Interval
<1>3. S \in SUBSET (1 .. Len(s))
  BY <1>1
<1> QED
  BY <1>2, <1>3, FS_Subset

(* read_file returns trimmed texts, none of them empty.                    *)
LEMMA ReadLinesType ==
    ASSUME NEW f \in Seq(Text \cup {Hole})
    PROVE  ReadLines(f) \in Seq(ProperText)
<1> DEFINE K == Kept(f)
           g == Selected(f, K)
           n == Cardinality(K)
<1>1. K \in SUBSET Nat /\ IsFiniteSet(K)
  <2>1. K \in SUBSET DOMAIN f
    BY DEF Kept
  <2> HIDE DEF K
  <2> QED
    BY <2>1, PlacesFinite
<1>2. \A i \in K : f[i] \in Text /\ Trim[f[i]] \in ProperText
  <2> TAKE i \in K
  <2>1. f[i] \in Text \cup {Hole} /\ f[i] # Hole /\ Trim[f[i]] # Blank
    BY DEF Kept
  <2> QED
    BY <2>1, TrimAssumption DEF ProperText, Proper
<1> HIDE DEF K
<1>3. g \in Seq(Text) /\ DOMAIN g = 1 .. n /\ \A k \in 1 .. n : g[k] = f[Nth(K, k)]
  BY <1>1, <1>2, SelectedType
<1>4. n \in Nat /\ \A k \in 1 .. n : Nth(K, k) \in K
  BY <1>1, NthOf
<1>5. \A k \in 1 .. n : Trim[g[k]] \in ProperText
  BY <1>2, <1>3, <1>4
<1>6. ReadLines(f) = [k \in 1 .. n |-> Trim[g[k]]]
  BY <1>3 DEF ReadLines, TrimAll, K
<1> HIDE DEF n, g
<1> QED
  BY <1>4, <1>5, <1>6

(* ... each as often as the file has it, blanks around it or not.          *)
LEMMA ReadLinesCount ==
    ASSUME NEW f \in Seq(Text), NEW t \in Text \ {Blank}
    PROVE  Copies(ReadLines(f), t) = Cardinality(Places(f, t))
<1> DEFINE K == Kept(f)
           g == Selected(f, K)
           n == Cardinality(K)
           U == Places(f, t)
           V == {k \in 1 .. n : Nth(K, k) \in U}
<1>1. K \in SUBSET Nat /\ IsFiniteSet(K) /\ K \in SUBSET DOMAIN f
  <2>1. K \in SUBSET DOMAIN f
    BY DEF Kept
  <2> HIDE DEF K
  <2> QED
    BY <2>1, PlacesFinite
<1>2. U \in SUBSET K
  <2> SUFFICES ASSUME NEW i \in DOMAIN f, Trim[f[i]] = t
               PROVE  f[i] # Hole /\ Trim[f[i]] # Blank
    BY DEF Kept, Places
  <2>1. f[i] \in Text
    OBVIOUS
  <2> QED
    BY <2>1, TextAssumption
<1>3. \A i \in K : f[i] \in Text
  BY <1>1
<1> HIDE DEF K
<1>4. DOMAIN g = 1 .. n /\ \A k \in 1 .. n : g[k] = f[Nth(K, k)] /\ Nth(K, k) \in K
  BY <1>1, <1>3, SelectedType, NthOf
<1>5. ReadLines(f) = [k \in 1 .. n |-> Trim[f[Nth(K, k)]]]
  BY <1>4 DEF ReadLines, TrimAll, K
<1>6. {k \in DOMAIN ReadLines(f) : ReadLines(f)[k] = t} = V
  BY <1>1, <1>4, <1>5 DEF Places
<1> HIDE DEF U
<1>7. Cardinality(V) = Cardinality(U)
  BY <1>1, <1>2, SelectedCount
<1> QED
  BY <1>6, <1>7 DEF Copies, U

(* In a list that was read, a copy is a place.                             *)
LEMMA CopiesProper ==
    ASSUME NEW s \in Seq(ProperText), NEW t
    PROVE  Copies(s, t) = Cardinality(Places(s, t))
<1>1. \A i \in DOMAIN s : Trim[s[i]] = s[i]
  BY DEF ProperText, Proper
<1>2. {i \in DOMAIN s : s[i] = t} = Places(s, t)
  BY <1>1 DEF Places
<1> QED
  BY <1>2 DEF Copies

Is(u, t) == IF Trim[u] = t THEN 1 ELSE 0

(* A place that is added counts if its text does.                          *)
LEMMA AddedCount ==
    ASSUME NEW U, IsFiniteSet(U), NEW i, i \notin U, NEW x, NEW t,
           NEW V, V = IF Trim[x] = t THEN U \cup {i} ELSE U
    PROVE  Cardinality(V) = Cardinality(U) + Is(x, t)
<1>1. Cardinality(U) \in Nat
  BY FS_CardinalityType
<1>2. CASE Trim[x] = t
  <2>1. Cardinality(U \cup {i}) = Cardinality(U) + 1
    BY FS_AddElement
  <2> QED
    BY <1>2, <2>1 DEF Is
<1>3. CASE Trim[x] # t
  BY <1>1, <1>3 DEF Is
<1> QED
  BY <1>2, <1>3

(* A changed text counts as what it is now, not as what it was.            *)
LEMMA ExceptCount ==
    ASSUME NEW s \in Seq(Text), NEW i \in DOMAIN s, NEW x \in Text, NEW t
    PROVE  Cardinality(Places([s EXCEPT ![i] = x], t))
              = Cardinality(Places(s, t)) - Is(s[i], t) + Is(x, t)
<1> DEFINE r == [s EXCEPT ![i] = x]
           U == Places(s, t)
           V == Places(r, t)
           W == U \ {i}
<1>1. DOMAIN r = DOMAIN s /\ r[i] = x /\ \A j \in DOMAIN s : j # i => r[j] = s[j]
  OBVIOUS
<1>2. V = IF Trim[x] = t THEN W \cup {i} ELSE W
  BY <1>1 DEF Places
<1>3. i \in U <=> Trim[s[i]] = t
  BY DEF Places
<1>4. IsFiniteSet(U)
  BY PlacesFinite DEF Places
<1> HIDE DEF U, V
<1>5. /\ IsFiniteSet(W)
      /\ Cardinality(W) = Cardinality(U) - Is(s[i], t)
      /\ Cardinality(U) \in Nat
  BY <1>3, <1>4, FS_RemoveElement, FS_CardinalityType DEF Is
<1>6. i \notin W
  OBVIOUS
<1> HIDE DEF W
<1>7. Cardinality(V) = Cardinality(W) + Is(x, t)
  BY <1>2, <1>5, <1>6, AddedCount
<1> QED
  BY <1>5, <1>7 DEF U, V

(* A text that is added counts as what it is.                              *)
LEMMA AppendCount ==
    ASSUME NEW s \in Seq(Text), NEW x \in Text, NEW t
    PROVE  Cardinality(Places(Append(s, x), t)) = Cardinality(Places(s, t)) + Is(x, t)
<1> DEFINE r == Append(s, x)
           n == Len(s)
           U == Places(s, t)
           V == Places(r, t)
<1>1. /\ n \in Nat /\ DOMAIN s = 1 .. n /\ DOMAIN r = 1 .. n + 1
      /\ r[n + 1] = x /\ \A j \in 1 .. n : r[j] = s[j]
  OBVIOUS
<1> HIDE DEF r, n
<1>2. V = IF Trim[x] = t THEN U \cup {n + 1} ELSE U
  BY <1>1 DEF Places
<1>3. n + 1 \notin U
  BY <1>1 DEF Places
<1>4. IsFiniteSet(U)
  BY PlacesFinite DEF Places
<1> HIDE DEF U, V
<1>5. Cardinality(U) \in Nat
  BY <1>4, FS_CardinalityType
<1>6. Cardinality(V) = Cardinality(U) + Is(x, t)
  BY <1>2, <1>3, <1>4, AddedCount
<1> QED
  BY <1>6 DEF U, V, r

(* unset and array_values take out one place and close the gap.            *)
LEMMA WithoutShape ==
    ASSUME NEW T, NEW s \in Seq(T), NEW i \in DOMAIN s
    PROVE  /\ Without(s, i) \in Seq(T)
           /\ Len(Without(s, i)) = Len(s) - 1
           /\ \A j \in 1 .. Len(s) - 1 : Without(s, i)[j] = IF j < i THEN s[j] ELSE s[j + 1]
<1> DEFINE n == Len(s)
           a == SubSeq(s, 1, i - 1)
           c == SubSeq(s, i + 1, n)
           r == a \o c
<1>1. n \in Nat /\ i \in 1 .. n /\ DOMAIN s = 1 .. n /\ \A j \in 1 .. n : s[j] \in T
  BY ElementOfSeq
<1>2. Without(s, i) = r
  BY DEF Without
<1> HIDE DEF n
<1>3. /\ a \in Seq(T) /\ Len(a) = i - 1
      /\ \A j \in 1 .. i - 1 : a[j] = s[j]
  <2> DEFINE one == 1
             m == i - 1
  <2>1. one \in Int /\ m \in Int /\ (\A j \in one .. m : s[j] \in T) /\ one = 1 /\ m = i - 1 /\ m >= 0
    BY <1>1
  <2>2. a = SubSeq(s, one, m)
    OBVIOUS
  <2> HIDE DEF one, m, a
  <2>3. /\ a \in Seq(T)
        /\ Len(a) = IF one <= m THEN m - one + 1 ELSE 0
        /\ \A j \in 1 .. m - one + 1 : a[j] = s[one + j - 1]
    BY <2>1, <2>2, SubSeqProperties
  <2> QED
    BY <2>1, <2>3
<1>4. /\ c \in Seq(T) /\ Len(c) = n - i
      /\ \A j \in 1 .. n - i : c[j] = s[i + j]
  <2> DEFINE one == i + 1
  <2>1. one \in Int /\ n \in Int /\ (\A j \in one .. n : s[j] \in T) /\ one = i + 1
    BY <1>1
  <2> HIDE DEF one
  <2>2. /\ SubSeq(s, one, n) \in Seq(T)
        /\ Len(SubSeq(s, one, n)) = IF one <= n THEN n - one + 1 ELSE 0
        /\ \A j \in 1 .. n - one + 1 : SubSeq(s, one, n)[j] = s[one + j - 1]
    BY <2>1, SubSeqProperties
  <2>3. c = SubSeq(s, one, n)
    BY <2>1
  <2> HIDE DEF c
  <2>4. \A j \in 1 .. n - i : one + j - 1 = i + j /\ j \in 1 .. n - one + 1
    BY <1>1, <2>1
  <2> QED
    BY <1>1, <2>1, <2>2, <2>3, <2>4
<1> HIDE DEF a, c
<1>5. /\ r \in Seq(T) /\ Len(r) = n - 1
      /\ \A j \in 1 .. n - 1 : r[j] = IF j <= i - 1 THEN a[j] ELSE c[j - (i - 1)]
  <2>1. /\ a \o c \in Seq(T) /\ Len(a \o c) = Len(a) + Len(c)
        /\ \A j \in 1 .. Len(a) + Len(c) :
              (a \o c)[j] = IF j <= Len(a) THEN a[j] ELSE c[j - Len(a)]
    BY <1>3, <1>4, ConcatProperties
  <2>2. Len(a) + Len(c) = n - 1 /\ Len(a) = i - 1
    BY <1>1, <1>3, <1>4
  <2> QED
    BY <2>1, <2>2
<1> HIDE DEF r
<1>6. ASSUME NEW j \in 1 .. n - 1 PROVE r[j] = IF j < i THEN s[j] ELSE s[j + 1]
  <2>1. CASE j < i
    <3>1. j <= i - 1 /\ j \in 1 .. i - 1
      BY <1>1, <2>1
    <3> QED
      BY <1>3, <1>5, <2>1, <3>1
  <2>2. CASE ~(j < i)
    <3>1. ~(j <= i - 1) /\ j - (i - 1) \in 1 .. n - i /\ i + (j - (i - 1)) = j + 1
      BY <1>1, <2>2
    <3> QED
      BY <1>4, <1>5, <2>2, <3>1
  <2> QED
    BY <2>1, <2>2
<1> QED
  BY <1>2, <1>5, <1>6 DEF n

(* The text that is taken out no longer counts.                            *)
LEMMA WithoutCount ==
    ASSUME NEW s \in Seq(Text), NEW i \in DOMAIN s, NEW t
    PROVE  Cardinality(Places(Without(s, i), t)) = Cardinality(Places(s, t)) - Is(s[i], t)
<1> DEFINE n == Len(s)
           r == Without(s, i)
           U == Places(s, t)
           W == U \ {i}
           V == Places(r, t)
           h == [j \in V |-> IF j < i THEN j ELSE j + 1]
<1>1. n \in Nat /\ i \in 1 .. n /\ DOMAIN s = 1 .. n
  OBVIOUS
<1>2. /\ DOMAIN r = 1 .. n - 1
      /\ \A j \in 1 .. n - 1 : r[j] = IF j < i THEN s[j] ELSE s[j + 1]
  <2>1. r \in Seq(Text) /\ Len(r) = n - 1
    BY WithoutShape
  <2>2. DOMAIN r = 1 .. Len(r)
    BY <2>1
  <2> QED
    BY <2>1, <2>2, WithoutShape
<1> HIDE DEF r, n
<1>3. ASSUME NEW j \in V PROVE (IF j < i THEN j ELSE j + 1) \in W
  <2>1. j \in 1 .. n - 1 /\ Trim[r[j]] = t
    BY <1>2 DEF Places
  <2>2. CASE j < i
    BY <1>1, <1>2, <2>1, <2>2 DEF Places
  <2>3. CASE ~(j < i)
    <3>1. j + 1 \in 1 .. n /\ j + 1 # i
      BY <1>1, <2>1, <2>3
    <3> QED
      BY <1>1, <1>2, <2>1, <2>3, <3>1 DEF Places
  <2> QED
    BY <2>2, <2>3
<1>4. ASSUME NEW k \in W PROVE \E j \in V : (IF j < i THEN j ELSE j + 1) = k
  <2>1. k \in 1 .. n /\ k # i /\ Trim[s[k]] = t
    BY <1>1 DEF Places
  <2>2. CASE k < i
    <3>1. k \in 1 .. n - 1
      BY <1>1, <2>1, <2>2
    <3>2. k \in V
      BY <1>2, <2>1, <2>2, <3>1 DEF Places
    <3> QED
      BY <2>2, <3>2
  <2>3. CASE ~(k < i)
    <3>1. k - 1 \in 1 .. n - 1 /\ ~(k - 1 < i) /\ (k - 1) + 1 = k
      BY <1>1, <2>1, <2>3
    <3>2. k - 1 \in V
      BY <1>2, <2>1, <3>1 DEF Places
    <3> QED
      BY <3>1, <3>2
  <2> QED
    BY <2>2, <2>3
<1>5. \A j \in V : j \in Nat
  BY <1>1, <1>2 DEF Places
<1>6. h \in [V -> W] /\ DOMAIN h = V
  BY <1>3
<1>7. \A j, k \in V : h[j] = h[k] => j = k
  <2> SUFFICES ASSUME NEW j \in V, NEW k \in V,
                      (IF j < i THEN j ELSE j + 1) = (IF k < i THEN k ELSE k + 1)
               PROVE  j = k
    OBVIOUS
  <2>1. j \in Nat /\ k \in Nat /\ i \in Nat
    BY <1>1, <1>5
  <2> HIDE DEF V, h
  <2> QED
    BY <2>1
<1>8. \A k \in W : \E j \in V : h[j] = k
  BY <1>4
<1>9. i \in U <=> Trim[s[i]] = t
  BY DEF Places
<1>10. IsFiniteSet(U)
  BY PlacesFinite DEF Places
<1> HIDE DEF U, V, h
<1>11. /\ IsFiniteSet(W)
       /\ Cardinality(W) = Cardinality(U) - Is(s[i], t)
  BY <1>9, <1>10, FS_RemoveElement, FS_CardinalityType DEF Is
<1> HIDE DEF W
<1>12. h \in Bijection(V, W)
  BY <1>6, <1>7, <1>8 DEF Bijection, Injection, IsInjective, Surjection
<1>13. ExistsBijection(V, W)
  BY <1>12 DEF ExistsBijection
<1>14. IsFiniteSet(V)
  <2>1. r \in Seq(Text) /\ V \in SUBSET DOMAIN r
    BY WithoutShape DEF V, r, Places
  <2> QED
    BY <2>1, PlacesFinite
<1>15. Cardinality(V) = Cardinality(W)
  BY <1>13, <1>14, FS_Bijection
<1> QED
  BY <1>11, <1>15 DEF U, V, r

(* The inputs of a "save" and what they leave of the list.                 *)
LEMMA OverwriteShape ==
    ASSUME NEW T, NEW s \in Seq(T), NEW inputs \in Seq(T)
    PROVE  /\ Overwrite(s, inputs) \in Seq(T)
           /\ Len(inputs) = Len(s) => Overwrite(s, inputs) = inputs
<1> DEFINE n == IF Len(s) <= Len(inputs) THEN Len(inputs) ELSE Len(s)
           v(i) == IF i <= Len(inputs) THEN inputs[i] ELSE s[i]
<1>1. Len(s) \in Nat /\ Len(inputs) \in Nat /\ n \in Nat
  OBVIOUS
<1>2. Max({Len(s), Len(inputs)}) = n
  BY <1>1, MaxOfTwo
<1>3. Overwrite(s, inputs) = [i \in 1 .. n |-> v(i)]
  BY <1>2 DEF Overwrite
<1>4. ASSUME NEW i \in 1 .. n PROVE v(i) \in T
  <2>1. CASE i <= Len(inputs)
    BY <1>1, <2>1, ElementOfSeq
  <2>2. CASE ~(i <= Len(inputs))
    <3>1. i \in 1 .. Len(s)
      BY <1>1, <2>2
    <3>2. s[i] \in T
      BY <3>1, ElementOfSeq
    <3> QED
      BY <2>2, <3>2
  <2> QED
    BY <2>1, <2>2
<1>5. ASSUME Len(inputs) = Len(s) PROVE Overwrite(s, inputs) = inputs
  <2>1. n = Len(inputs) /\ \A i \in 1 .. n : v(i) = inputs[i]
    BY <1>1, <1>5
  <2>2. inputs = [i \in 1 .. Len(inputs) |-> inputs[i]]
    OBVIOUS
  <2> HIDE DEF n, v
  <2> QED
    BY <1>3, <2>1, <2>2
<1> HIDE DEF n, v
<1>6. [i \in 1 .. n |-> v(i)] \in [1 .. n -> T]
  BY <1>4
<1>7. [i \in 1 .. n |-> v(i)] \in Seq(T)
  BY <1>1, <1>6, SeqDef
<1> QED
  BY <1>3, <1>5, <1>7

(* What a form of page p can be.                                           *)
LEMMA FormCases ==
    ASSUME NEW b \in Browser, page[b] \in Seq(Text), NEW f \in Forms(b)
    PROVE  /\ f \in Form
           /\ f.act \in {"del", "save", "add", "clean"} /\ f.text \in Text
           /\ f.act \in {"del", "save"} => f.id \in DOMAIN page[b]
           /\ f.act = "del" => f.text = Blank
<1>1. DOMAIN page[b] \in SUBSET Nat
  OBVIOUS
<1>2. Blank \in Text
  BY TextAssumption
<1>3. CASE f \in [act : {"del"}, id : DOMAIN page[b], text : {Blank}]
  BY <1>1, <1>2, <1>3 DEF Form
<1>4. CASE f \in [act : {"save"}, id : DOMAIN page[b], text : Text]
  BY <1>1, <1>4 DEF Form
<1>5. CASE f \in [act : {"add"}, id : {0}, text : Text]
  BY <1>5 DEF Form
<1>6. CASE f = [act |-> "clean", id |-> 0, text |-> Blank]
  BY <1>2, <1>6 DEF Form
<1> QED
  BY <1>3, <1>4, <1>5, <1>6 DEF Forms

(* An edit of a list is a list.                                            *)
LEMMA EditedType ==
    ASSUME NEW b \in Browser, page[b] \in Seq(Text), post[b] \in Forms(b),
           NEW s \in Seq(Text)
    PROVE  Edited(b, s) \in Seq(Text)
<1>1. /\ post[b].act \in {"del", "save", "add", "clean"} /\ post[b].text \in Text
      /\ post[b].act \in {"del", "save"} => post[b].id \in DOMAIN page[b]
  BY FormCases
<1>2. CASE post[b].act = "del"
  <2>1. Without(s, post[b].id) \in Seq(Text)
    <3>1. CASE post[b].id \in DOMAIN s
      BY <3>1, WithoutShape
    <3>2. CASE post[b].id \notin DOMAIN s
      BY <3>2 DEF Without
    <3> QED
      BY <3>1, <3>2
  <2> QED
    BY <1>2, <2>1 DEF Edited
<1>3. CASE post[b].act = "save"
  <2>1. Inputs(b) \in Seq(Text)
    BY <1>1, <1>3, ExceptSeq DEF Inputs
  <2>2. Overwrite(s, Inputs(b)) \in Seq(Text)
    BY <2>1, OverwriteShape
  <2> QED
    BY <1>3, <2>2 DEF Edited
<1>4. CASE post[b].act = "add"
  BY <1>1, <1>4 DEF Edited
<1>5. CASE post[b].act = "clean"
  BY <1>5 DEF Edited
<1> QED
  BY <1>1, <1>2, <1>3, <1>4, <1>5

(* A line written into a file, and behind its last one.                    *)
LEMMA PutShape ==
    ASSUME NEW T, NEW f \in Seq(T), Hole \in T, NEW i \in Nat \ {0}, NEW t \in T
    PROVE  Put(f, i, t) \in Seq(T)
<1> DEFINE n == IF Len(f) <= i THEN i ELSE Len(f)
           v(j) == CASE j = i -> t [] j # i /\ j <= Len(f) -> f[j] [] OTHER -> Hole
<1>1. Len(f) \in Nat /\ n \in Nat
  OBVIOUS
<1>2. Max({Len(f), i}) = n
  BY <1>1, MaxOfTwo
<1>3. ASSUME NEW j \in 1 .. n PROVE v(j) \in T
  <2>1. CASE j # i /\ j <= Len(f)
    <3>1. f[j] \in T
      BY <1>1, <2>1, ElementOfSeq
    <3> QED
      BY <2>1, <3>1
  <2> QED
    BY <2>1
<1>4. Put(f, i, t) = [j \in 1 .. n |-> v(j)]
  BY <1>2 DEF Put
<1> HIDE DEF n, v
<1>5. [j \in 1 .. n |-> v(j)] \in [1 .. n -> T]
  BY <1>3
<1> QED
  BY <1>1, <1>4, <1>5, SeqDef
(* ... of what save_config has written so far: one line more of its list.  *)
LEMMA PutAtEnd ==
    ASSUME NEW T, NEW s \in Seq(T), NEW k \in Nat, k < Len(s)
    PROVE  Put(SubSeq(s, 1, k), k + 1, s[k + 1]) = SubSeq(s, 1, k + 1)
<1> DEFINE f == SubSeq(s, 1, k)
           n == k + 1
           g == SubSeq(s, 1, n)
<1>1. n \in Nat /\ k < n /\ n <= Len(s) /\ Len(s) \in Nat
  OBVIOUS
<1>2. ASSUME NEW m \in Nat, m <= Len(s)
      PROVE  SubSeq(s, 1, m) = [j \in 1 .. m |-> s[j]] /\ Len(SubSeq(s, 1, m)) = m
  BY <1>1, <1>2
<1>3. f = [j \in 1 .. k |-> s[j]] /\ Len(f) = k
  BY <1>1, <1>2
<1>4. g = [j \in 1 .. n |-> s[j]]
  BY <1>1, <1>2
<1> HIDE DEF f, g
<1>5. Max({Len(f), n}) = n
  BY <1>1, <1>3, MaxOfTwo
<1> DEFINE v(j) == CASE j = n -> s[n] [] j # n /\ j <= Len(f) -> f[j] [] OTHER -> Hole
<1>6. Put(f, n, s[n]) = [j \in 1 .. n |-> v(j)]
  BY <1>5 DEF Put
<1>7. ASSUME NEW j \in 1 .. n PROVE v(j) = s[j]
  <2>1. CASE j = n
    BY <2>1
  <2>2. CASE j # n
    <3>1. j \in 1 .. k /\ j <= Len(f)
      BY <1>3, <2>2
    <3> QED
      BY <1>3, <2>2, <3>1
  <2> QED
    BY <2>1, <2>2
<1> HIDE DEF v
<1>8. Put(f, n, s[n]) = g
  BY <1>4, <1>6, <1>7
<1> QED
  BY <1>8 DEF f, g

(* A file that is there or not is read as lines.                           *)
LEMMA LinesType ==
    ASSUME TypeOK
    PROVE  Lines \in Seq(Text \cup {Hole})
  BY DEF TypeOK, Lines

(* What is read of it is a list of texts.                                  *)
LEMMA ReadAnyFile ==
    ASSUME NEW f \in Seq(Text \cup {Hole})
    PROVE  ReadLines(f) \in Seq(Text) /\ ReadLines(f) \in Seq(ProperText)
<1>1. ReadLines(f) \in Seq(ProperText) /\ ProperText \subseteq Text
  BY ReadLinesType DEF ProperText
<1> QED
  BY <1>1, SeqMonotonic

(* At first the invariant holds.                                           *)
LEMMA InvInit == Init => IInv
<1> SUFFICES ASSUME Init PROVE IInv
  OBVIOUS
<1>1. Lines \in Seq(Text) /\ <<>> \in Seq(Text)
  BY InitFilesAssumption DEF Init, Lines
<1>2. ReadLines(Lines) \in Seq(Text)
  BY <1>1, ReadAnyFile
<1>3. file \in Seq(Text \cup {Hole}) \cup {NoFile}
  BY InitFilesAssumption, SeqMonotonic DEF Init
<1>4. NoPost \in Form
  BY TextAssumption DEF NoPost, Form
<1>5. posts \in 0 .. MaxPosts
  BY PostsAssumption DEF Init
<1>6. TypeOK
  BY <1>1, <1>2, <1>3, <1>4, <1>5 DEF Init, TypeOK, Lists
<1> QED
  BY <1>6 DEF Init, IInv, FormOfThePage, ListIsTheEdit, WritesFromTheStart,
              FileIsWhatWasWritten, Saving

(* A page that is loaded while no request runs.                            *)
LEMMA LoadPageInv ==
    ASSUME IInv, NEW b \in Browser, LoadPage(b)
    PROVE  IInv'
<1>1. ReadLines(Lines) \in Seq(Text)
  BY LinesType, ReadAnyFile DEF IInv
<1>2. page' \in [Browser -> Lists] /\ \A d \in Browser : d # b => page'[d] = page[d]
  BY <1>1 DEF IInv, TypeOK, LoadPage, Lists
<1>3. pc[b] = "idle" /\ UNCHANGED <<file, post, pc, list, pos, before, alone, posts>>
  BY DEF LoadPage
<1>4. TypeOK'
  BY <1>2, <1>3 DEF IInv, TypeOK
<1>5. FormOfThePage'
  <2> SUFFICES ASSUME NEW d \in Browser, pc[d] # "idle"
               PROVE  post[d] \in Forms(d)'
    BY <1>3 DEF FormOfThePage
  <2>1. post[d] \in Forms(d) /\ page'[d] = page[d]
    BY <1>2, <1>3 DEF IInv, FormOfThePage
  <2> QED
    BY <2>1 DEF Forms
<1>6. ListIsTheEdit'
  <2> SUFFICES ASSUME NEW d \in Browser, pc[d] \in {"edited", "save"}
               PROVE  before[d] \in Seq(ProperText) /\ list[d] = Edited(d, before[d])'
    BY <1>3 DEF ListIsTheEdit
  <2>1. before[d] \in Seq(ProperText) /\ list[d] = Edited(d, before[d]) /\ page'[d] = page[d]
    BY <1>2, <1>3 DEF IInv, ListIsTheEdit
  <2> QED
    BY <1>3, <2>1 DEF Edited, Inputs
<1>7. WritesFromTheStart' /\ FileIsWhatWasWritten'
  BY <1>3 DEF IInv, WritesFromTheStart, FileIsWhatWasWritten, Saving
<1> QED
  BY <1>4, <1>5, <1>6, <1>7 DEF IInv

(* A form is submitted.                                                    *)
LEMMA SubmitInv ==
    ASSUME IInv, NEW b \in Browser, Submit(b)
    PROVE  IInv'
<1>1. PICK f \in Forms(b) : post' = [post EXCEPT ![b] = f]
  BY DEF Submit
<1>2. /\ pc[b] = "idle" /\ posts < MaxPosts /\ pc' = [pc EXCEPT ![b] = "posted"]
      /\ posts' = posts + 1
      /\ UNCHANGED <<file, page, list, pos, before, alone>>
  BY DEF Submit
<1>3. page[b] \in Seq(Text)
  BY DEF IInv, TypeOK, Lists
<1>4. f \in Form
  BY <1>3, FormCases
<1>5. posts' \in 0 .. MaxPosts
  BY <1>2, PostsAssumption DEF IInv, TypeOK
<1>6. post' \in [Browser -> Form] /\ pc' \in [Browser -> {"idle", "posted", "edited", "save"}]
  BY <1>1, <1>2, <1>4 DEF IInv, TypeOK
<1>7. TypeOK'
  BY <1>2, <1>5, <1>6 DEF IInv, TypeOK
<1>8. /\ pc'[b] = "posted" /\ post'[b] = f
      /\ \A d \in Browser : d # b => pc'[d] = pc[d] /\ post'[d] = post[d]
  BY <1>1, <1>2 DEF IInv, TypeOK
<1>9. \A d \in Browser : Forms(d)' = Forms(d)
  BY <1>2 DEF Forms
<1>10. FormOfThePage'
  BY <1>8, <1>9 DEF IInv, FormOfThePage
<1>11. ListIsTheEdit'
  <2> SUFFICES ASSUME NEW d \in Browser, pc'[d] \in {"edited", "save"}
               PROVE  before[d] \in Seq(ProperText) /\ list[d] = Edited(d, before[d])'
    BY <1>2 DEF ListIsTheEdit
  <2>1. d # b
    BY <1>8
  <2>2. before[d] \in Seq(ProperText) /\ list[d] = Edited(d, before[d]) /\ post'[d] = post[d]
    BY <1>8, <2>1 DEF IInv, ListIsTheEdit
  <2> QED
    BY <1>2, <2>2 DEF Edited, Inputs
<1>12. WritesFromTheStart' /\ FileIsWhatWasWritten'
  BY <1>2, <1>8 DEF IInv, WritesFromTheStart, FileIsWhatWasWritten, Saving
<1> QED
  BY <1>7, <1>10, <1>11, <1>12 DEF IInv

(* The request reads the list and edits its copy.                          *)
LEMMA ReadAndEditInv ==
    ASSUME IInv, NEW b \in Browser, ReadAndEdit(b)
    PROVE  IInv'
<1> DEFINE r == ReadLines(Lines)
           e == Edited(b, r)
<1>1. /\ pc[b] = "posted" /\ pc' = [pc EXCEPT ![b] = "edited"]
      /\ list' = [list EXCEPT ![b] = e] /\ before' = [before EXCEPT ![b] = r]
      /\ alone' = [alone EXCEPT ![b] = \A d \in Browser : ~Saving(d)]
      /\ UNCHANGED <<file, page, post, pos, posts>>
  BY DEF ReadAndEdit
<1>2. r \in Seq(Text) /\ r \in Seq(ProperText)
  BY LinesType, ReadAnyFile DEF IInv
<1>3. page[b] \in Seq(Text) /\ post[b] \in Forms(b) /\ pos[b] = 0
  BY <1>1 DEF IInv, TypeOK, Lists, FormOfThePage, WritesFromTheStart
<1>4. e \in Seq(Text)
  BY <1>2, <1>3, EditedType
<1>5. Edited(b, r)' = e /\ \A d \in Browser : Edited(d, before[d])' = Edited(d, before'[d])
  BY <1>1 DEF Edited, Inputs, ReadLines, Lines, Kept
<1> HIDE DEF r, e
<1>6. /\ pc'[b] = "edited" /\ list'[b] = e /\ before'[b] = r
      /\ \A d \in Browser : d # b => /\ pc'[d] = pc[d] /\ list'[d] = list[d]
                                     /\ before'[d] = before[d] /\ alone'[d] = alone[d]
  BY <1>1 DEF IInv, TypeOK
<1>7. TypeOK'
  <2>1. /\ pc' \in [Browser -> {"idle", "posted", "edited", "save"}]
        /\ list' \in [Browser -> Lists] /\ before' \in [Browser -> Lists]
    BY <1>1, <1>2, <1>4 DEF IInv, TypeOK, Lists
  <2>2. alone' \in [Browser -> BOOLEAN]
    BY <1>1 DEF IInv, TypeOK
  <2>3. \A d \in Browser : pos'[d] <= Len(list'[d])
    <3> SUFFICES ASSUME NEW d \in Browser PROVE pos[d] <= Len(list'[d])
      BY <1>1
    <3>1. CASE d = b
      BY <1>3, <1>4, <1>6, <3>1
    <3>2. CASE d # b
      BY <1>6, <3>2 DEF IInv, TypeOK
    <3> QED
      BY <3>1, <3>2
  <2> QED
    BY <1>1, <2>1, <2>2, <2>3 DEF IInv, TypeOK
<1>8. FormOfThePage'
  <2>1. \A d \in Browser : Forms(d)' = Forms(d)
    BY <1>1 DEF Forms
  <2>2. \A d \in Browser : pc'[d] # "idle" => pc[d] # "idle"
    BY <1>1, <1>6
  <2> QED
    BY <1>1, <2>1, <2>2 DEF IInv, FormOfThePage
<1>9. ListIsTheEdit'
  <2> SUFFICES ASSUME NEW d \in Browser, pc'[d] \in {"edited", "save"}
               PROVE  before'[d] \in Seq(ProperText) /\ list'[d] = Edited(d, before[d])'
    BY DEF ListIsTheEdit
  <2>1. CASE d = b
    <3>1. Edited(b, before[b])' = e
      BY <1>1, <1>5, <1>6 DEF e, Edited, Inputs
    <3> QED
      BY <1>2, <1>6, <2>1, <3>1
  <2>2. CASE d # b
    <3>1. before[d] \in Seq(ProperText) /\ list[d] = Edited(d, before[d])
      BY <1>6, <2>2 DEF IInv, ListIsTheEdit
    <3>2. Edited(d, before[d])' = Edited(d, before[d])
      BY <1>1, <1>6, <2>2 DEF Edited, Inputs
    <3> QED
      BY <1>6, <2>2, <3>1, <3>2
  <2> QED
    BY <2>1, <2>2
<1>10. WritesFromTheStart'
  BY <1>1, <1>3, <1>6 DEF IInv, WritesFromTheStart
<1>11. FileIsWhatWasWritten'
  BY <1>1, <1>6 DEF IInv, FileIsWhatWasWritten, Saving
<1> QED
  BY <1>7, <1>8, <1>9, <1>10, <1>11 DEF IInv

(* A step that leaves pages, forms and copies alone.                       *)
LEMMA EditsStand ==
    ASSUME IInv, UNCHANGED <<page, post, list, before>>,
           \A d \in Browser : pc'[d] = pc[d] \/ (pc[d] = "edited" /\ pc'[d] = "save")
    PROVE  FormOfThePage' /\ ListIsTheEdit'
<1>1. \A d \in Browser : Forms(d)' = Forms(d) /\ Edited(d, before[d])' = Edited(d, before[d])
  BY DEF Forms, Edited, Inputs
<1>2. FormOfThePage'
  BY <1>1 DEF IInv, FormOfThePage
<1>3. ListIsTheEdit'
  <2> SUFFICES ASSUME NEW d \in Browser, pc'[d] \in {"edited", "save"}
               PROVE  before'[d] \in Seq(ProperText) /\ list'[d] = Edited(d, before[d])'
    BY DEF ListIsTheEdit
  <2>1. pc[d] \in {"edited", "save"}
    OBVIOUS
  <2> QED
    BY <1>1, <2>1 DEF IInv, ListIsTheEdit
<1> QED
  BY <1>2, <1>3

(* save_config opens the file ...                                          *)
LEMMA OpenConfigInv ==
    ASSUME IInv, NEW b \in Browser, OpenConfig(b)
    PROVE  IInv'
<1>1. /\ pc[b] = "edited" /\ pc' = [pc EXCEPT ![b] = "save"] /\ file' = <<>>
      /\ alone' = [d \in Browser |-> alone[d] /\ d = b]
      /\ UNCHANGED <<page, post, list, pos, before, posts>>
  BY DEF OpenConfig, NobodyElseAlone
<1>2. pc'[b] = "save" /\ \A d \in Browser : d # b => pc'[d] = pc[d] /\ ~alone'[d]
  BY <1>1 DEF IInv, TypeOK
<1>3. pos[b] = 0 /\ list[b] \in Seq(Text)
  BY <1>1 DEF IInv, TypeOK, WritesFromTheStart, Lists
<1>4. TypeOK'
  <2>1. <<>> \in Seq(Text \cup {Hole})
    OBVIOUS
  <2>2. alone' \in [Browser -> BOOLEAN]
    BY <1>1
  <2>3. pc' \in [Browser -> {"idle", "posted", "edited", "save"}]
    BY <1>1 DEF IInv, TypeOK
  <2> QED
    BY <1>1, <2>1, <2>2, <2>3 DEF IInv, TypeOK
<1>5. FormOfThePage' /\ ListIsTheEdit'
  BY <1>1, <1>2, EditsStand
<1>6. WritesFromTheStart'
  BY <1>1, <1>2 DEF IInv, WritesFromTheStart
<1>7. FileIsWhatWasWritten'
  <2>1. SubSeq(list[b], 1, 0) = <<>>
    BY <1>3
  <2> QED
    BY <1>1, <1>2, <1>3, <2>1 DEF FileIsWhatWasWritten
<1> QED
  BY <1>4, <1>5, <1>6, <1>7 DEF IInv

(* While a request is alone, the file holds texts.                         *)
LEMMA LinesWhileAlone ==
    ASSUME IInv, NEW b \in Browser, Saving(b), alone[b]
    PROVE  /\ list[b] \in Seq(Text) /\ pos[b] \in Nat /\ pos[b] <= Len(list[b])
           /\ Lines = SubSeq(list[b], 1, pos[b]) /\ Lines \in Seq(Text) /\ file = Lines
<1>1. /\ list[b] \in Seq(Text) /\ pos[b] \in Nat /\ pos[b] <= Len(list[b])
      /\ file = SubSeq(list[b], 1, pos[b])
  BY DEF IInv, TypeOK, Lists, FileIsWhatWasWritten
<1>2. SubSeq(list[b], 1, pos[b]) \in Seq(Text)
  BY <1>1
<1>3. Lines = file
  BY <1>1, <1>2, InitFilesAssumption DEF Lines
<1> QED
  BY <1>1, <1>2, <1>3

(* ... writes its lines ...                                                *)
LEMMA WriteSerialInv ==
    ASSUME IInv, NEW b \in Browser, WriteSerial(b)
    PROVE  IInv'
<1> DEFINE k == pos[b]
           t == list[b][k + 1]
           n == k + 1
<1>1. /\ Saving(b) /\ k < Len(list[b])
      /\ file' = Put(Lines, n, t)
      /\ pos' = [pos EXCEPT ![b] = n]
      /\ alone' = [d \in Browser |-> alone[d] /\ d = b]
      /\ UNCHANGED <<page, post, pc, list, before, posts>>
  BY DEF WriteSerial, NobodyElseAlone
<1>2. k \in Nat /\ list[b] \in Seq(Text) /\ n \in Nat \ {0} /\ n <= Len(list[b])
  BY <1>1 DEF IInv, TypeOK, Lists
<1>3. t \in Text
  <2>1. n \in 1 .. Len(list[b])
    BY <1>2
  <2> HIDE DEF n
  <2> QED
    BY <1>2, <2>1, ElementOfSeq DEF n
<1> HIDE DEF n, t, k
<1>4. file' \in Seq(Text \cup {Hole})
  <2>1. Lines \in Seq(Text \cup {Hole})
    BY LinesType DEF IInv
  <2> QED
    BY <1>1, <1>2, <1>3, <2>1, PutShape
<1>5. pos'[b] = n /\ \A d \in Browser : d # b => pos'[d] = pos[d] /\ ~alone'[d]
  BY <1>1 DEF IInv, TypeOK
<1>6. TypeOK'
  <2>1. alone' \in [Browser -> BOOLEAN] /\ pos' \in [Browser -> Nat]
    BY <1>1, <1>2 DEF IInv, TypeOK
  <2>2. \A d \in Browser : pos'[d] <= Len(list[d])
    BY <1>2, <1>5 DEF IInv, TypeOK
  <2> QED
    BY <1>1, <1>4, <2>1, <2>2 DEF IInv, TypeOK
<1>7. FormOfThePage' /\ ListIsTheEdit'
  BY <1>1, EditsStand
<1>8. WritesFromTheStart'
  BY <1>1, <1>5 DEF IInv, WritesFromTheStart, Saving
<1>9. FileIsWhatWasWritten'
  <2> SUFFICES ASSUME alone'[b] PROVE file' = SubSeq(list[b], 1, n)
    BY <1>1, <1>5 DEF FileIsWhatWasWritten
  <2>1. alone[b]
    BY <1>1
  <2>2. Lines = SubSeq(list[b], 1, k)
    BY <1>1, <2>1, LinesWhileAlone DEF k
  <2>3. Put(SubSeq(list[b], 1, k), k + 1, list[b][k + 1]) = SubSeq(list[b], 1, k + 1)
    BY <1>1, <1>2, PutAtEnd
  <2> QED
    BY <1>1, <2>2, <2>3 DEF n, t
<1> QED
  BY <1>6, <1>7, <1>8, <1>9 DEF IInv

(* ... and serves the page, which ends the request.                        *)
LEMMA ServePageInv ==
    ASSUME IInv, NEW b \in Browser, ServePage(b)
    PROVE  IInv'
<1>1. /\ page' = [page EXCEPT ![b] = TrimAll(list[b])]
      /\ post' = [post EXCEPT ![b] = NoPost] /\ pc' = [pc EXCEPT ![b] = "idle"]
      /\ list' = [list EXCEPT ![b] = <<>>] /\ pos' = [pos EXCEPT ![b] = 0]
      /\ before' = [before EXCEPT ![b] = <<>>]
      /\ alone' = [alone EXCEPT ![b] = TRUE]
      /\ UNCHANGED <<file, posts>>
  BY DEF ServePage
<1>2. TrimAll(list[b]) \in Seq(Text)
  <2>1. list[b] \in Seq(Text)
    BY DEF IInv, TypeOK, Lists
  <2> QED
    BY <2>1, TrimAssumption DEF TrimAll
<1>3. NoPost \in Form /\ <<>> \in Seq(Text) /\ Len(<<>>) = 0
  BY TextAssumption DEF NoPost, Form
<1>4. /\ page'[b] = TrimAll(list[b]) /\ pc'[b] = "idle" /\ list'[b] = <<>> /\ pos'[b] = 0
      /\ \A d \in Browser : d # b =>
            /\ page'[d] = page[d] /\ post'[d] = post[d] /\ pc'[d] = pc[d]
            /\ list'[d] = list[d] /\ pos'[d] = pos[d]
            /\ before'[d] = before[d] /\ alone'[d] = alone[d]
  BY <1>1 DEF IInv, TypeOK
<1>5. TypeOK'
  <2>1. /\ page' \in [Browser -> Lists] /\ list' \in [Browser -> Lists]
        /\ before' \in [Browser -> Lists] /\ post' \in [Browser -> Form]
    BY <1>1, <1>2, <1>3 DEF IInv, TypeOK, Lists
  <2>2. /\ pc' \in [Browser -> {"idle", "posted", "edited", "save"}]
        /\ pos' \in [Browser -> Nat] /\ alone' \in [Browser -> BOOLEAN]
    BY <1>1 DEF IInv, TypeOK
  <2>3. ASSUME NEW d \in Browser PROVE pos'[d] <= Len(list'[d])
    <3>1. CASE d = b
      BY <1>3, <1>4, <3>1
    <3>2. CASE d # b
      BY <1>4, <3>2 DEF IInv, TypeOK
    <3> QED
      BY <3>1, <3>2
  <2> QED
    BY <1>1, <2>1, <2>2, <2>3 DEF IInv, TypeOK
<1>6. FormOfThePage'
  <2> SUFFICES ASSUME NEW d \in Browser, pc'[d] # "idle" PROVE post'[d] \in Forms(d)'
    BY DEF FormOfThePage
  <2>1. d # b /\ post[d] \in Forms(d)
    BY <1>4 DEF IInv, FormOfThePage
  <2> QED
    BY <1>4, <2>1 DEF Forms
<1>7. ListIsTheEdit'
  <2> SUFFICES ASSUME NEW d \in Browser, pc'[d] \in {"edited", "save"}
               PROVE  before'[d] \in Seq(ProperText) /\ list'[d] = Edited(d, before[d])'
    BY DEF ListIsTheEdit
  <2>1. d # b /\ pc[d] \in {"edited", "save"}
    BY <1>4
  <2>2. before[d] \in Seq(ProperText) /\ list[d] = Edited(d, before[d])
    BY <2>1 DEF IInv, ListIsTheEdit
  <2> QED
    BY <1>4, <2>1, <2>2 DEF Edited, Inputs
<1>8. WritesFromTheStart' /\ FileIsWhatWasWritten'
  BY <1>1, <1>4 DEF IInv, WritesFromTheStart, FileIsWhatWasWritten, Saving
<1> QED
  BY <1>5, <1>6, <1>7, <1>8 DEF IInv

(* No step violates the invariant.                                         *)
LEMMA InvStep == IInv /\ [Next]_vars => IInv'
<1> SUFFICES ASSUME IInv, [Next]_vars PROVE IInv'
  OBVIOUS
<1>1. CASE UNCHANGED vars
  <2>1. FormOfThePage' /\ ListIsTheEdit'
    BY <1>1, EditsStand DEF vars, reqVars
  <2>2. TypeOK' /\ WritesFromTheStart' /\ FileIsWhatWasWritten'
    BY <1>1 DEF IInv, TypeOK, WritesFromTheStart, FileIsWhatWasWritten, Saving, vars, reqVars
  <2> QED
    BY <2>1, <2>2 DEF IInv
<1>2. ASSUME NEW b \in Browser,
             \/ LoadPage(b) \/ Submit(b) \/ ReadAndEdit(b)
             \/ OpenConfig(b) \/ WriteSerial(b) \/ ServePage(b)
      PROVE  IInv'
  BY <1>2, LoadPageInv, SubmitInv, ReadAndEditInv, OpenConfigInv, WriteSerialInv, ServePageInv
<1> QED
  BY <1>1, <1>2 DEF Next

(* So it holds for ever.                                                   *)
LEMMA InvCorrect == Spec => []IInv
  BY InvInit, InvStep, PTL DEF Spec

(* Types.                                                                  *)
THEOREM TypeCorrect == Spec => []TypeOK
<1>1. IInv => TypeOK
  BY DEF IInv
<1> QED
  BY <1>1, InvCorrect, PTL

(* Without a hole, the server reads the lines as they are, if there are.   *)
LEMMA ServerReadsTexts ==
    ASSUME Lines \in Seq(Text), file = Lines
    PROVE  Approvable = IF Lines = <<>> THEN Text ELSE Shown(Lines)
<1>1. \A i \in DOMAIN Lines : Lines[i] # Hole /\ (i > 1 => Lines[i - 1] # Hole)
  <2> TAKE i \in DOMAIN Lines
  <2>1. DOMAIN Lines = 1 .. Len(Lines) /\ Len(Lines) \in Nat /\ i \in 1 .. Len(Lines)
    OBVIOUS
  <2>2. \A j \in 1 .. Len(Lines) : Lines[j] \in Text
    BY ElementOfSeq
  <2>3. i > 1 => i - 1 \in 1 .. Len(Lines)
    BY <2>1
  <2> QED
    BY <2>1, <2>2, <2>3, TextAssumption
<1>2. {j \in DOMAIN Lines : Lines[j] # Hole} = DOMAIN Lines
  BY <1>1
<1> QED
  BY <1>1, <1>2 DEF Approvable, Shown

(* While nobody overlaps and a line is written, the server approves        *)
(* nothing but the new list.                                               *)
THEOREM OnlyTheNewListCorrect == Spec => []OnlyTheNewList
<1>1. IInv => OnlyTheNewList
  <2> SUFFICES ASSUME IInv, NEW b \in Browser, Saving(b), alone[b], pos[b] > 0
               PROVE  Approvable \subseteq Shown(list[b])
    BY DEF OnlyTheNewList
  <2>1. /\ list[b] \in Seq(Text) /\ pos[b] \in Nat /\ pos[b] <= Len(list[b])
        /\ Lines = SubSeq(list[b], 1, pos[b]) /\ Lines \in Seq(Text) /\ file = Lines
    BY LinesWhileAlone
  <2>2. Lines # <<>>
    <3>1. Len(Lines) = pos[b]
      BY <2>1
    <3> QED
      BY <3>1
  <2>3. Approvable = Shown(Lines)
    BY <2>1, <2>2, ServerReadsTexts
  <2>4. \A i \in DOMAIN Lines : i \in DOMAIN list[b] /\ Lines[i] = list[b][i]
    BY <2>1
  <2> QED
    BY <2>3, <2>4 DEF Shown
<1> QED
  BY <1>1, InvCorrect, PTL

(* When the page is served, the file of a request that was alone is its    *)
(* list.                                                                   *)
LEMMA WholeListWritten ==
    ASSUME IInv, NEW b \in Browser, Saving(b), alone[b], pos[b] = Len(list[b])
    PROVE  Lines = list[b] /\ list[b] \in Seq(Text) /\ file = Lines
<1>1. list[b] \in Seq(Text) /\ Lines = SubSeq(list[b], 1, pos[b]) /\ file = Lines
  BY LinesWhileAlone
<1>2. SubSeq(list[b], 1, Len(list[b])) = list[b]
  BY <1>1, SubSeqFull
<1> QED
  BY <1>1, <1>2

(* A request ends with its page and in no other way.                       *)
LEMMA EndsWithThePage ==
    ASSUME IInv, [Next]_vars, NEW b \in Browser, Saving(b), pc'[b] = "idle"
    PROVE  ServePage(b)
<1>1. pc'[b] # pc[b]
  BY DEF Saving
<1>2. PICK d \in Browser : \/ LoadPage(d) \/ Submit(d) \/ ReadAndEdit(d)
                           \/ OpenConfig(d) \/ WriteSerial(d) \/ ServePage(d)
  BY <1>1 DEF Next, vars, reqVars
<1>3. \A e \in {"posted", "edited", "save"} : pc' = [pc EXCEPT ![d] = e] => pc'[b] # "idle"
  BY DEF IInv, TypeOK, Saving
<1>4. ~LoadPage(d) /\ ~Submit(d) /\ ~ReadAndEdit(d) /\ ~OpenConfig(d) /\ ~WriteSerial(d)
  BY <1>1, <1>3 DEF LoadPage, Submit, ReadAndEdit, OpenConfig, WriteSerial
<1>5. ServePage(d)
  BY <1>2, <1>4
<1>6. d = b
  BY <1>1, <1>5 DEF ServePage, IInv, TypeOK
<1> QED
  BY <1>5, <1>6

(* The edit of a list that was read, counted.                              *)
LEMMA EditCount ==
    ASSUME NEW b \in Browser, page[b] \in Seq(ProperText), post[b] \in Forms(b),
           NEW t \in Text \ {Blank}
    PROVE  Cardinality(Places(Edited(b, page[b]), t))
              = Copies(page[b], t) + Asked(b, page[b], t)
<1> DEFINE p == page[b]
           f == post[b]
           c == Cardinality(Places(p, t))
<1>1. p \in Seq(Text)
  BY SeqMonotonic DEF ProperText
<1>2. /\ f.act \in {"del", "save", "add", "clean"} /\ f.text \in Text
      /\ f.act \in {"del", "save"} => f.id \in DOMAIN p
  BY <1>1, FormCases
<1>3. Copies(p, t) = c /\ c \in Nat
  <2>1. IsFiniteSet(Places(p, t))
    BY <1>1, PlacesFinite DEF Places
  <2> QED
    BY <2>1, CopiesProper, FS_CardinalityType
<1>4. CASE f.act = "del"
  <2>1. Edited(b, p) = Without(p, f.id) /\ Asked(b, p, t) = 0 - Is(p[f.id], t)
    BY <1>4 DEF Edited, Asked, Is
  <2>2. Cardinality(Places(Without(p, f.id), t)) = c - Is(p[f.id], t)
    BY <1>1, <1>2, <1>4, WithoutCount
  <2>3. Is(p[f.id], t) \in Nat
    BY DEF Is
  <2> HIDE DEF c
  <2> QED
    BY <1>3, <2>1, <2>2, <2>3
<1>5. CASE f.act = "save"
  <2>1. Edited(b, p) = Overwrite(p, Inputs(b))
        /\ Asked(b, p, t) = Is(f.text, t) - Is(p[f.id], t)
    BY <1>5 DEF Edited, Asked, Is
  <2>2. Inputs(b) = [p EXCEPT ![f.id] = f.text]
    BY DEF Inputs
  <2>3. Inputs(b) \in Seq(Text) /\ Len(Inputs(b)) = Len(p)
    BY <1>1, <1>2, <1>5, <2>2, ExceptSeq
  <2>4. Overwrite(p, Inputs(b)) = Inputs(b)
    BY <1>1, <2>3, OverwriteShape
  <2>5. Cardinality(Places([p EXCEPT ![f.id] = f.text], t))
           = c - Is(p[f.id], t) + Is(f.text, t)
    BY <1>1, <1>2, <1>5, ExceptCount
  <2>6. Is(p[f.id], t) \in Nat /\ Is(f.text, t) \in Nat
    BY DEF Is
  <2> HIDE DEF c
  <2> QED
    BY <1>3, <2>1, <2>2, <2>4, <2>5, <2>6
<1>6. CASE f.act = "add" /\ f.text # Blank
  <2>1. Edited(b, p) = Append(p, f.text) /\ Asked(b, p, t) = Is(f.text, t)
    BY <1>6 DEF Edited, Asked, Is
  <2>2. Cardinality(Places(Append(p, f.text), t)) = c + Is(f.text, t)
    BY <1>1, <1>2, AppendCount
  <2> HIDE DEF c
  <2> QED
    BY <1>3, <2>1, <2>2
<1>7. CASE f.act = "clean" \/ (f.act = "add" /\ f.text = Blank)
  <2>1. Edited(b, p) = p
    BY <1>7 DEF Edited
  <2>2. Asked(b, p, t) = 0
    BY <1>7, TrimAssumption DEF Asked
  <2> HIDE DEF c
  <2> QED
    BY <1>3, <2>1, <2>2 DEF c
<1> QED
  BY <1>2, <1>4, <1>5, <1>6, <1>7

(* A request does what its user asked for.                                 *)
THEOREM EditsAsMeantCorrect == Spec => EditsAsMeant
<1>1. ASSUME IInv, [Next]_vars, NEW b \in Browser, NEW t \in Text \ {Blank},
             Saving(b), pc'[b] = "idle", alone[b], page[b] = before[b]
      PROVE  Copies(ReadLines(Lines), t) = Copies(before[b], t) + Asked(b, page[b], t)
  <2>1. pos[b] = Len(list[b])
    BY <1>1, EndsWithThePage DEF ServePage
  <2>2. Lines = list[b] /\ list[b] \in Seq(Text)
    BY <1>1, <2>1, WholeListWritten
  <2>3. before[b] \in Seq(ProperText) /\ list[b] = Edited(b, before[b]) /\ post[b] \in Forms(b)
    BY <1>1 DEF IInv, ListIsTheEdit, FormOfThePage, Saving
  <2>4. Copies(ReadLines(Lines), t) = Cardinality(Places(list[b], t))
    BY <1>1, <2>2, ReadLinesCount
  <2>5. Cardinality(Places(Edited(b, page[b]), t)) = Copies(page[b], t) + Asked(b, page[b], t)
    BY <1>1, <2>3, EditCount
  <2> QED
    BY <1>1, <2>3, <2>4, <2>5
<1>2. ASSUME IInv, [Next]_vars
      PROVE  [\A b \in Browser :
                Saving(b) /\ pc'[b] = "idle" /\ alone[b] /\ page[b] = before[b] =>
                  \A t \in Text \ {Blank} :
                    Copies(ReadLines(Lines), t)
                       = Copies(before[b], t) + Asked(b, page[b], t)]_vars
  BY <1>1, <1>2
<1> QED
  BY <1>2, InvCorrect, PTL DEF Spec, EditsAsMeant

(* The edit of proper texts by a proper form is proper.                    *)
LEMMA EditedProper ==
    ASSUME NEW b \in Browser, page[b] \in Seq(Text), post[b] \in Forms(b), ProperForm(b),
           NEW s \in Seq(ProperText)
    PROVE  Edited(b, s) \in Seq(ProperText)
<1>1. /\ post[b].act \in {"del", "save", "add", "clean"} /\ post[b].text \in Text
      /\ post[b].act \in {"del", "save"} => post[b].id \in DOMAIN page[b]
  BY FormCases
<1>2. CASE post[b].act = "del"
  <2>1. Without(s, post[b].id) \in Seq(ProperText)
    <3>1. CASE post[b].id \in DOMAIN s
      BY <3>1, WithoutShape
    <3>2. CASE post[b].id \notin DOMAIN s
      BY <3>2 DEF Without
    <3> QED
      BY <3>1, <3>2
  <2> QED
    BY <1>2, <2>1 DEF Edited
<1>3. CASE post[b].act = "save"
  <2>1. page[b] \in Seq(ProperText) /\ post[b].text \in ProperText
    <3>1. \A i \in DOMAIN page[b] : page[b][i] \in ProperText
      BY <1>3 DEF ProperForm, ProperText
    <3>2. page[b] \in [1 .. Len(page[b]) -> ProperText] /\ Len(page[b]) \in Nat
      BY <3>1
    <3> QED
      BY <1>1, <1>3, <3>2, SeqDef DEF ProperForm, ProperText
  <2>2. Inputs(b) \in Seq(ProperText)
    BY <1>1, <1>3, <2>1, ExceptSeq DEF Inputs
  <2>3. Overwrite(s, Inputs(b)) \in Seq(ProperText)
    BY <2>2, OverwriteShape
  <2> QED
    BY <1>3, <2>3 DEF Edited
<1>4. CASE post[b].act = "add"
  <2>1. post[b].text \in ProperText
    BY <1>1, <1>4 DEF ProperForm, ProperText
  <2> QED
    BY <1>4, <2>1 DEF Edited
<1>5. CASE post[b].act = "clean"
  BY <1>5 DEF Edited
<1> QED
  BY <1>1, <1>2, <1>3, <1>4, <1>5

(* After such an edit the server approves what the new page shows, or      *)
(* anything if that is nothing.                                            *)
THEOREM ServerSeesThePageCorrect == Spec => ServerSeesThePage
<1>1. ASSUME IInv, [Next]_vars, NEW b \in Browser,
             Saving(b), pc'[b] = "idle", alone[b], ProperForm(b)
      PROVE  Approvable = IF page'[b] = <<>> THEN Text ELSE Shown(page'[b])
  <2>1. ServePage(b)
    BY <1>1, EndsWithThePage
  <2>2. pos[b] = Len(list[b]) /\ page' = [page EXCEPT ![b] = TrimAll(list[b])]
    BY <2>1 DEF ServePage
  <2>3. Lines = list[b] /\ list[b] \in Seq(Text) /\ file = Lines
    BY <1>1, <2>2, WholeListWritten
  <2>4. before[b] \in Seq(ProperText) /\ list[b] = Edited(b, before[b])
        /\ post[b] \in Forms(b) /\ page[b] \in Seq(Text)
    BY <1>1 DEF IInv, ListIsTheEdit, FormOfThePage, Saving, TypeOK, Lists
  <2>5. list[b] \in Seq(ProperText)
    BY <1>1, <2>4, EditedProper
  <2>6. \A i \in DOMAIN list[b] : Trim[list[b][i]] = list[b][i]
    BY <2>5 DEF ProperText, Proper
  <2>7. page'[b] = TrimAll(list[b])
    BY <1>1, <2>2 DEF IInv, TypeOK
  <2>8. page'[b] = list[b]
    <3> DEFINE s == list[b]
    <3>1. s = [i \in DOMAIN s |-> s[i]]
      BY <2>3
    <3>2. page'[b] = [i \in DOMAIN s |-> s[i]]
      BY <2>6, <2>7 DEF TrimAll
    <3> QED
      BY <3>1, <3>2
  <2> QED
    BY <2>3, <2>8, ServerReadsTexts
<1>2. ASSUME IInv, [Next]_vars
      PROVE  [\A b \in Browser :
                Saving(b) /\ pc'[b] = "idle" /\ alone[b] /\ ProperForm(b)
                  => Approvable = IF page'[b] = <<>> THEN Text ELSE Shown(page'[b])]_vars
  BY <1>1, <1>2
<1> QED
  BY <1>2, InvCorrect, PTL DEF Spec, ServerSeesThePage
=============================================================================
