--------------------------- MODULE SelectionProofs ---------------------------
(***************************************************************************)
(* What Selection picks: an increasing enumeration of the positions, the   *)
(* only one there is.  With it least and greatest elements of sets of      *)
(* naturals, and how to count positions.                                   *)
(***************************************************************************)
EXTENDS Selection, Sequences, FiniteSetsExt, FiniteSetTheorems, TLAPS

(* A set of naturals has a least element.                                  *)
LEMMA LeastNat ==
    ASSUME NEW S \in SUBSET Nat, S # {}
    PROVE  \E x \in S : \A y \in S : x <= y
<1> DEFINE R == OpToRel(<, Nat)
<1>1. IsWellFoundedOn(R, Nat)
  BY NatLessThanWellFounded
<1>2. \A x, y \in Nat : <<x, y>> \in R <=> x < y
  BY DEF OpToRel
<1> HIDE DEF R
<1>3. PICK x \in S : \A y \in S : ~(<<y, x>> \in R)
  BY <1>1, WFMin
<1>4. ASSUME NEW y \in S PROVE x <= y
  <2>1. x \in Nat /\ y \in Nat /\ ~(y < x)
    BY <1>2, <1>3
  <2> QED
    BY <2>1
<1> QED
  BY <1>4

(* Min is that element.                                                    *)
LEMMA MinOf ==
    ASSUME NEW S \in SUBSET Nat, S # {}
    PROVE  Min(S) \in S /\ \A y \in S : Min(S) <= y
  BY LeastNat DEF Min

(* Max of a bounded set of naturals is its greatest element.               *)
LEMMA MaxOf ==
    ASSUME NEW n \in Nat, NEW S \in SUBSET (0 .. n), S # {}
    PROVE  Max(S) \in S /\ \A y \in S : Max(S) >= y
<1> DEFINE T == {n - x : x \in S}
<1>1. T \in SUBSET Nat /\ T # {}
  <2>1. \A x \in S : n - x \in Nat
    OBVIOUS
  <2>2. PICK x \in S : TRUE
    OBVIOUS
  <2>3. n - x \in T
    BY <2>2
  <2> QED
    BY <2>1, <2>3
<1>2. PICK t \in T : \A y \in T : t <= y
  BY <1>1, LeastNat
<1>3. PICK x \in S : t = n - x
  BY <1>2
<1>4. \A y \in S : x >= y
  BY <1>2, <1>3
<1> QED
  BY <1>3, <1>4 DEF Max

(* Max of two naturals.                                                    *)
LEMMA MaxOfTwo ==
    ASSUME NEW a \in Nat, NEW b \in Nat
    PROVE  Max({a, b}) = IF a <= b THEN b ELSE a
<1> DEFINE S == {a, b}
           n == a + b
<1>1. n \in Nat /\ S \in SUBSET (0 .. n) /\ S # {}
  OBVIOUS
<1> HIDE DEF n
<1>2. Max(S) \in S /\ \A y \in S : Max(S) >= y
  BY <1>1, MaxOf
<1> QED
  BY <1>2

(* A place of S is one of the first Cardinality(S).                        *)
LEMMA RankType ==
    ASSUME NEW S \in SUBSET Nat, IsFiniteSet(S), NEW i \in S
    PROVE  Cardinality(S) \in Nat /\ Rank(S, i) \in 1 .. Cardinality(S)
<1> DEFINE U == {j \in S : j <= i}
<1>1. U \in SUBSET S
  OBVIOUS
<1>2. IsFiniteSet(U) /\ Cardinality(U) <= Cardinality(S)
  BY <1>1, FS_Subset
<1>3. i \in U
  OBVIOUS
<1> HIDE DEF U
<1>4. Cardinality(U) \in Nat /\ Cardinality(S) \in Nat
  BY <1>2, FS_CardinalityType
<1>5. Cardinality(U) # 0
  BY <1>2, <1>3, FS_EmptySet
<1>6. Rank(S, i) = Cardinality(U)
  BY DEF Rank, U
<1> QED
  BY <1>2, <1>4, <1>5, <1>6

(* Ranks grow.                                                             *)
LEMMA RankGrows ==
    ASSUME NEW S \in SUBSET Nat, IsFiniteSet(S), NEW i \in S, NEW j \in S, i < j
    PROVE  Rank(S, i) < Rank(S, j)
<1> DEFINE U == {k \in S : k <= i}
           V == {k \in S : k <= j}
<1>1. V \in SUBSET S /\ U \in SUBSET V /\ j \in V /\ j \notin U
  <2>1. i \in Nat /\ j \in Nat /\ ~(j <= i) /\ j <= j
    OBVIOUS
  <2>2. \A k \in S : k \in Nat /\ (k <= i => k <= j)
    BY <2>1
  <2> QED
    BY <2>1, <2>2
<1> HIDE DEF U, V
<1>2. IsFiniteSet(V)
  BY <1>1, FS_Subset
<1>3. Cardinality(U) <= Cardinality(V) /\ Cardinality(U) # Cardinality(V)
  BY <1>1, <1>2, FS_Subset
<1>4. IsFiniteSet(U)
  BY <1>1, <1>2, FS_Subset
<1>5. Cardinality(U) \in Nat /\ Cardinality(V) \in Nat
  BY <1>2, <1>4, FS_CardinalityType
<1>6. Rank(S, i) = Cardinality(U) /\ Rank(S, j) = Cardinality(V)
  BY DEF Rank, U, V
<1> QED
  BY <1>3, <1>5, <1>6

(* So the rank tells the place.                                            *)
LEMMA RankInjective ==
    ASSUME NEW S \in SUBSET Nat, IsFiniteSet(S), NEW i \in S, NEW j \in S,
           Rank(S, i) = Rank(S, j)
    PROVE  i = j
<1>1. Rank(S, i) \in Nat /\ Rank(S, j) \in Nat
  BY RankType
<1>2. ~(i < j) /\ ~(j < i)
  BY <1>1, RankGrows
<1>3. i \in Nat /\ j \in Nat
  OBVIOUS
<1> QED
  BY <1>2, <1>3

(* Nth goes through S in its order.                                        *)
LEMMA NthOf ==
    ASSUME NEW S \in SUBSET Nat, IsFiniteSet(S)
    PROVE  /\ Cardinality(S) \in Nat
           /\ \A k \in 1 .. Cardinality(S) : Nth(S, k) \in S /\ Rank(S, Nth(S, k)) = k
           /\ \A i \in S : Nth(S, Rank(S, i)) = i
<1> DEFINE n == Cardinality(S)
           f == [i \in S |-> Rank(S, i)]
<1>1. n \in Nat
  BY FS_CardinalityType
<1>2. IsFiniteSet(1 .. n) /\ Cardinality(1 .. n) = n
  <2>1. IsFiniteSet(1 .. n) /\ Cardinality(1 .. n) = IF 1 > n THEN 0 ELSE n - 1 + 1
    <3> HIDE DEF n
    <3> QED
      BY <1>1, FS_Interval
  <2> HIDE DEF n
  <2> QED
    BY <1>1, <2>1
<1>3. \A i \in S : Rank(S, i) \in 1 .. n
  BY RankType
<1>4. f \in Injection(S, 1 .. n)
  <2>1. \A i, j \in S : f[i] = f[j] => i = j
    BY RankInjective
  <2>2. f \in [S -> 1 .. n] /\ DOMAIN f = S
    BY <1>3
  <2> HIDE DEF f
  <2> QED
    BY <2>1, <2>2 DEF Injection, IsInjective
<1> HIDE DEF f
<1>5. f \in Surjection(S, 1 .. n)
  BY <1>2, <1>4, FS_Injection
<1>6. \A k \in 1 .. n : \E i \in S : Rank(S, i) = k
  BY <1>5 DEF Surjection, f
<1>7. \A k \in 1 .. n : Nth(S, k) \in S /\ Rank(S, Nth(S, k)) = k
  BY <1>6 DEF Nth
<1>8. ASSUME NEW i \in S PROVE Nth(S, Rank(S, i)) = i
  <2>1. Nth(S, Rank(S, i)) \in S /\ Rank(S, Nth(S, Rank(S, i))) = Rank(S, i)
    BY <1>3, <1>7
  <2> DEFINE j == Nth(S, Rank(S, i))
  <2> HIDE DEF j
  <2>2. j \in S /\ Rank(S, j) = Rank(S, i)
    BY <2>1 DEF j
  <2>3. j = i
    BY <2>2, RankInjective
  <2> QED
    BY <2>3 DEF j
<1> QED
  BY <1>1, <1>7, <1>8

(* An increasing enumeration is Nth.                                       *)
LEMMA NthUnique ==
    ASSUME NEW S \in SUBSET Nat, NEW n \in Nat, NEW g \in [1 .. n -> S],
           \A i, j \in 1 .. n : i < j => g[i] < g[j],
           \A x \in S : \E i \in 1 .. n : g[i] = x
    PROVE  /\ IsFiniteSet(S) /\ Cardinality(S) = n
           /\ \A k \in 1 .. n : Nth(S, k) = g[k]
<1>1. \A i, j \in 1 .. n : g[i] = g[j] => i = j
  <2> SUFFICES ASSUME NEW i \in 1 .. n, NEW j \in 1 .. n, g[i] = g[j], i # j
               PROVE  FALSE
    OBVIOUS
  <2>1. g[i] \in Nat /\ g[j] \in Nat
    OBVIOUS
  <2>2. i < j \/ j < i
    OBVIOUS
  <2> QED
    BY <2>1, <2>2
<1>2. g \in Bijection(1 .. n, S)
  BY <1>1 DEF Bijection, Injection, IsInjective, Surjection
<1>3. ExistsBijection(1 .. n, S)
  BY <1>2 DEF ExistsBijection
<1>4. IsFiniteSet(S) /\ Cardinality(S) = n
  BY <1>3, FS_NatBijection, FS_CountingElements
<1>5. ASSUME NEW k \in 1 .. n PROVE Rank(S, g[k]) = k
  <2> DEFINE U == {x \in S : x <= g[k]}
             h == [i \in 1 .. k |-> g[i]]
  <2>1. \A i \in 1 .. k : i \in 1 .. n /\ g[i] \in U
    <3> TAKE i \in 1 .. k
    <3>1. i \in 1 .. n /\ (i = k \/ i < k)
      OBVIOUS
    <3>2. g[i] \in S /\ g[k] \in S /\ g[i] \in Nat /\ g[k] \in Nat
      BY <3>1
    <3> QED
      BY <3>1, <3>2
  <2>2. ASSUME NEW x \in U PROVE \E i \in 1 .. k : g[i] = x
    <3>1. PICK i \in 1 .. n : g[i] = x
      OBVIOUS
    <3>2. ~(k < i)
      <4>1. g[i] \in Nat /\ g[k] \in Nat /\ g[i] <= g[k]
        BY <3>1
      <4> QED
        BY <4>1
    <3> QED
      BY <3>1, <3>2
  <2>3. h \in Bijection(1 .. k, U)
    BY <1>1, <2>1, <2>2 DEF Bijection, Injection, IsInjective, Surjection
  <2>4. ExistsBijection(1 .. k, U)
    BY <2>3 DEF ExistsBijection
  <2>5. Cardinality(U) = k
    <3> HIDE DEF U
    <3> QED
      BY <2>4, FS_CountingElements
  <2> QED
    BY <2>5 DEF Rank
<1>6. ASSUME NEW k \in 1 .. n PROVE Nth(S, k) = g[k]
  <2>1. g[k] \in S /\ Rank(S, g[k]) = k
    BY <1>5
  <2> QED
    BY <1>4, <2>1, NthOf
<1> QED
  BY <1>4, <1>6

(* What is picked is as long as there are places.                          *)
LEMMA SelectedType ==
    ASSUME NEW T, NEW s, NEW S \in SUBSET Nat, IsFiniteSet(S), \A i \in S : s[i] \in T
    PROVE  /\ Selected(s, S) \in Seq(T)
           /\ Len(Selected(s, S)) = Cardinality(S)
           /\ DOMAIN Selected(s, S) = 1 .. Cardinality(S)
           /\ \A k \in 1 .. Cardinality(S) : Selected(s, S)[k] = s[Nth(S, k)]
<1> DEFINE n == Cardinality(S)
<1>1. n \in Nat /\ \A k \in 1 .. n : s[Nth(S, k)] \in T
  BY NthOf
<1>2. Selected(s, S) = [k \in 1 .. n |-> s[Nth(S, k)]]
  BY DEF Selected
<1> HIDE DEF n
<1>3. Selected(s, S) \in [1 .. n -> T]
  BY <1>1, <1>2
<1>4. Selected(s, S) \in Seq(T) /\ Len(Selected(s, S)) = n
  BY <1>1, <1>3
<1> QED
  BY <1>2, <1>4 DEF n

(* Whatever places one is looking for among S, as many are found among     *)
(* what is picked.                                                         *)
LEMMA SelectedCount ==
    ASSUME NEW S \in SUBSET Nat, IsFiniteSet(S), NEW U \in SUBSET S
    PROVE  Cardinality({k \in 1 .. Cardinality(S) : Nth(S, k) \in U}) = Cardinality(U)
<1> DEFINE n == Cardinality(S)
           V == {k \in 1 .. n : Nth(S, k) \in U}
           h == [i \in U |-> Rank(S, i)]
<1>1. \A i \in U : i \in S /\ Rank(S, i) \in 1 .. n /\ Nth(S, Rank(S, i)) = i
  BY RankType, NthOf
<1>2. \A k \in V : Nth(S, k) \in U /\ Rank(S, Nth(S, k)) = k
  BY NthOf
<1>3. h \in [U -> V] /\ DOMAIN h = U
  BY <1>1
<1>4. \A i, j \in U : h[i] = h[j] => i = j
  BY <1>1
<1>5. \A k \in V : \E i \in U : h[i] = k
  BY <1>2
<1> HIDE DEF h, V, n
<1>6. h \in Bijection(U, V)
  BY <1>3, <1>4, <1>5 DEF Bijection, Injection, IsInjective, Surjection
<1>7. ExistsBijection(U, V) /\ IsFiniteSet(U)
  BY <1>6, FS_Subset DEF ExistsBijection
<1>8. Cardinality(V) = Cardinality(U)
  BY <1>7, FS_Bijection
<1> QED
  BY <1>8 DEF V, n

(* Nth grows.                                                              *)
LEMMA NthGrows ==
    ASSUME NEW S \in SUBSET Nat, IsFiniteSet(S),
           NEW i \in 1 .. Cardinality(S), NEW j \in 1 .. Cardinality(S), i < j
    PROVE  Nth(S, i) < Nth(S, j)
<1> DEFINE a == Nth(S, i)
           b == Nth(S, j)
<1>1. a \in S /\ b \in S /\ Rank(S, a) = i /\ Rank(S, b) = j
  BY NthOf
<1>2. i \in Nat /\ j \in Nat
  BY NthOf
<1> HIDE DEF a, b
<1>3. a # b
  BY <1>1, <1>2
<1>4. ~(b < a)
  <2> SUFFICES ASSUME b < a PROVE FALSE
    OBVIOUS
  <2>1. Rank(S, b) < Rank(S, a)
    BY <1>1, RankGrows
  <2> QED
    BY <1>1, <1>2, <2>1
<1>5. a < b
  BY <1>1, <1>3, <1>4
<1> QED
  BY <1>5 DEF a, b

(* A place behind all of S becomes the last.                               *)
LEMMA NthAdd ==
    ASSUME NEW S \in SUBSET Nat, IsFiniteSet(S), NEW x \in Nat, \A i \in S : i < x
    PROVE  /\ IsFiniteSet(S \cup {x}) /\ Cardinality(S \cup {x}) = Cardinality(S) + 1
           /\ \A k \in 1 .. Cardinality(S) : Nth(S \cup {x}, k) = Nth(S, k)
           /\ Nth(S \cup {x}, Cardinality(S) + 1) = x
<1> DEFINE n == Cardinality(S)
           T == S \cup {x}
           g == [k \in 1 .. n + 1 |-> IF k <= n THEN Nth(S, k) ELSE x]
<1>1. n \in Nat /\ \A k \in 1 .. n : Nth(S, k) \in S
  BY NthOf
<1>2. T \in SUBSET Nat /\ n + 1 \in Nat
  BY <1>1
<1>3. \A i, j \in 1 .. n : i < j => Nth(S, i) < Nth(S, j)
  BY NthGrows
<1>4. \A y \in S : Rank(S, y) \in 1 .. n /\ Nth(S, Rank(S, y)) = y
  BY RankType, NthOf
<1> HIDE DEF n
<1>5. /\ g \in [1 .. n + 1 -> T] /\ g[n + 1] = x
      /\ \A k \in 1 .. n : g[k] = Nth(S, k)
  BY <1>1
<1> HIDE DEF g
<1>6. ASSUME NEW i \in 1 .. n + 1, NEW j \in 1 .. n + 1, i < j PROVE g[i] < g[j]
  <2>1. CASE j = n + 1
    <3>1. i \in 1 .. n
      BY <1>1, <1>6, <2>1
    <3> QED
      BY <1>1, <1>5, <2>1, <3>1
  <2>2. CASE j # n + 1
    <3>1. i \in 1 .. n /\ j \in 1 .. n
      BY <1>1, <1>6, <2>2
    <3> QED
      BY <1>3, <1>5, <1>6, <3>1
  <2> QED
    BY <2>1, <2>2
<1>7. ASSUME NEW y \in T PROVE \E i \in 1 .. n + 1 : g[i] = y
  <2>1. CASE y = x
    <3>1. n + 1 \in 1 .. n + 1
      BY <1>1
    <3> QED
      BY <1>5, <2>1, <3>1
  <2>2. CASE y # x
    <3>1. Rank(S, y) \in 1 .. n /\ Nth(S, Rank(S, y)) = y
      BY <1>4, <2>2
    <3>2. Rank(S, y) \in 1 .. n + 1
      BY <1>1, <3>1
    <3> QED
      BY <1>5, <3>1, <3>2
  <2> QED
    BY <2>1, <2>2
<1> HIDE DEF T
<1> DEFINE m == n + 1
<1>8. /\ m \in Nat /\ g \in [1 .. m -> T]
      /\ \A i, j \in 1 .. m : i < j => g[i] < g[j]
      /\ \A y \in T : \E i \in 1 .. m : g[i] = y
  BY <1>2, <1>5, <1>6, <1>7
<1> HIDE DEF m
<1>9. /\ IsFiniteSet(T) /\ Cardinality(T) = m
      /\ \A k \in 1 .. m : Nth(T, k) = g[k]
  BY <1>2, <1>8, NthUnique
<1>10. /\ \A k \in 1 .. n : k \in 1 .. m /\ Nth(T, k) = Nth(S, k)
       /\ m \in 1 .. m /\ Nth(T, m) = x
  BY <1>1, <1>5, <1>9 DEF m
<1> QED
  BY <1>9, <1>10 DEF T, n, m

(* T is S without its first place x, the others moved by d to the front.   *)
Moved(S, x, d, T) ==
    /\ \A i \in S \ {x} : x < i /\ i - d \in T
    /\ \A j \in T : j + d \in S \ {x}

(* Then what was second is first, and so on.                               *)
LEMMA NthRest ==
    ASSUME NEW S \in SUBSET Nat, IsFiniteSet(S), NEW x \in S, NEW d \in Nat,
           NEW T \in SUBSET Nat, Moved(S, x, d, T)
    PROVE  /\ Cardinality(S) \in Nat \ {0} /\ Nth(S, 1) = x
           /\ IsFiniteSet(T) /\ Cardinality(T) = Cardinality(S) - 1
           /\ \A k \in 1 .. Cardinality(S) - 1 : Nth(S, k + 1) = Nth(T, k) + d
<1> DEFINE n == Cardinality(S)
           m == n - 1
           g == [k \in 1 .. m |-> Nth(S, k + 1) - d]
<1>0. /\ \A i \in S \ {x} : x < i /\ i - d \in T
      /\ \A j \in T : j + d \in S \ {x}
  BY DEF Moved
<1>1. n \in Nat /\ \A k \in 1 .. n : Nth(S, k) \in S
  BY NthOf
<1>2. \A i, j \in 1 .. n : i < j => Nth(S, i) < Nth(S, j)
  BY NthGrows
<1>3. \A y \in S : Rank(S, y) \in 1 .. n /\ Nth(S, Rank(S, y)) = y
  BY RankType, NthOf
<1>4. \A i \in S \ {x} : i - d \in Nat /\ i - d + d = i
  BY <1>0
<1>5. \A j \in T : j + d - d = j
  OBVIOUS
<1> HIDE DEF n
<1>6. n # 0 /\ m \in Nat /\ n = m + 1
  <2>1. Rank(S, x) \in 1 .. n
    BY <1>3
  <2> QED
    BY <1>1, <2>1
<1>7. Nth(S, 1) = x
  <2>1. 1 \in 1 .. n
    BY <1>1, <1>6
  <2>2. Nth(S, 1) \in S /\ Rank(S, x) \in 1 .. n /\ Nth(S, Rank(S, x)) = x
    BY <1>1, <1>3, <2>1
  <2>3. CASE Rank(S, x) = 1
    BY <2>2, <2>3
  <2>4. CASE Rank(S, x) # 1
    <3>1. 1 < Rank(S, x)
      BY <1>1, <2>2, <2>4
    <3>2. Nth(S, 1) < x
      BY <1>2, <2>1, <2>2, <3>1
    <3>3. x \in Nat /\ Nth(S, 1) \in Nat
      BY <2>2
    <3>4. ~(x < Nth(S, 1)) /\ Nth(S, 1) # x
      BY <3>2, <3>3
    <3> QED
      BY <1>0, <2>2, <3>4
  <2> QED
    BY <2>3, <2>4
<1>8. ASSUME NEW k \in 1 .. m PROVE Nth(S, k + 1) \in S \ {x}
  <2>1. k + 1 \in 1 .. n /\ 1 \in 1 .. n /\ 1 < k + 1
    BY <1>1, <1>6
  <2>2. Nth(S, 1) < Nth(S, k + 1) /\ Nth(S, k + 1) \in S
    BY <1>1, <1>2, <2>1
  <2>3. x \in Nat /\ Nth(S, k + 1) \in Nat /\ x < Nth(S, k + 1)
    BY <1>7, <2>2
  <2> QED
    BY <2>2, <2>3
<1>9. g \in [1 .. m -> T] /\ \A k \in 1 .. m : g[k] = Nth(S, k + 1) - d
  BY <1>0, <1>8
<1> HIDE DEF g, m
<1>10. ASSUME NEW i \in 1 .. m, NEW j \in 1 .. m, i < j PROVE g[i] < g[j]
  <2>1. i + 1 \in 1 .. n /\ j + 1 \in 1 .. n /\ i + 1 < j + 1
    BY <1>6, <1>10
  <2>2. Nth(S, i + 1) < Nth(S, j + 1)
    BY <1>2, <2>1
  <2>3. Nth(S, i + 1) \in Nat /\ Nth(S, j + 1) \in Nat
    BY <1>1, <2>1
  <2> QED
    BY <1>9, <2>2, <2>3
<1>11. ASSUME NEW y \in T PROVE \E i \in 1 .. m : g[i] = y
  <2> DEFINE i == y + d
  <2>1. i \in S \ {x} /\ y = i - d
    BY <1>0, <1>5
  <2> HIDE DEF i
  <2>2. Rank(S, i) \in 1 .. n /\ Nth(S, Rank(S, i)) = i
    BY <1>3, <2>1
  <2>3. Rank(S, i) # 1
    BY <1>7, <2>1, <2>2
  <2> DEFINE k == Rank(S, i) - 1
  <2>4. k \in 1 .. m /\ k + 1 = Rank(S, i)
    BY <1>1, <1>6, <2>2, <2>3
  <2> HIDE DEF k
  <2>5. g[k] = i - d
    BY <1>9, <2>2, <2>4
  <2> QED
    BY <2>1, <2>4, <2>5
<1>12. /\ IsFiniteSet(T) /\ Cardinality(T) = m
       /\ \A k \in 1 .. m : Nth(T, k) = g[k]
  BY <1>6, <1>9, <1>10, <1>11, NthUnique
<1>13. ASSUME NEW k \in 1 .. m PROVE Nth(S, k + 1) = Nth(T, k) + d
  <2>1. Nth(S, k + 1) - d + d = Nth(S, k + 1)
    BY <1>4, <1>8
  <2> QED
    BY <1>9, <1>12, <2>1
<1> QED
  BY <1>1, <1>6, <1>7, <1>12, <1>13 DEF n, m
=============================================================================
