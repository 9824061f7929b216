------------------------------ MODULE Selection ------------------------------
(***************************************************************************)
(* The elements of a sequence at some of its positions, in their order: a  *)
(* loop that keeps what passes a test.                                     *)
(***************************************************************************)
EXTENDS Naturals, FiniteSets

(* How many of S are not behind i, and the k-th of S.                      *)
Rank(S, i) == Cardinality({j \in S : j <= i})
Nth(S, k) == CHOOSE i \in S : Rank(S, i) = k

Selected(s, S) == [k \in 1 .. Cardinality(S) |-> s[Nth(S, k)]]
=============================================================================
