----------------------------- MODULE MCClientHost -----------------------------
(* An instance of ClientHost for TLC: a disk with two partitions, one with *)
(* one and one with none; starts are interchangeable.                      *)
EXTENDS ClientHost, TLC

CONSTANTS i1, i2, i3

Partitions == <<2, 1, 0>>

StartsAlike == Permutations(Start)
=============================================================================
