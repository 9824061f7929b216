---------------------------- MODULE MCSerialList ----------------------------
(***************************************************************************)
(* An instance of SerialList for TLC: two serials, one of them also with a *)
(* blank behind it, and the empty text.                                    *)
(***************************************************************************)
EXTENDS SerialList, TLC

CONSTANTS w1, w2, x, y, xBlank

Trimmed == [t \in Text |-> IF t = xBlank THEN x ELSE t]

Files == {NoFile, <<x, y>>}

BrowsersAlike == Permutations(Browser)
=============================================================================
