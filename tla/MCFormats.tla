------------------------------ MODULE MCFormats ------------------------------
(***************************************************************************)
(* Instances of Formats for TLC: the lines of up to four symbols of which  *)
(* the first two are any and the others are "x", "=" or a blank, and lines *)
(* that fgets, which returns four symbols, reads in two pieces.            *)
(***************************************************************************)
EXTENDS Formats

(* A letter, a digit and the zero byte.                                    *)
Chars == {{0, 6}, {1, 4, 5}, {}}

NameLens == <<2, 1, 3>>

Short == {line \in BoundedSeq(Symbol \ {"$"}, 4) :
             \A i \in DOMAIN line : i > 2 => line[i] \in {"x", "=", " "}}

(* A comment, an assignment and another command, each with a tail that by  *)
(* itself is an assignment, or not; an assignment with a comment behind it *)
(* and one with a quote.                                                   *)
Lines == Short
    \cup {begin \o tail : begin \in {<<"#", "x", "x", "x">>, <<LogFile, "=", "x", "x">>,
                                    <<"x", "x", "=", "x">>},
                          tail \in {<<"x">>, <<SerialFile, "=", "x">>}}
    \cup {<<SerialFile, "=", "x", " ", "#", "x">>, <<SerialFile, "=", "$">>}
=============================================================================
