----------------------------- MODULE ParseConfig -----------------------------
(***************************************************************************)
(* parse_config reads /etc/init.d/usbl_server, which is at the same time   *)
(* the shell script that starts the server: a second parser of the shell's *)
(* assignments, by fgets, strtok and strncmp.  A line is a sequence of     *)
(* symbols: the two names it looks for, "#", "=", a blank, "$" for any     *)
(* character that the shell does not take as it stands (a quote, say), and *)
(* "x" for any other.  To the shell every line is a command of its own.    *)
(***************************************************************************)
EXTENDS Integers, Sequences, SequencesExt

CONSTANTS
    Line,       \* lines the file may have
    MaxLines,   \* lines in the file
    LineLength  \* LINE_LENGTH, in symbols: fgets returns one less at a time

LogFile == "LOG_FILE"
SerialFile == "SERIAL_FILE"
Symbol == {LogFile, SerialFile, "x", "#", "=", " ", "$"}

ASSUME LineAssumption == Line \subseteq Seq(Symbol) /\ MaxLines \in Nat
ASSUME LineLengthAssumption == LineLength \in Nat /\ LineLength > 1

VARIABLES
    cstate,     \* "reading", then "ok" or "bad", or "crashed"
    rest,       \* what fgets has still to return of a line
    path,       \* path[LogFile], path[SerialFile]: log_file and serial_file
    red_params, \* assignments counted
    count,      \* lines begun
    shell,      \* history: what the shell assigns to the two variables
    odd         \* history: an assignment the two parsers take differently

configVars == <<cstate, rest, path, red_params, count, shell, odd>>

Param == {LogFile, SerialFile}

ConfigTypeOK ==
    /\ cstate \in {"reading", "ok", "bad", "crashed"}
    /\ path \in [Param -> Seq(Symbol)] /\ shell \in [Param -> Seq(Symbol)]
    /\ red_params \in Nat /\ count \in 0 .. MaxLines
    /\ rest \in Seq(Symbol) /\ odd \in BOOLEAN

ConfigInit ==
    /\ cstate = "reading" /\ red_params = 0 /\ count = 0 /\ odd = FALSE
    /\ path = [v \in Param |-> <<>>] /\ shell = [v \in Param |-> <<>>]
    /\ rest = <<>>

FirstEq(line) == SelectInSeq(line, LAMBDA c : c = "=")

Behind(line) == SubSeq(line, FirstEq(line) + 1, Len(line))

UpTo(s, c) == LET k == SelectInSeq(s, LAMBDA d : d = c)
              IN  IF k = 0 THEN s ELSE SubSeq(s, 1, k - 1)

(* Mutant: a "=" at the end of the line is let through.                    *)
EndUnchecked(line) ==
    /\ Len(line) > 2 /\ "=" \in Range(line)
    /\ Head(line) \notin {"#", "="}

(* The lines that reach strtok.                                            *)
IsAssignment(line) ==
    /\ Len(line) > 2 /\ "=" \in Range(line)
    /\ Head(line) \notin {"#", "="}
    /\ Last(line) # "="

(* The first and the second token; strtok skips several "=".               *)
Variable(line) == SubSeq(line, 1, FirstEq(line) - 1)
Value(line) ==
    LET from == SelectInSeq(Behind(line), LAMBDA c : c # "=")
    IN  IF from = 0 THEN <<>>
        ELSE UpTo(SubSeq(Behind(line), from, Len(Behind(line))), "=")

(* Mutant: the names are not compared.                                     *)
MatchesAny(v, line) == v \in Param

(* strncmp looks at as many characters as the parameter's name has.        *)
Matches(v, line) == Variable(line)[1] = v

(* strncpy without the zero byte: the end of a longer value stays.         *)
Strncpy(old, s) == s \o SubSeq(old, Len(s) + 1, Len(old))

(* What the shell makes of a line: blanks before the name do not matter,   *)
(* and a word behind the value, if it is not a comment, is a command, for  *)
(* which alone the variable then has the value.                            *)
ShellAssigns(v, line) ==
    /\ FirstEq(line) > 1 /\ line[FirstEq(line) - 1] = v
    /\ \A i \in 1 .. FirstEq(line) - 2 : line[i] = " "
    /\ \A i \in FirstEq(line) + 1 .. Len(line) - 1 :
          line[i] = " " /\ line[i + 1] # " " =>
              \E k \in FirstEq(line) + 1 .. i : line[k] = " " /\ line[k + 1] = "#"
ShellValue(line) == UpTo(Behind(line), " ")

(* An assignment that is indented, does not fit in buf, or has a value with*)
(* a blank, a "=" or a quote in it or behind it.                           *)
IsOdd(line) ==
    /\ \E v \in Param : ShellAssigns(v, line)
    /\ \/ line[1] = " "
       \/ Len(line) >= LineLength
       \/ Range(Behind(line)) \cap {" ", "=", "$"} # {}

(* What one call of fgets returns of s, and what it leaves.                *)
Piece(s) == IF Len(s) < LineLength THEN s ELSE SubSeq(s, 1, LineLength - 1)
Remainder(s) == SubSeq(s, Len(Piece(s)) + 1, Len(s))

Parse(piece) ==
    LET vs == IF IsAssignment(piece) THEN {v \in Param : Matches(v, piece)} ELSE {}
    IN  /\ path' = [v \in Param |->
                       IF v \in vs THEN Strncpy(path[v], Value(piece)) ELSE path[v]]
        /\ red_params' = red_params + (IF vs = {} THEN 0 ELSE 1)
        /\ cstate' = IF vs # {} /\ Value(piece) = <<>> THEN "crashed" ELSE "reading"

(* fgets reads the next line, or the beginning of it that fits in buf.     *)
ReadLine(line) ==
    /\ cstate = "reading" /\ rest = <<>>
    /\ count < MaxLines /\ count' = count + 1
    /\ Parse(Piece(line)) /\ rest' = Remainder(line)
    /\ shell' = [v \in Param |->
                    IF ShellAssigns(v, line) THEN ShellValue(line) ELSE shell[v]]
    /\ odd' = (odd \/ IsOdd(line))

(* fgets reads on in the same line, and what it returns is parsed as if it *)
(* were a line.                                                            *)
ReadRest ==
    /\ cstate = "reading" /\ rest # <<>>
    /\ Parse(Piece(rest)) /\ rest' = Remainder(rest)
    /\ UNCHANGED <<count, shell, odd>>

(* The end of the file: red_params is compared with CONFIG_NUM_PARAMS.     *)
ReadEnd ==
    /\ cstate = "reading" /\ rest = <<>>
    /\ cstate' = IF red_params = 2 THEN "ok" ELSE "bad"
    /\ UNCHANGED <<rest, path, red_params, count, shell, odd>>

ConfigNext == ReadEnd \/ ReadRest \/ \E line \in Line : ReadLine(line)

-----------------------------------------------------------------------------
(* The tests before strtok see to it that its second call, whose result    *)
(* goes to strlen unchecked, never returns NULL, whatever piece of a line  *)
(* it is about.                                                            *)
ValueExists == cstate # "crashed"

(***************************************************************************)
(* When parse_config succeeds on a file in which the shell finds both      *)
(* paths, it has taken the shell's, although it only counts assignments:   *)
(* what it counts besides, such as the tail of a long comment, the command *)
(* behind an assignment, a longer name or a parameter's first value, makes *)
(* it refuse the file and never take another path.  (Claimed as long as no *)
(* assignment is odd.)                                                     *)
(***************************************************************************)
ConfigIsTheShells ==
    cstate = "ok" /\ ~odd /\ (\A v \in Param : shell[v] # <<>>) => path = shell
=============================================================================
