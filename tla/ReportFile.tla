----------------------------- MODULE ReportFile ------------------------------
(***************************************************************************)
(* report.txt between the server, which writes a report by one write(2)    *)
(* per field and separator, and the web monitor's clean_file, which reads  *)
(* the first line, truncates the file and writes that line back.  Nothing  *)
(* locks the file.  A cell stands for one field or separator.              *)
(***************************************************************************)
EXTENDS Integers, Sequences, SequencesExt, FiniteSetsExt, Selection

CONSTANTS
    Row,        \* reports
    NumFields,  \* fields of a report
    Cleaner,    \* web requests that may clean, one at a time each
    MaxCleans,  \* cleans in a behaviour
    MaxKills,   \* kills of the server in a behaviour
    Overlap     \* whether a clean may overlap a save or another clean

ASSUME FieldsAssumption == NumFields \in Nat \ {0}
ASSUME BoundAssumption == MaxCleans \in Nat /\ MaxKills \in Nat

VARIABLES
    present, file,  \* whether report.txt exists, and its cells
    todo,           \* what save_packet has still to write
    append, off,    \* the descriptor: O_APPEND, or an offset
    saving,         \* the report being saved
    saved,          \* reports whose save_packet returned
    cpc, header,    \* clean_file: its place and its $header
    fresh,          \* saved reports that were begun after the last truncation
    cleans, kills,
    headless    \* history: a clean has found no line to keep

serverVars == <<todo, append, off, saving>>
cleanVars == <<cpc, header, cleans, headless>>
reportVars == <<present, file, serverVars, saved, cleanVars, fresh, kills>>

Header == "header"
NoRow == "none"
Tab == <<"tab", 0>>
Newline == <<"newline", 0>>
Hole == <<"hole", 0>>

ASSUME RowAssumption == Header \notin Row /\ NoRow \notin Row

(* Header or report x as save_packet writes it.                            *)
Line(x) ==
    [i \in 1 .. 2 * NumFields |->
        IF i % 2 = 1 THEN <<x, (i + 1) \div 2>>
        ELSE IF i = 2 * NumFields THEN Newline ELSE Tab]

Cell == {Tab, Newline, Hole} \cup ((Row \cup {Header}) \X (1 .. NumFields))

IsText(cell) == cell \notin {Tab, Newline, Hole}

(* The line whose first text is at position from, as read_file trims it:   *)
(* trim strips tabs and zero bytes too.                                    *)
LineFrom(f, from) ==
    LET ends == {i \in DOMAIN f : i > from /\ f[i] = Newline}
        line == from .. (IF ends = {} THEN Len(f) ELSE Min(ends))
    IN  SubSeq(f, from, Max({i \in line : IsText(f[i])}))

(* $all_lines[0] of read_file: the first line that trim does not empty.    *)
(* Null, hence empty, when there is no such line.                          *)
FirstLine(f) ==
    LET from == SelectInSeq(f, IsText)
    IN  IF from = 0 THEN <<>> ELSE LineFrom(f, from)

(* s written at offset o of f.                                             *)
WriteAt(f, o, s) ==
    [i \in 1 .. Max({Len(f), o + Len(s)}) |->
        IF i \in o + 1 .. o + Len(s) THEN s[i - o]
        ELSE IF i <= Len(f) THEN f[i] ELSE Hole]

(* Types; a descriptor is open as long as there is something to write.     *)
ReportTypeOK ==
    /\ present \in BOOLEAN /\ file \in Seq(Cell) /\ (~present => file = <<>>)
    /\ todo \in Seq(Cell) /\ append \in BOOLEAN /\ off \in Nat
    /\ saving \in Row \cup {NoRow} /\ (saving = NoRow <=> todo = <<>>)
    /\ saving # NoRow => present
    /\ saved \subseteq Row /\ fresh \subseteq Row \cap (saved \cup {saving})
    /\ cpc \in [Cleaner -> {"idle", "read", "truncated"}]
    /\ \A c \in Cleaner : cpc[c] = "truncated" => present
    /\ header \in [Cleaner -> Seq(Cell)]
    /\ cleans \in 0 .. MaxCleans /\ kills \in 0 .. MaxKills
    /\ headless \in BOOLEAN

ReportInit ==
    /\ present = FALSE /\ file = <<>>
    /\ todo = <<>> /\ append = FALSE /\ off = 0 /\ saving = NoRow
    /\ saved = {} /\ fresh = {}
    /\ cpc = [c \in Cleaner |-> "idle"] /\ header = [c \in Cleaner |-> <<>>]
    /\ cleans = 0 /\ kills = 0 /\ headless = FALSE

Cleaning == \E c \in Cleaner : cpc[c] # "idle"

-----------------------------------------------------------------------------
(* save_packet.                                                            *)

(* Mutant: an existing file is opened without O_APPEND.                    *)
OpenReportAtStart(r) ==
    /\ saving = NoRow /\ r \notin saved
    /\ Overlap \/ ~Cleaning
    /\ saving' = r
    /\ fresh' = fresh \cup {r}
    /\ present' = TRUE /\ append' = FALSE /\ off' = 0
    /\ todo' = IF present THEN Line(r) ELSE Line(Header) \o Line(r)
    /\ UNCHANGED <<file, saved, cleanVars, kills>>

(* open with O_APPEND, or else create the file, without O_APPEND.          *)
OpenReport(r) ==
    /\ saving = NoRow /\ r \notin saved
    /\ Overlap \/ ~Cleaning
    /\ saving' = r
    /\ fresh' = fresh \cup {r}
    /\ present' = TRUE /\ append' = present /\ off' = 0
    /\ todo' = IF present THEN Line(r) ELSE Line(Header) \o Line(r)
    /\ UNCHANGED <<file, saved, cleanVars, kills>>

(* Mutant: after the last write, the descriptor stays open.                *)
WriteNoClose ==
    /\ todo # <<>> /\ todo' = Tail(todo)
    /\ file' = WriteAt(file, IF append THEN Len(file) ELSE off, <<Head(todo)>>)
    /\ off' = off + 1
    /\ UNCHANGED <<saved, saving, present, append, cleanVars, fresh, kills>>

(* One write(2); after the last, close and return.                         *)
Write ==
    /\ todo # <<>> /\ todo' = Tail(todo)
    /\ file' = WriteAt(file, IF append THEN Len(file) ELSE off, <<Head(todo)>>)
    /\ off' = off + 1
    /\ IF Len(todo) = 1
       THEN saved' = saved \cup {saving} /\ saving' = NoRow
       ELSE UNCHANGED <<saved, saving>>
    /\ UNCHANGED <<present, append, cleanVars, fresh, kills>>

(* The server is killed and another one started; a report that was begun   *)
(* is sent and saved once more.                                            *)
KillServer ==
    /\ kills < MaxKills /\ kills' = kills + 1
    /\ saving # NoRow
    /\ todo' = <<>> /\ saving' = NoRow
    /\ fresh' = fresh \ {saving}
    /\ UNCHANGED <<present, file, append, off, saved, cleanVars>>

-----------------------------------------------------------------------------
(* clean_file.                                                             *)

CleanRead(c) ==
    /\ cpc[c] = "idle" /\ cpc' = [cpc EXCEPT ![c] = "read"]
    /\ cleans < MaxCleans /\ cleans' = cleans + 1
    /\ Overlap \/ (saving = NoRow /\ ~Cleaning)
    /\ header' = [header EXCEPT ![c] = FirstLine(file)]
    /\ headless' = (headless \/ FirstLine(file) = <<>>)
    /\ UNCHANGED <<present, file, serverVars, saved, fresh, kills>>

(* fopen(..., 'w').                                                        *)
CleanTruncate(c) ==
    /\ cpc[c] = "read" /\ cpc' = [cpc EXCEPT ![c] = "truncated"]
    /\ present' = TRUE /\ file' = <<>>
    /\ fresh' = {}
    /\ UNCHANGED <<serverVars, saved, header, cleans, headless, kills>>

(* Mutant: $header is written back without its newline.                    *)
CleanWriteNoNewline(c) ==
    /\ cpc[c] = "truncated" /\ cpc' = [cpc EXCEPT ![c] = "idle"]
    /\ file' = WriteAt(file, 0, header[c])
    /\ header' = [header EXCEPT ![c] = <<>>]
    /\ UNCHANGED <<present, serverVars, saved, cleans, headless, fresh, kills>>

(* fwrite at the start of the file, whatever it holds by now.              *)
CleanWrite(c) ==
    /\ cpc[c] = "truncated" /\ cpc' = [cpc EXCEPT ![c] = "idle"]
    /\ file' = WriteAt(file, 0, header[c] \o <<Newline>>)
    /\ header' = [header EXCEPT ![c] = <<>>]
    /\ UNCHANGED <<present, serverVars, saved, cleans, headless, fresh, kills>>

ReportNext ==
    \/ \E r \in Row : OpenReport(r)
    \/ Write \/ KillServer
    \/ \E c \in Cleaner : CleanRead(c) \/ CleanTruncate(c) \/ CleanWrite(c)

-----------------------------------------------------------------------------
(* Line x stands in f, all of it, from position i on.                      *)
LineAt(f, i, x) ==
    /\ i + 2 * NumFields - 1 <= Len(f)
    /\ \A k \in 1 .. 2 * NumFields : f[i + k - 1] = Line(x)[k]

Begins(f, i) == i = 1 \/ f[i - 1] = Newline

(* The complete lines of a file that are reports, in order.                *)
RowStarts(f) == {i \in DOMAIN f : Begins(f, i) /\ \E r \in Row : LineAt(f, i, r)}
RowAt(f, i) == CHOOSE r \in Row : LineAt(f, i, r)
RowsIn(f) == [k \in 1 .. Cardinality(RowStarts(f)) |-> RowAt(f, Nth(RowStarts(f), k))]

Rows == RowsIn(file)

(***************************************************************************)
(* Nobody overlaps and nobody is killed: at any moment, what is in         *)
(* report.txt and what save_packet has still to write are one first line   *)
(* and whole reports.  That line is the one of field names as long as      *)
(* every clean found a line to keep, although the names are written by one *)
(* process and preserved by another that only copies a line.               *)
(***************************************************************************)
FirstLineOK(f) ==
    \/ LineAt(f, 1, Header)
    \/ headless /\ (f[1] = Newline \/ \E r \in Row : LineAt(f, 1, r))

WholeReports(f) ==
    \A i \in DOMAIN f \ {1} : f[i - 1] = Newline => \E r \in Row : LineAt(f, i, r)

Framed ==
    LET whole == file \o todo
    IN  kills = 0 /\ whole # <<>> => FirstLineOK(whole) /\ WholeReports(whole)

(***************************************************************************)
(* Nobody overlaps: report.txt implements the log of ReportLog.  The last  *)
(* line is torn by a kill only, a clean keeps a report only when the line  *)
(* of field names was lost before, and nothing else breaks the promise     *)
(* that each report that is saved is a line of its own at the end.         *)
(***************************************************************************)
TornTail ==
    LET whole == file \o todo
        n == Len(whole) - (IF saving = NoRow THEN 0 ELSE 2 * NumFields)
    IN  n > 0 /\ whole[n] # Newline

L == INSTANCE ReportLog WITH rows <- Rows, torn <- TornTail

ReportLogSpec ==
    /\ L!Init
    /\ [][\/ L!Next
          \/ kills' > kills /\ L!Tear
          \/ (headless \/ kills > 0) /\ \E r \in Row : L!Keep(r)]_(L!vars)

(***************************************************************************)
(* Every report that was saved since the file was last truncated stands in *)
(* it in one piece, whatever was torn before it by a kill of the server.   *)
(***************************************************************************)
StandsIn(f, r) == \E i \in DOMAIN f : LineAt(f, i, r)

SavedStandsWhole == \A r \in saved \cap fresh : StandsIn(file, r)
=============================================================================
