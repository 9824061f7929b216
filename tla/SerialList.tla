----------------------------- MODULE SerialList -----------------------------
(***************************************************************************)
(* serial.txt under the web monitor: browsers hold a page with the list as *)
(* it was served, and a POST to index.php reads the file, edits its copy   *)
(* and writes the copy back, one fwrite per line.  Nothing locks the file, *)
(* so requests interleave at each of these steps.  The server looks a      *)
(* serial up in whatever the file holds at that moment.                    *)
(*                                                                         *)
(* A position in the file counts lines: two saves that overlap are taken   *)
(* to write lines of equal length.                                         *)
(***************************************************************************)
EXTENDS Naturals, Sequences, FiniteSetsExt, Selection

CONSTANTS
    Browser,    \* open pages of the web monitor
    Text,       \* what a line or an input may hold
    Blank,      \* the empty text
    Trim,       \* Trim[t]: t without blanks at its ends
    Hole,       \* bytes nobody wrote, before the line that follows
    NoFile,     \* "serial.txt does not exist"
    InitFiles,  \* what serial.txt may hold at first
    MaxPosts    \* requests in a behaviour

ASSUME TextAssumption == Blank \in Text /\ Hole \notin Text
ASSUME TrimAssumption ==
    /\ Trim \in [Text -> Text] /\ Trim[Blank] = Blank
    /\ \A t \in Text : Trim[Trim[t]] = Trim[t]
ASSUME InitFilesAssumption ==
    NoFile \notin Seq(Text) /\ InitFiles \subseteq Seq(Text) \cup {NoFile}
ASSUME PostsAssumption == MaxPosts \in Nat

VARIABLES
    file,       \* the lines of serial.txt
    page,       \* page[b]: the inputs serial_0, serial_1, ... as served
    post,       \* post[b]: the form that b submitted
    pc,         \* pc[b]: where b's request is in index.php
    list,       \* list[b]: $all_serials
    pos,        \* pos[b]: lines that its save_config has written
    before,     \* history: the list that b's request found
    alone,      \* history: nobody else wrote since then
    posts       \* how many requests there were

reqVars == <<page, post, pc, list, pos, before, alone>>
vars == <<file, reqVars, posts>>

NoPost == [act |-> "none", id |-> 0, text |-> Blank]

Form == [act : {"none", "del", "save", "add", "clean"}, id : Nat, text : Text]

Lists == Seq(Text)

TypeOK ==
    /\ file \in Seq(Text \cup {Hole}) \cup {NoFile}
    /\ page \in [Browser -> Lists] /\ list \in [Browser -> Lists]
    /\ before \in [Browser -> Lists]
    /\ post \in [Browser -> Form]
    /\ pc \in [Browser -> {"idle", "posted", "edited", "save"}]
    /\ pos \in [Browser -> Nat]
    /\ alone \in [Browser -> BOOLEAN]
    /\ posts \in 0 .. MaxPosts
    /\ \A b \in Browser : pos[b] <= Len(list[b])

Lines == IF file = NoFile THEN <<>> ELSE file

TrimAll(s) == [i \in DOMAIN s |-> Trim[s[i]]]

(* The lines that read_file keeps: trimmed, they are not empty.            *)
Kept(f) == {i \in DOMAIN f : f[i] # Hole /\ Trim[f[i]] # Blank}

(* Mutant: a line is taken as it is, white space included.                 *)
ReadUntrimmed(f) == Selected(f, Kept(f))

(***************************************************************************)
(* read_file: each line trimmed (of the bytes of a hole, too), the blank   *)
(* ones dropped.                                                           *)
(***************************************************************************)
ReadLines(f) == TrimAll(Selected(f, Kept(f)))

(***************************************************************************)
(* The serials that is_serial_allowed may find approved.  It compares      *)
(* whole lines, and one that begins with a hole ends at its first byte for *)
(* strcmp.  In a file without a line its result is never assigned and may  *)
(* be anything; without a file it approves nothing.                        *)
(***************************************************************************)
Approvable ==
    IF file = <<>> THEN Text
    ELSE {IF i > 1 /\ Lines[i - 1] = Hole THEN Blank ELSE Lines[i]
             : i \in {j \in DOMAIN Lines : Lines[j] # Hole}}

Init ==
    /\ file \in InitFiles
    /\ page = [b \in Browser |-> ReadLines(Lines)]
    /\ list = [b \in Browser |-> <<>>]
    /\ before = [b \in Browser |-> <<>>]
    /\ post = [b \in Browser |-> NoPost]
    /\ pc = [b \in Browser |-> "idle"]
    /\ pos = [b \in Browser |-> 0]
    /\ alone = [b \in Browser |-> TRUE]
    /\ posts = 0

(* A request without a form: the page shows the list as it is.             *)
LoadPage(b) ==
    /\ pc[b] = "idle"
    /\ page' = [page EXCEPT ![b] = ReadLines(Lines)]
    /\ UNCHANGED <<file, post, pc, list, pos, before, alone, posts>>

(***************************************************************************)
(* The buttons of the page.  "save" sends every input; one of them may     *)
(* have been changed to another text.                                      *)
(***************************************************************************)
Forms(b) ==
    [act : {"del"}, id : DOMAIN page[b], text : {Blank}]
      \cup [act : {"save"}, id : DOMAIN page[b], text : Text]
      \cup [act : {"add"}, id : {0}, text : Text]
      \cup {[act |-> "clean", id |-> 0, text |-> Blank]}

Submit(b) ==
    /\ pc[b] = "idle" /\ posts < MaxPosts
    /\ \E f \in Forms(b) : post' = [post EXCEPT ![b] = f]
    /\ pc' = [pc EXCEPT ![b] = "posted"]
    /\ posts' = posts + 1
    /\ UNCHANGED <<file, page, list, pos, before, alone>>

(* The inputs of a "save".                                                 *)
Inputs(b) == [page[b] EXCEPT ![post[b].id] = post[b].text]

(* Mutant: without array_values the last line is never written.            *)
WithoutLast(s, i) ==
    IF i \in DOMAIN s THEN SubSeq(s, 1, Len(s) - 1) ELSE s

(* unset and array_values, the index being the one of this request's list. *)
Without(s, i) ==
    IF i \in DOMAIN s THEN SubSeq(s, 1, i - 1) \o SubSeq(s, i + 1, Len(s)) ELSE s

(* The inputs replace what is at their index, or come to be added.         *)
Overwrite(s, inputs) ==
    [i \in 1 .. Max({Len(s), Len(inputs)}) |->
        IF i <= Len(inputs) THEN inputs[i] ELSE s[i]]

Edited(b, s) ==
    CASE post[b].act = "del" -> Without(s, post[b].id)
      [] post[b].act = "save" -> Overwrite(s, Inputs(b))
      [] post[b].act = "add" /\ post[b].text # Blank -> Append(s, post[b].text)
      [] OTHER -> s

Saving(b) == pc[b] = "save"

(* read_file, and what the form asks for, in the request's own copy.       *)
ReadAndEdit(b) ==
    /\ pc[b] = "posted"
    /\ list' = [list EXCEPT ![b] = Edited(b, ReadLines(Lines))]
    /\ before' = [before EXCEPT ![b] = ReadLines(Lines)]
    /\ alone' = [alone EXCEPT ![b] = \A d \in Browser : ~Saving(d)]
    /\ pc' = [pc EXCEPT ![b] = "edited"]
    /\ UNCHANGED <<file, page, post, pos, posts>>

(* Writing to the file is seen by all requests that have read it.          *)
NobodyElseAlone(b) == alone' = [d \in Browser |-> alone[d] /\ d = b]

(* Mutant: the list is written without truncating the file first.          *)
OpenKeepsFile(b) ==
    /\ pc[b] = "edited"
    /\ file' = Lines
    /\ pc' = [pc EXCEPT ![b] = "save"]
    /\ NobodyElseAlone(b)
    /\ UNCHANGED <<page, post, list, pos, before, posts>>

(* save_config: fopen with "w" ...                                         *)
OpenConfig(b) ==
    /\ pc[b] = "edited"
    /\ file' = <<>>
    /\ pc' = [pc EXCEPT ![b] = "save"]
    /\ NobodyElseAlone(b)
    /\ UNCHANGED <<page, post, list, pos, before, posts>>

(* ... one fwrite per line, at this request's own offset ...               *)
Put(f, i, t) ==
    [j \in 1 .. Max({Len(f), i}) |->
        CASE j = i -> t [] j # i /\ j <= Len(f) -> f[j] [] OTHER -> Hole]

WriteSerial(b) ==
    /\ Saving(b) /\ pos[b] < Len(list[b])
    /\ file' = Put(Lines, pos[b] + 1, list[b][pos[b] + 1])
    /\ pos' = [pos EXCEPT ![b] = @ + 1]
    /\ NobodyElseAlone(b)
    /\ UNCHANGED <<page, post, pc, list, before, posts>>

(* Mutant: the counter of save_config's loop outlives the request.         *)
ServeKeepsPos(b) ==
    /\ Saving(b) /\ pos[b] = Len(list[b])
    /\ page' = [page EXCEPT ![b] = TrimAll(list[b])]
    /\ post' = [post EXCEPT ![b] = NoPost]
    /\ pc' = [pc EXCEPT ![b] = "idle"]
    /\ list' = [list EXCEPT ![b] = <<>>]
    /\ before' = [before EXCEPT ![b] = <<>>]
    /\ alone' = [alone EXCEPT ![b] = TRUE]
    /\ UNCHANGED <<file, pos, posts>>

(* ... and the page, with the list of this request.                        *)
ServePage(b) ==
    /\ Saving(b) /\ pos[b] = Len(list[b])
    /\ page' = [page EXCEPT ![b] = TrimAll(list[b])]
    /\ post' = [post EXCEPT ![b] = NoPost]
    /\ pc' = [pc EXCEPT ![b] = "idle"]
    /\ list' = [list EXCEPT ![b] = <<>>] /\ pos' = [pos EXCEPT ![b] = 0]
    /\ before' = [before EXCEPT ![b] = <<>>]
    /\ alone' = [alone EXCEPT ![b] = TRUE]
    /\ UNCHANGED <<file, posts>>

Next ==
    \E b \in Browser :
        \/ LoadPage(b) \/ Submit(b) \/ ReadAndEdit(b)
        \/ OpenConfig(b) \/ WriteSerial(b) \/ ServePage(b)

Spec == Init /\ [][Next]_vars

-----------------------------------------------------------------------------
Copies(s, t) == Cardinality({i \in DOMAIN s : s[i] = t})

(* What the user asked for with page p on the screen, for serial t.        *)
Asked(b, p, t) ==
    LET Is(u) == IF Trim[u] = t THEN 1 ELSE 0
    IN  CASE post[b].act = "del"  -> 0 - Is(p[post[b].id])
          [] post[b].act = "save" -> Is(post[b].text) - Is(p[post[b].id])
          [] post[b].act = "add"  -> Is(post[b].text)
          [] OTHER -> 0

(***************************************************************************)
(* A request does to the list what its user asked for and nothing else:    *)
(* the serial beside the link is removed, the changed one replaced, the    *)
(* new one added, all others are kept (index.php).  It needs a page that   *)
(* was current when the request was read, and nobody who writes the file   *)
(* between its read and its end; what earlier requests did to each other   *)
(* does not matter.                                                        *)
(***************************************************************************)
EditsAsMeant ==
    [][\A b \in Browser :
         Saving(b) /\ pc'[b] = "idle" /\ alone[b] /\ page[b] = before[b] =>
           \A t \in Text \ {Blank} :
             Copies(ReadLines(Lines), t) = Copies(before[b], t) + Asked(b, page[b], t)]_vars

(* The form brings no text that differs from its trimmed form.             *)
Proper(t) == t # Blank /\ Trim[t] = t

ProperForm(b) ==
    /\ post[b].act \in {"save", "add"} => Proper(post[b].text)
    /\ post[b].act = "save" => \A i \in DOMAIN page[b] : Proper(page[b][i])

Shown(p) == {p[i] : i \in DOMAIN p}

(***************************************************************************)
(* After an edit the server approves exactly what the new page shows,      *)
(* whatever the file held before: white space, blank lines and the holes   *)
(* of two overlapping saves go away with the next edit (read_file,         *)
(* save_config, is_serial_allowed).  Two exceptions: once the last serial  *)
(* is taken away the page is empty and the server may approve anything;    *)
(* and a blank or padded text that the form itself brings stays, and a     *)
(* page shows it unlike the server reads it.                               *)
(***************************************************************************)
ServerSeesThePage ==
    [][\A b \in Browser :
         Saving(b) /\ pc'[b] = "idle" /\ alone[b] /\ ProperForm(b)
           => Approvable = IF page'[b] = <<>> THEN Text ELSE Shown(page'[b])]_vars

(***************************************************************************)
(* While nobody overlaps, the server approves nothing that the user took   *)
(* away, as soon as the first line is written: what it can read is a part  *)
(* of the new list, and no longer empty.  Between save_config's fopen and  *)
(* its first fwrite the file has no line, and anything may be approved.    *)
(***************************************************************************)
OnlyTheNewList ==
    \A b \in Browser :
        Saving(b) /\ alone[b] /\ pos[b] > 0 => Approvable \subseteq Shown(list[b])
=============================================================================
