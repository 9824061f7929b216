------------------------------- MODULE WebPoll -------------------------------
(***************************************************************************)
(* How the reports reach the page: every two seconds a browser asks        *)
(* log.php, which answers with nothing unless the size of report.txt       *)
(* differs from the one in the file 'last', a single file for all browsers.*)
(* A browser sends its next request without waiting for the answer to the  *)
(* one before and shows answers as they arrive.  An answer is one page of  *)
(* the reports, newest first, with links to the others.  Sizes are in      *)
(* cells.                                                                  *)
(***************************************************************************)
EXTENDS ReportFile

CONSTANTS
    Browser,
    Slot,      \* requests of one browser that may be open at once
    PageSize   \* reports on a page (20)

ASSUME PageAssumption == PageSize \in Nat \ {0}

VARIABLES
    last,   \* what the file 'last' holds, 0 when there is none
    open,   \* open[b]: b has loaded index.php
    req,    \* req[b][k]: where log.php is for the k-th request of b
    known,  \* known[b][k]: $last_size, then the size log.php saw
    asked,  \* asked[b][k]: $p, the page it asks for
    answer, \* answer[b][k]: log.php's answer under way
    shown   \* shown[b]: the answer b shows

pollVars == <<last, open, req, known, asked, answer, shown>>
vars == <<reportVars, pollVars>>

Size == Len(file)

(* Where the lines begin that trim does not empty: read_file's array.      *)
LineStarts(f) ==
    {i \in DOMAIN f :
        /\ IsText(f[i])
        /\ \A j \in 1 .. i - 1 : IsText(f[j]) => \E e \in j .. i : f[e] = Newline}

(* Nothing at all, as log.php answers when it exits.                       *)
NoAnswer == [head |-> <<>>, rows |-> <<>>, pages |-> 0]

(***************************************************************************)
(* log.php from read_file on: the first line is the table's head, the rest *)
(* is turned round and cut into pages, and page p is sent, or the last one *)
(* if there are not as many.                                               *)
(***************************************************************************)
Answer(f, p) ==
    LET starts == LineStarts(f)
        rest == Cardinality(starts) - 1
        pages == (rest + PageSize - 1) \div PageSize
        before == PageSize * Min({p, pages - 1})
        row(k) == LineFrom(f, Nth(starts, rest + 2 - before - k))
    IN  IF starts = {} THEN NoAnswer
        ELSE [head |-> LineFrom(f, Nth(starts, 1)),
              rows |-> IF pages = 0 THEN <<>>
                       ELSE [k \in 1 .. Min({PageSize, rest - before}) |-> row(k)],
              pages |-> pages]

AnswerType == [head : Seq(Cell), rows : Seq(Seq(Cell)), pages : Nat]

(* Types; an answer under way holds what was read, other requests nothing; *)
(* only a page that was loaded asks or shows.                              *)
TypeOK ==
    /\ ReportTypeOK
    /\ last \in Nat /\ open \in [Browser -> BOOLEAN]
    /\ req \in [Browser -> [Slot -> {"none", "last", "stat", "put", "read", "reply"}]]
    /\ known \in [Browser -> [Slot -> Nat]]
    /\ asked \in [Browser -> [Slot -> Nat]]
    /\ answer \in [Browser -> [Slot -> AnswerType]]
    /\ shown \in [Browser -> AnswerType]
    /\ \A b \in Browser :
          /\ ~open[b] => shown[b] = NoAnswer
          /\ \A k \in Slot :
                /\ req[b][k] # "none" => open[b]
                /\ req[b][k] # "reply" => answer[b][k] = NoAnswer
                /\ req[b][k] # "read" => asked[b][k] = 0

Init ==
    /\ ReportInit
    /\ last = 0
    /\ open = [b \in Browser |-> FALSE]
    /\ req = [b \in Browser |-> [k \in Slot |-> "none"]]
    /\ known = [b \in Browser |-> [k \in Slot |-> 0]]
    /\ asked = [b \in Browser |-> [k \in Slot |-> 0]]
    /\ answer = [b \in Browser |-> [k \in Slot |-> NoAnswer]]
    /\ shown = [b \in Browser |-> NoAnswer]

Goto(b, k, from, to) == req[b][k] = from /\ req' = [req EXCEPT ![b][k] = to]

(* index.php is loaded and asks at once, without t: size does not matter.  *)
Load(b, k) ==
    /\ ~open[b] /\ open' = [open EXCEPT ![b] = TRUE]
    /\ Goto(b, k, "none", "read")
    /\ UNCHANGED <<last, known, asked, answer, shown>>

(* The "reload" link, or the link to a page of those there were; no t.     *)
Click(b, k, p) ==
    /\ open[b] /\ (p = 0 \/ p < shown[b].pages)
    /\ Goto(b, k, "none", "read")
    /\ asked' = [asked EXCEPT ![b][k] = p]
    /\ UNCHANGED <<last, open, known, answer, shown>>

(* everyTime asks for page 0.                                              *)
Poll(b, k) ==
    /\ open[b]
    /\ Goto(b, k, "none", "last")
    /\ UNCHANGED <<last, open, known, asked, answer, shown>>

GetLast(b, k) ==
    /\ Goto(b, k, "last", "stat")
    /\ known' = [known EXCEPT ![b][k] = last]
    /\ UNCHANGED <<last, open, asked, answer, shown>>

(* No such file, or the same size: exit, and the page stays as it is.      *)
Unchanged(b, k) ==
    /\ Goto(b, k, "stat", "none")
    /\ ~present \/ known[b][k] = Size
    /\ known' = [known EXCEPT ![b][k] = 0]
    /\ UNCHANGED <<last, open, asked, answer, shown>>

Changed(b, k) ==
    /\ Goto(b, k, "stat", "put")
    /\ present /\ known[b][k] # Size
    /\ known' = [known EXCEPT ![b][k] = Size]
    /\ UNCHANGED <<last, open, asked, answer, shown>>

(* PHP answers the second filesize from its stat cache.                    *)
PutLast(b, k) ==
    /\ Goto(b, k, "put", "read")
    /\ last' = known[b][k]
    /\ known' = [known EXCEPT ![b][k] = 0]
    /\ UNCHANGED <<open, asked, answer, shown>>

(* The whole file is read, one page of it is sent.                         *)
ReadReport(b, k) ==
    /\ Goto(b, k, "read", "reply")
    /\ answer' = [answer EXCEPT ![b][k] = Answer(file, asked[b][k])]
    /\ asked' = [asked EXCEPT ![b][k] = 0]
    /\ UNCHANGED <<last, open, known, shown>>

(* The page is replaced by the answer, unless that is nothing.             *)
Show(b, k) ==
    /\ shown' = IF answer[b][k] = NoAnswer THEN shown
                ELSE [shown EXCEPT ![b] = answer[b][k]]
    /\ answer' = [answer EXCEPT ![b][k] = NoAnswer]

(* Mutant: 'last' is written at the end of log.php.                        *)
ReplyAndPut(b, k) ==
    /\ Goto(b, k, "reply", "none")
    /\ last' = Size
    /\ Show(b, k)
    /\ UNCHANGED <<open, known, asked>>

(* The answer arrives; one without a line is ignored.                      *)
Reply(b, k) ==
    /\ Goto(b, k, "reply", "none")
    /\ Show(b, k)
    /\ UNCHANGED <<last, open, known, asked>>

Request(b, k) ==
    \/ Poll(b, k) \/ GetLast(b, k) \/ Unchanged(b, k) \/ Changed(b, k)
    \/ PutLast(b, k) \/ ReadReport(b, k) \/ Reply(b, k)

PollNext ==
    \E b \in Browser, k \in Slot :
        \/ Load(b, k) \/ Request(b, k)
        \/ \E p \in 0 .. shown[b].pages : Click(b, k, p)

Next ==
    \/ ReportNext /\ UNCHANGED pollVars
    \/ PollNext /\ UNCHANGED reportVars

Spec == Init /\ [][Next]_vars

(* Fairness: an open page keeps polling and every request is answered;     *)
(* nothing is assumed of the user, of the server or of a clean.            *)
FairSpec ==
    /\ Spec
    /\ \A b \in Browser, k \in Slot :
          WF_vars(Request(b, k) /\ UNCHANGED reportVars)

(***************************************************************************)
(* "If this file exist and it's size has been changed, web monitor prints" *)
(* (Design): once nothing is written any more, an open page shows a page   *)
(* of what report.txt holds, with links to all its pages, whatever links   *)
(* are clicked meanwhile.  With one browser that waits for its answers,    *)
(* taking the size before the lines is what makes it true: what is written *)
(* in between is shown twice, never missed.  Claimed for a report.txt that *)
(* only grows: a clean and as many new bytes leave the size as it was.     *)
(***************************************************************************)
UpToDate(b) == \E p \in 0 .. Len(file) : shown[b] = Answer(file, p)

PagesCatchUp ==
    <>[](cleans = 0 => \A b \in Browser : open[b] => UpToDate(b))
=============================================================================
