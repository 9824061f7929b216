------------------------------ MODULE ReportLog ------------------------------
(***************************************************************************)
(* What report.txt is for: the reports saved since it was last cleared,    *)
(* each a line of its own, in the order in which they were saved.  What    *)
(* may go wrong has actions of its own: Tear and Keep are not in Next.     *)
(***************************************************************************)
EXTENDS Sequences

CONSTANT Row

VARIABLES
    rows,   \* the lines that are reports
    saved,  \* the reports saved so far, each once
    torn    \* whether the last line lacks its end

vars == <<rows, saved, torn>>

Init == rows = <<>> /\ saved = {} /\ torn = FALSE

Save(r) ==
    /\ ~torn /\ UNCHANGED torn
    /\ r \notin saved /\ saved' = saved \cup {r}
    /\ rows' = Append(rows, r)

(* A report saved behind a torn line becomes the end of that line: it is   *)
(* in the file and no line of its own.                                     *)
SaveGlued(r) ==
    /\ torn /\ torn' = FALSE
    /\ r \notin saved /\ saved' = saved \cup {r}
    /\ UNCHANGED rows

Clear == rows' = <<>> /\ torn' = FALSE /\ UNCHANGED saved

Next == Clear \/ \E r \in Row : Save(r) \/ SaveGlued(r)

(* A save is cut short.                                                    *)
Tear == torn' = TRUE /\ UNCHANGED <<rows, saved>>

(* A clean takes a report for the line of field names and keeps it.        *)
Keep(r) == rows = <<>> /\ rows' = <<r>> /\ UNCHANGED <<saved, torn>>
=============================================================================
