------------------------------ MODULE Reporting ------------------------------
(***************************************************************************)
(* What the logger promises, without a network, a disk or a process: each  *)
(* client has a queue of recorded events; the one at the head is handled   *)
(* (reported, or found allowed), and only a handled head leaves.  Hence no *)
(* event is forgotten, and the events of a host are handled in the order   *)
(* they were recorded.                                                     *)
(***************************************************************************)
EXTENDS Sequences

CONSTANTS Client, Msg, Host

VARIABLES
    pending,    \* pending[c]: events of c not yet discharged, oldest first
    handled     \* events the server has dealt with

vars == <<pending, handled>>

TypeOK ==
    /\ pending \in [Client -> Seq(Msg)]
    /\ handled \subseteq Msg

Init ==
    /\ pending = [c \in Client |-> <<>>]
    /\ handled = {}

Log(c) ==
    /\ \E m \in Msg : Host[m] = c /\ pending' = [pending EXCEPT ![c] = Append(@, m)]
    /\ UNCHANGED handled

Handle(c) ==
    /\ pending[c] # <<>>
    /\ handled' = handled \cup {Head(pending[c])}
    /\ UNCHANGED pending

Discharge(c) ==
    /\ pending[c] # <<>> /\ Head(pending[c]) \in handled
    /\ pending' = [pending EXCEPT ![c] = Tail(@)]
    /\ UNCHANGED handled

Next == \E c \in Client : Log(c) \/ Handle(c) \/ Discharge(c)

Spec == Init /\ [][Next]_vars

(***************************************************************************)
(* What a crash may do to the promise: a client forgets its whole queue at *)
(* once, never a part of it.  UsbLogger says which crashes do.             *)
(***************************************************************************)
Crash(c) ==
    /\ pending' = [pending EXCEPT ![c] = <<>>]
    /\ UNCHANGED handled
=============================================================================
