--------------------------- MODULE ApprovalPromise ---------------------------
(***************************************************************************)
(* What the approval engine promises to the modules that submit to it       *)
(* (documents): a request is opened once, moves while it is open, is        *)
(* decided once and keeps its decision, unless it disappears with its       *)
(* configuration.  ApprovalWorkflow implements it for configurations that   *)
(* ask one approver at each order and handlers that run one at a time;      *)
(* DocumentControl is built on it.                                          *)
(***************************************************************************)
CONSTANT Asked      \* the requests

VARIABLE outcome    \* their status

Open    == {"PENDING", "IN_PROGRESS"}
Settled == {"APPROVED", "REJECTED"}

\* where a request in status s may go
Moves(s) ==
  CASE s = "NONE"  -> {"PENDING"}
    [] s \in Open  -> Open \cup Settled \cup {"DELETED"}
    [] s \in Settled -> {"DELETED"}
    [] OTHER -> {}

Init == outcome = [q \in Asked |-> "NONE"]

\* A removed configuration takes several requests with it, everything else
\* concerns one of them.
Next == \/ \E q \in Asked : \E s \in Moves(outcome[q]) :
             outcome' = [outcome EXCEPT ![q] = s]
        \/ outcome' = [q \in Asked |-> IF outcome[q] = "NONE" THEN "NONE"
                                                              ELSE "DELETED"]

Spec == Init /\ [][Next]_outcome
=============================================================================
