--------------------------- MODULE MCDocumentsSales ---------------------------
(***************************************************************************)
(* Document control and sales, one at a time: they share no table, so that  *)
(* one run checks them side by side.                                        *)
(***************************************************************************)
EXTENDS DocumentControl, SalesOrders, TLC

VARIABLE service   \* the one that runs

MCInit ==
  /\ service \in {"documents", "sales"}
  /\ DocInit /\ SalesInit
  /\ service = "documents" => customer.limit = 1

MCNext ==
  /\ UNCHANGED service
  /\ \/ service = "documents" /\ DocNext /\ UNCHANGED salesTables
     \/ service = "sales" /\ SalesNext /\ UNCHANGED <<docTables, day>>

MCSpec == MCInit /\ [][MCNext]_<<service, docVars, salesVars>>

\* handlers are interchangeable (safety only)
Symmetry == Permutations(Handlers)
=============================================================================
