------------------------------ MODULE MCServices ------------------------------
(***************************************************************************)
(* Five services of the server, one at a time: they share no table and call *)
(* none of each other's code, so that a behaviour of one has no step of     *)
(* another, and one run checks them side by side.                           *)
(***************************************************************************)
EXTENDS Sessions, ProjectRequests, FieldWork, Purchasing, Transport, TLC

VARIABLE service   \* the one that runs

TwoEach == [l \in Lines |-> 2]

sessionsOnly == <<sessionTables, minute>>

MCInit ==
  /\ service \in {"sessions", "requests", "field work", "purchasing", "transport"}
  /\ ServerInit /\ SessionInit /\ RequestsInit /\ FieldInit /\ PurchasingInit
  /\ TransportInit
  /\ service # "field work" => kind = "INCIDENT"

MCNext ==
  /\ UNCHANGED service
  /\ \/ /\ service = "sessions" /\ SessionNext
        /\ UNCHANGED <<requestVars, fieldVars, purchasingVars, transportVars>>
     \/ /\ service = "requests" /\ RequestsNext
        /\ UNCHANGED <<sessionsOnly, fieldVars, purchasingVars, transportVars>>
     \/ /\ service = "field work" /\ FieldNext
        /\ UNCHANGED <<sessionsOnly, requestVars, purchasingVars, transportVars>>
     \/ /\ service = "purchasing" /\ PurchasingNext
        /\ UNCHANGED <<sessionsOnly, requestVars, fieldVars, transportVars>>
     \/ /\ service = "transport" /\ TransportNext
        /\ UNCHANGED <<sessionsOnly, requestVars, fieldVars, purchasingVars>>

MCSpec == MCInit /\ [][MCNext]_<<service, serverVars, sessionsOnly, requestVars,
                                 fieldVars, purchasingVars, transportVars>>

\* Handlers are interchangeable, and so are the two ids that stand for parts,
\* costs, lines and codes (safety only).
Symmetry == Permutations(Handlers) \cup Permutations(Parts)
=============================================================================
