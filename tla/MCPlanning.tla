------------------------------ MODULE MCPlanning ------------------------------
(***************************************************************************)
(* Four services that plan work, one at a time: they share no table.  The   *)
(* jobs of recurring work run on two workers; the calls of the others run   *)
(* alone, to their end or to a crash at any of their awaits.                *)
(***************************************************************************)
EXTENDS Recurrence, Schedule, ConstructionPlans, MasterPlan, TLC

VARIABLE service   \* the one that runs

LeadsAndLags == {-2, 0, 1}
EveryDay     == [t \in Templates |-> Days]

MCInit ==
  /\ service \in {"recurrence", "schedule", "plans", "master plan"}
  /\ ServerInit /\ RecurrenceInit /\ ScheduleInit /\ PlansInit /\ MasterInit
  /\ service # "master plan" => master.budget = Max(Budgets)

\* what the next step leaves is one call at most
Alone == Cardinality({h \in Handlers : call'[h] # Idle}) <= 1

MCNext ==
  /\ UNCHANGED service
  /\ \/ /\ service = "recurrence" /\ RecurrenceNext
        /\ UNCHANGED <<scheduleVars, planVars, masterVars>>
     \/ /\ service = "schedule" /\ ScheduleNext /\ Alone
        /\ UNCHANGED <<recurrenceVars, planVars, masterVars>>
     \/ /\ service = "plans" /\ PlansNext /\ Alone
        /\ UNCHANGED <<recurrenceVars, scheduleVars, masterVars>>
     \/ /\ service = "master plan" /\ MasterNext /\ Alone
        /\ UNCHANGED <<recurrenceVars, scheduleVars, planVars>>

MCSpec == MCInit /\ [][MCNext]_<<service, serverVars, recurrenceVars, scheduleVars,
                                 planVars, masterVars>>

\* handlers are interchangeable, and so are the ids of tasks, plans and nodes
\* (safety only)
Symmetry == Permutations(Handlers) \cup Permutations(Tasks)
=============================================================================
