------------------------------ MODULE MasterPlan ------------------------------
(***************************************************************************)
(* The master plan of a year: a tree of nodes with budgets, which is drafted,*)
(* approved and closed, whose leaves carry the templates of recurring work,  *)
(* and whose branches can be archived (master-plan.service.ts,               *)
(* domain/logic/budget-rollup.logic.ts).                                     *)
(*                                                                           *)
(* Each handler reads the plan, then what it needs of the tree, and writes   *)
(* last; none is a transaction.  Codes, dates, names and the optimistic      *)
(* version a client may send are left out; Recurrence models the work that   *)
(* templates generate, of which this module keeps whether a node has some.   *)
(***************************************************************************)
EXTENDS Server, FiniteSetsExt

CONSTANTS
  NodeIds,  \* ids of nodes
  Budgets   \* budgets of the plan and of its nodes

ASSUME MasterPlanAssumption == Budgets \subseteq Nat

VARIABLES
  master,   \* the row of master_plans
  node,     \* rows of wbs_nodes: ids to rows
  busy      \* nodes whose templates have a work item NEW or IN_PROGRESS

masterVars == <<master, node, busy>>

Root     == "root"      \* parent_id NULL
LiveOf(rows) == {n \in DOMAIN rows : ~rows[n].archived}

MasterInit ==
  /\ \E b \in Budgets : master = [status |-> "DRAFT", budget |-> b]
  /\ node = <<>> /\ busy = {}

(***************************************************************************)
(* The tree                                                                 *)
(***************************************************************************)
Children(rows, n) == {k \in LiveOf(rows) : rows[k].parent = n}
Spent(rows, ns)   == MapThenSumSet(LAMBDA k : rows[k].budget, ns)

RollsUp_TopOnly(rows, budget) ==   \* mutant: the levels below the roots
  Spent(rows, Children(rows, Root)) <= budget

\* validateBudgetRollupTree
RollsUp(rows, budget) ==
  /\ Spent(rows, Children(rows, Root)) <= budget
  /\ \A n \in LiveOf(rows) : Spent(rows, Children(rows, n)) <= rows[n].budget

Below_Live(n) ==   \* mutant: it does not look below what is archived
  LET depth[i \in Nat] ==
        IF i = 0 THEN {n}
        ELSE depth[i - 1] \cup {k \in LiveOf(node) : node[k].parent = n}
  IN  depth[1]

\* n and all below it, archived or not (WITH RECURSIVE tree)
Below(n) ==
  LET depth[i \in Nat] ==
        IF i = 0 THEN {n}
        ELSE depth[i - 1] \cup {k \in DOMAIN node : node[k].parent \in depth[i - 1]}
  IN  depth[Cardinality(DOMAIN node)]

(***************************************************************************)
(* The plan: loaded, checked, saved                                         *)
(***************************************************************************)
SaveMaster(h, e) == Begin(h, [pc |-> "select master", e |-> e, dirty |-> {}])

UpdateMaster(h) ==
  /\ master.status # "CLOSED"
  /\ \E b \in Budgets : SaveMaster(h, [master EXCEPT !.budget = b])
  /\ UNCHANGED masterVars

CloseMaster(h) ==
  SaveMaster(h, [master EXCEPT !.status = "CLOSED"]) /\ UNCHANGED masterVars

ApproveMaster(h) ==
  /\ master.status = "DRAFT"
  /\ Begin(h, [pc |-> "roll up", e |-> [master EXCEPT !.status = "ACTIVE"]])
  /\ UNCHANGED masterVars

RollUp(h) ==
  /\ At(h, "roll up")
  /\ LET c == call[h] IN
       IF RollsUp(node, c.e.budget)
         THEN Become(h, [pc |-> "select master", e |-> c.e, dirty |-> {}])
         ELSE Return(h)
  /\ UNCHANGED masterVars

SelectMaster(h) ==
  /\ At(h, "select master")
  /\ Become(h, [call[h] EXCEPT !.pc = "write master", !.dirty = Dirty(call[h].e, master)])
  /\ UNCHANGED masterVars

WriteMaster(h) ==
  /\ At(h, "write master")
  /\ master' = Merge(master, call[h].e, call[h].dirty)
  /\ Return(h)
  /\ UNCHANGED <<node, busy>>

(***************************************************************************)
(* Its nodes: every handler starts with ensurePlanMutable                   *)
(***************************************************************************)
Mutable == master.status # "CLOSED"

\* addWbsNode: the plan, then the parent, then the insertion
AddNode(h) ==
  /\ Mutable
  /\ \E p \in DOMAIN node \cup {Root} : Begin(h, [pc |-> "find parent", parent |-> p])
  /\ UNCHANGED masterVars

FindParent(h) ==
  /\ At(h, "find parent")
  /\ LET p == call[h].parent IN
       IF p # Root /\ node[p].archived THEN Return(h) ELSE Goto(h, "insert node")
  /\ UNCHANGED masterVars

InsertNode(h) ==
  /\ At(h, "insert node")
  /\ \E n \in NodeIds \ DOMAIN node, b \in Budgets :
       node' = [k \in DOMAIN node \cup {n} |->
                  IF k = n THEN [parent |-> call[h].parent, budget |-> b, archived |-> FALSE,
                                 templates |-> FALSE]
                  ELSE node[k]]
  /\ Return(h)
  /\ UNCHANGED <<master, busy>>

\* updateWbsNode, archiveWbsNode, addTaskTemplate: the plan, then the node
TouchNode(h) ==
  /\ Mutable
  /\ \E n \in DOMAIN node, next \in {"load node", "load tree", "load leaf"} :
       Begin(h, [pc |-> next, id |-> n])
  /\ UNCHANGED masterVars

LoadNode(h) ==
  /\ At(h, "load node")
  /\ LET row == node[call[h].id] IN
       IF row.archived THEN Return(h)
       ELSE \E b \in Budgets :
              Become(h, [pc |-> "select node", id |-> call[h].id,
                         e |-> [row EXCEPT !.budget = b], dirty |-> {}])
  /\ UNCHANGED masterVars

SelectNode(h) ==
  /\ At(h, "select node")
  /\ LET c == call[h] IN
       Become(h, [c EXCEPT !.pc = "write node", !.dirty = Dirty(c.e, node[c.id]) \ {"templates"}])
  /\ UNCHANGED masterVars

WriteNode(h) ==
  /\ At(h, "write node")
  /\ node' = [node EXCEPT ![call[h].id] = Merge(@, call[h].e, call[h].dirty)]
  /\ Return(h)
  /\ UNCHANGED <<master, busy>>

\* archiveWbsNode: the tree below is read, then the open work in it counted
LoadTree(h) ==
  /\ At(h, "load tree")
  /\ LET n == call[h].id IN
       IF node[n].archived THEN Return(h)
       ELSE Become(h, [pc |-> "count work", ids |-> Below(n)])
  /\ UNCHANGED masterVars

CountWork(h) ==
  /\ At(h, "count work")
  /\ IF call[h].ids \cap busy # {} THEN Return(h) ELSE Goto(h, "archive")
  /\ UNCHANGED masterVars

ArchiveNodes(h) ==
  /\ At(h, "archive")
  /\ node' = [n \in DOMAIN node |->
                IF n \in call[h].ids THEN [node[n] EXCEPT !.archived = TRUE] ELSE node[n]]
  /\ Return(h)
  /\ UNCHANGED <<master, busy>>

\* addTaskTemplate: a live node, found without live children
LoadLeaf(h) ==
  /\ At(h, "load leaf")
  /\ LET n == call[h].id IN
       IF node[n].archived \/ Children(node, n) # {} THEN Return(h)
       ELSE Goto(h, "insert template")
  /\ UNCHANGED masterVars

InsertTemplate(h) ==
  /\ At(h, "insert template")
  /\ node' = [node EXCEPT ![call[h].id].templates = TRUE]
  /\ Return(h)
  /\ UNCHANGED <<master, busy>>

\* Work is generated, also from jobs queued long before, and done.
WorkComesAndGoes ==
  /\ \E n \in DOMAIN node :
       /\ node[n].templates
       /\ busy' = IF n \in busy THEN busy \ {n} ELSE busy \cup {n}
  /\ UNCHANGED <<serverVars, master, node>>

MasterStep(h) ==
  \/ UpdateMaster(h) \/ CloseMaster(h) \/ ApproveMaster(h) \/ RollUp(h)
  \/ SelectMaster(h) \/ WriteMaster(h)
  \/ AddNode(h) \/ FindParent(h) \/ InsertNode(h)
  \/ TouchNode(h) \/ LoadNode(h) \/ SelectNode(h) \/ WriteNode(h)
  \/ LoadTree(h) \/ CountWork(h) \/ ArchiveNodes(h) \/ LoadLeaf(h) \/ InsertTemplate(h)
  \/ Crash(h) /\ UNCHANGED masterVars

MasterNext == WorkComesAndGoes \/ \E h \in Handlers : MasterStep(h)
MasterSpec == ServerInit /\ MasterInit /\ [][MasterNext]_<<serverVars, masterVars>>

(***************************************************************************)
(* Properties                                                               *)
(***************************************************************************)
\* When calls run one at a time, wherever they die: nothing below an archived
\* node is live, however often nodes were added, changed and archived
\* (master-plan.service.ts:138, :221).
NothingLiveBelowArchived ==
  \A n \in LiveOf(node) : node[n].parent # Root => ~node[node[n].parent].archived

\* When calls run one at a time a plan becomes ACTIVE only from a draft whose
\* budgets add up at every level, and once it is CLOSED neither it nor its nodes
\* change again (BR-MP-04; every handler checks the status for itself).
PlanLife ==
  [][/\ master.status # "ACTIVE" /\ master'.status = "ACTIVE" =>
          /\ master.status = "DRAFT"
          /\ \A p \in LiveOf(node) \cup {Root} :
               LET above == IF p = Root THEN master'.budget ELSE node[p].budget
               IN  \A kids \in SUBSET {k \in LiveOf(node) : node[k].parent = p} :
                     Spent(node, kids) <= above
     /\ master.status = "CLOSED" => UNCHANGED <<master, node>>]_masterVars
=============================================================================
