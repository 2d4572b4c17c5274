--------------------------- MODULE ConstructionPlans ---------------------------
(***************************************************************************)
(* The construction plans of a project: versions that are drafted, sent up, *)
(* reviewed, and approved, which makes one of them the baseline, or rejected,*)
(* which clones it (project-plans.service.ts).                              *)
(*                                                                          *)
(* Every handler loads the plan before its transaction starts.  The approval*)
(* log and the notifications, written in the same transactions, are left    *)
(* out, and what a plan says is an element of Texts.                        *)
(***************************************************************************)
EXTENDS Server, FiniteSetsExt

CONSTANTS
  PlanIds,  \* ids of plans; an id is used once
  Texts     \* contents of plans

VARIABLES
  planRow,       \* rows of project_plans: ids to rows
  endorsedText,  \* history: what a plan said when it was reviewed
  latest         \* history: the plans approved, in the order of their approval

planVars == <<planRow, endorsedText, latest>>

PlansInit == planRow = <<>> /\ endorsedText = <<>> /\ latest = <<>>

\* assertNotFrozen, and PLAN_STATUS_TRANSITIONS
Proceeds(row, s) ==
  /\ ~row.frozen
  /\ \/ row.status = "DRAFT"     /\ s = "SUBMITTED"
     \/ row.status = "SUBMITTED" /\ s \in {"REVIEWED", "REJECTED"}
     \/ row.status = "REVIEWED"  /\ s \in {"APPROVED", "REJECTED"}

DraftPlan(v, text) ==
  [version |-> v, text |-> text, status |-> "DRAFT", baseline |-> FALSE, frozen |-> FALSE]

WithPlan(p, row) ==
  [q \in DOMAIN planRow \cup {p} |-> IF q = p THEN row ELSE planRow[q]]

(***************************************************************************)
(* create                                                                   *)
(***************************************************************************)
CreatePlan(h) ==
  /\ Begin(h, [pc |-> "insert plan",
               version |-> Max({0} \cup {planRow[p].version : p \in DOMAIN planRow}) + 1])
  /\ UNCHANGED planVars

InsertPlan(h) ==
  /\ At(h, "insert plan")
  /\ \E p \in PlanIds \ DOMAIN planRow, text \in Texts :
       planRow' = WithPlan(p, DraftPlan(call[h].version, text))
  /\ Return(h)
  /\ UNCHANGED <<endorsedText, latest>>

(***************************************************************************)
(* The other handlers load a plan, check it, and save it as e.              *)
(***************************************************************************)
LoadPlan(h, pc, p, e) ==
  Begin(h, [pc |-> pc, id |-> p, e |-> e, dirty |-> {}, cleared |-> {}]) /\ UNCHANGED planVars

EditPlan(h) ==
  \E p \in DOMAIN planRow, text \in Texts :
    /\ ~planRow[p].frozen /\ planRow[p].status = "DRAFT"
    /\ LoadPlan(h, "select plan", p, [planRow[p] EXCEPT !.text = text])

\* An approval also makes the plan the baseline and freezes it.
Proceed(h, pc, s) ==
  \E p \in DOMAIN planRow :
    /\ Proceeds(planRow[p], s)
    /\ LoadPlan(h, pc, p, [planRow[p] EXCEPT !.status = s, !.baseline = @ \/ s = "APPROVED",
                                            !.frozen = @ \/ s = "APPROVED"])

SubmitPlan(h)  == Proceed(h, "select plan", "SUBMITTED")
ReviewPlan(h)  == Proceed(h, "select plan", "REVIEWED")
RejectPlan(h)  == Proceed(h, "select plan", "REJECTED")
ApprovePlan(h) == Proceed(h, "clear baseline", "APPROVED")

\* rows a transaction under way has written
HeldByOthers(h) == UNION {call[g].cleared : g \in {g \in Handlers \ {h} :
                                             call[g].pc \in {"select plan", "update plan"}}}

ClearBaseline_OwnRow(h) ==   \* mutant: only the plan's own row is looked at
  /\ At(h, "clear baseline")
  /\ Become(h, [call[h] EXCEPT !.pc = "select plan"])
  /\ UNCHANGED planVars

\* The UPDATE of the rows that are the baseline; it waits for rows held by others.
ClearBaseline(h) ==
  /\ At(h, "clear baseline")
  /\ LET old == {p \in DOMAIN planRow : planRow[p].baseline} IN
       /\ old \cap HeldByOthers(h) = {}
       /\ Become(h, [call[h] EXCEPT !.pc = "select plan", !.cleared = old])
  /\ UNCHANGED planVars

SelectPlan(h) ==
  /\ At(h, "select plan")
  /\ LET c == call[h] IN
       Become(h, [c EXCEPT !.pc = "update plan", !.dirty = Dirty(c.e, planRow[c.id])])
  /\ UNCHANGED planVars

\* the row, as the transaction leaves it
LeftBy(c, p) ==
  IF p = c.id THEN Merge(planRow[p], c.e, c.dirty)
  ELSE IF p \in c.cleared THEN [planRow[p] EXCEPT !.baseline = FALSE] ELSE planRow[p]

\* The UPDATE and the commit; a plan rejected is cloned, one version up.
UpdatePlan(h) ==
  /\ At(h, "update plan") /\ call[h].id \notin HeldByOthers(h)
  /\ LET c    == call[h]
         rows == [p \in DOMAIN planRow |-> LeftBy(c, p)]
         to   == c.e.status
     IN  /\ IF to = "REJECTED"
              THEN \E p \in PlanIds \ DOMAIN planRow :
                     planRow' = [q \in DOMAIN rows \cup {p} |->
                                   IF q = p THEN DraftPlan(c.e.version + 1, c.e.text) ELSE rows[q]]
              ELSE planRow' = rows
         /\ endorsedText' = IF to = "REVIEWED"
                              THEN [q \in DOMAIN endorsedText \cup {c.id} |->
                                      IF q = c.id THEN c.e.text ELSE endorsedText[q]]
                              ELSE endorsedText
         /\ latest' = IF to = "APPROVED" THEN Append(latest, c.id) ELSE latest
  /\ Return(h)

PlansStep(h) ==
  \/ CreatePlan(h) \/ InsertPlan(h) \/ EditPlan(h)
  \/ SubmitPlan(h) \/ ReviewPlan(h) \/ RejectPlan(h) \/ ApprovePlan(h)
  \/ ClearBaseline(h) \/ SelectPlan(h) \/ UpdatePlan(h)
  \/ Crash(h) /\ UNCHANGED planVars

PlansNext == \E h \in Handlers : PlansStep(h)
PlansSpec == ServerInit /\ PlansInit /\ [][PlansNext]_<<serverVars, planVars>>

(***************************************************************************)
(* Properties                                                               *)
(***************************************************************************)
\* When calls run one at a time, wherever they die: the baseline is the plan that
\* was approved last and no other; a plan is frozen exactly when it is approved,
\* and says then and later what the reviewer read ("IMMUTABLE",
\* project-plan.entity.ts; rejections clone, project-plans.service.ts:396).
BaselineIsLatest ==
  /\ {p \in DOMAIN planRow : planRow[p].baseline} =
       IF latest = <<>> THEN {} ELSE {latest[Len(latest)]}
  /\ \A p \in DOMAIN planRow :
       /\ planRow[p].frozen <=> planRow[p].status = "APPROVED"
       /\ planRow[p].frozen => planRow[p].text = endorsedText[p]
=============================================================================
