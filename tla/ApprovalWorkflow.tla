--------------------------- MODULE ApprovalWorkflow ---------------------------
(***************************************************************************)
(* The dynamic approval engine of SHERP                                    *)
(* (src/wms-backend/src/approvals/approvals.service.ts).                   *)
(*                                                                         *)
(* One approval configuration for one entity type, the requests submitted  *)
(* under it, and the HTTP handlers that approve or reject their steps.     *)
(* processStep runs with no transaction and no lock, so every repository   *)
(* call is a step of its own; TypeORM's save(entity) is two of them: it    *)
(* selects the row, compares every loaded column with it, and then updates *)
(* the columns that differ (see DirtyRequest, MergeRequest).               *)
(*                                                                         *)
(* A configuration row is a record of ConfigRows; the step a request gets  *)
(* from row r is stepRow[q][r].  Amounts stand for the submitted amount.   *)
(***************************************************************************)
EXTENDS Naturals, Sequences, FiniteSets

CONSTANTS
  Users,         \* accounts that call the API
  SuperAdmins,   \* those with the role SUPER_ADMIN
  Handlers,      \* HTTP requests the server runs at the same time
  Requests,      \* rows of approval_requests
  ConfigRows,    \* every row approval_config_steps may hold
  Configs,       \* the row sets a configuration is created or edited to; {} is
                 \* a member iff it may be edited (an edit deletes, then inserts)
  Amounts,       \* amounts submitted; 0 is no amount
  Rules,         \* conditions.threshold_rules, <<>> when there is none
  NoLimit,       \* a threshold rule's max_amount = null
  NoRow,         \* findOne found no row
  NoUser,        \* no delegate; also an approver_id that is a role code
  CrashesAllowed \* whether a handler may die between two repository calls

ConfigRow == [id : Nat, order : Nat, approver : Users \cup {NoUser},
              delegate : Users \cup {NoUser}, required : Nat \ {0},
              mandatory : BOOLEAN]

ASSUME ConfigAssumption ==
  /\ IsFiniteSet(ConfigRows)
  /\ ConfigRows \subseteq ConfigRow
  /\ NoRow \notin ConfigRows
  /\ Configs \subseteq SUBSET ConfigRows
ASSUME UserAssumption ==
  /\ NoUser \notin Users
  /\ SuperAdmins \subseteq Users
ASSUME AmountAssumption == Amounts \subseteq Nat /\ CrashesAllowed \in BOOLEAN
ASSUME NonemptyAssumption == Requests # {} /\ ConfigRows # {} /\ Users # {}

VARIABLES
  life,       \* the configuration row: "absent", "live" or "removed"
  active,     \* approval_configs.is_active
  rows,       \* approval_config_steps of the configuration
  editor,     \* pc of the administrator's updateConfig
  requestRow, \* approval_requests, by id
  stepRow,    \* approval_steps, by request and configuration row
  call,       \* the processStep in progress in each handler
  signed,     \* history: steps a signature APPROVED was ever stored for
  refused,    \* history: steps a REJECTED was ever stored for
  skipped     \* history: steps a SKIPPED was ever stored for

configVars  == <<life, active, rows, editor>>
history     == <<signed, refused, skipped>>
vars == <<life, active, rows, editor, requestRow, stepRow, call, signed,
          refused, skipped>>

RequestStatus == {"PENDING", "IN_PROGRESS", "APPROVED", "REJECTED"}
StepStatus    == {"PENDING", "APPROVED", "REJECTED", "SKIPPED"}

\* "NONE": not submitted yet; "DELETED": removed with its configuration.
RequestRows == [status : RequestStatus \cup {"NONE", "DELETED"},
                current_step : Nat, resolved_at : BOOLEAN]
StepRows    == [status : StepStatus \cup {"NONE"},
                approver_id : Users \cup {NoUser}]

NoRequest == [status |-> "NONE", current_step |-> 1, resolved_at |-> FALSE]
NoStep    == [status |-> "NONE", approver_id |-> NoUser]
NoSteps   == [r \in ConfigRows |-> NoStep]

\* Where a processStep call stands: the repository call it makes next.
PCs == {"idle", "authorise", "saveStep", "flushStep", "count", "scan", "skip",
        "saveSkip", "flushSkip", "saveRequest", "flushRequest"}

\* The local variables of processStep: parameters and loaded entities.
Calls == [pc      : PCs,
          request : Requests, row : ConfigRows, user : Users,
          action  : {"APPROVED", "REJECTED"},
          entity  : RequestRows,                \* request
          step    : StepRows,                   \* step, then s of the skip loop
          required: Nat,                        \* configStep?.required_count || 1
          seen    : [ConfigRows -> StepRows],   \* allSteps
          target  : ConfigRows,                 \* the row s of the skip loop
          dirty   : SUBSET {"status", "current_step", "resolved_at",
                            "approver_id"}]

IdleCall == [pc |-> "idle",
             request |-> CHOOSE q \in Requests : TRUE,
             row |-> CHOOSE r \in ConfigRows : TRUE,
             user |-> CHOOSE u \in Users : TRUE,
             action |-> "APPROVED", entity |-> NoRequest, step |-> NoStep,
             required |-> 1, seen |-> NoSteps,
             target |-> CHOOSE r \in ConfigRows : TRUE, dirty |-> {}]

-----------------------------------------------------------------------------
(* Helpers *)

\* request q is a row of approval_requests
Exists(q) == requestRow[q].status \in RequestStatus

\* the rows request q has a step for, and those of one step_order
RowsOf(q)      == {r \in ConfigRows : stepRow[q][r].status # "NONE"}
RowsAt(q, k)   == {r \in RowsOf(q) : r.order = k}

\* configStepRepo.findOne by config and step_order: any row that matches
ConfigStepsFor(k) ==
  LET found == {r \in rows : r.order = k}
  IN  IF found = {} THEN {NoRow} ELSE found

RequiredCount(cs) == IF cs = NoRow THEN 1 ELSE cs.required

\* resolveStepsForAmount: the rows of rs the first matching rule keeps
ResolveStepsForAmount(rs, amount) ==
  LET matches(i) == Rules[i].max_amount = NoLimit \/ amount <= Rules[i].max_amount
      first(i)   == matches(i) /\ \A j \in 1..(i - 1) : ~ matches(j)
      kept       == {i \in DOMAIN Rules : first(i)}
  IN  IF amount = 0 THEN rs
      ELSE {r \in rs : \A i \in kept : ~ Rules[i].skip_all
                                       /\ r.order <= Rules[i].max_step}

\* save(): the loaded columns that differ from the row selected now
DirtyRequest(e, row) ==
  {c \in {"status", "current_step", "resolved_at"} :
     \/ c = "status" /\ e.status # row.status
     \/ c = "current_step" /\ e.current_step # row.current_step
     \/ c = "resolved_at" /\ e.resolved_at # row.resolved_at}

DirtyStep(e, row) ==
  {c \in {"status", "approver_id"} :
     \/ c = "status" /\ e.status # row.status
     \/ c = "approver_id" /\ e.approver_id # row.approver_id}

\* save(): the UPDATE of those columns
MergeRequest(row, e, dirty) ==
  [status       |-> IF "status" \in dirty THEN e.status ELSE row.status,
   current_step |-> IF "current_step" \in dirty THEN e.current_step
                                                ELSE row.current_step,
   resolved_at  |-> IF "resolved_at" \in dirty THEN e.resolved_at
                                               ELSE row.resolved_at]

MergeStep(row, e, dirty) ==
  [status      |-> IF "status" \in dirty THEN e.status ELSE row.status,
   approver_id |-> IF "approver_id" \in dirty THEN e.approver_id
                                              ELSE row.approver_id]

Goto(h, c, pc) == call' = [call EXCEPT ![h] = [c EXCEPT !.pc = pc]]
Finish(h)      == call' = [call EXCEPT ![h] = IdleCall]

-----------------------------------------------------------------------------
Init ==
  /\ life = "absent"
  /\ active = FALSE
  /\ rows = {}
  /\ editor = "idle"
  /\ requestRow = [q \in Requests |-> NoRequest]
  /\ stepRow = [q \in Requests |-> NoSteps]
  /\ call = [h \in Handlers |-> IdleCall]
  /\ signed = [q \in Requests |-> {}]
  /\ refused = [q \in Requests |-> {}]
  /\ skipped = [q \in Requests |-> {}]

-----------------------------------------------------------------------------
(* The administrator *)

CreateConfig(cfg) ==
  /\ life = "absent"
  /\ cfg # {}
  /\ life' = "live" /\ active' = TRUE /\ rows' = cfg
  /\ UNCHANGED <<editor, requestRow, stepRow, call, history>>

ToggleConfig ==
  /\ life = "live"
  /\ {} \in Configs
  /\ active' = ~ active
  /\ UNCHANGED <<life, rows, editor, requestRow, stepRow, call, history>>

\* updateConfig reads the configuration and refuses an active one ...
UpdateConfigRead ==
  /\ life = "live" /\ {} \in Configs
  /\ editor = "idle" /\ ~ active
  /\ editor' = "delete"
  /\ UNCHANGED <<life, active, rows, requestRow, stepRow, call, history>>

\* ... deletes its steps ...
UpdateConfigDelete ==
  /\ editor = "delete"
  /\ rows' = {}
  /\ editor' = "save"
  /\ UNCHANGED <<life, active, requestRow, stepRow, call, history>>

\* ... and saves the entity: new steps, and is_active as it was read.  When
\* the configuration is gone the insert of its steps fails.
UpdateConfigSave(cfg) ==
  /\ editor = "save"
  /\ cfg # {}
  /\ editor' = "idle"
  /\ IF life = "live"
     THEN rows' = cfg /\ active' = FALSE
     ELSE UNCHANGED <<rows, active>>
  /\ UNCHANGED <<life, requestRow, stepRow, call, history>>

\* removeConfig: the foreign keys delete its steps, requests and their steps.
RemoveConfig ==
  /\ life = "live" /\ {} \in Configs
  /\ ~ active
  /\ life' = "removed"
  /\ rows' = {}
  /\ requestRow' = [q \in Requests |->
                      IF Exists(q) THEN [NoRequest EXCEPT !.status = "DELETED"]
                                   ELSE requestRow[q]]
  /\ stepRow' = [q \in Requests |-> NoSteps]
  /\ UNCHANGED <<active, editor, call, history>>

-----------------------------------------------------------------------------
(* submitForApproval *)

Submit(q, amount) ==
  LET steps == ResolveStepsForAmount(rows, amount)
  IN  /\ life = "live" /\ active
      /\ requestRow[q].status = "NONE"
      /\ \E first \in steps :
           /\ \A r \in steps : first.order <= r.order
           /\ requestRow' = [requestRow EXCEPT ![q] =
                [status |-> "PENDING", current_step |-> first.order,
                 resolved_at |-> FALSE]]
      /\ stepRow' = [stepRow EXCEPT ![q] =
           [r \in ConfigRows |-> IF r \in steps
                                 THEN [status |-> "PENDING",
                                       approver_id |-> r.approver]
                                 ELSE NoStep]]
      /\ UNCHANGED <<configVars, call, history>>

-----------------------------------------------------------------------------
(* approveStep and rejectStep: processStep, one repository call at a time *)

\* Mutant: the step may have been processed already.
ProcessStep_Again(h, q, r, u, action) ==
  /\ call[h].pc = "idle"
  /\ Exists(q)
  /\ stepRow[q][r].status # "NONE"
  /\ r.order = requestRow[q].current_step
  /\ call' = [call EXCEPT ![h] =
       [IdleCall EXCEPT !.pc = "authorise", !.request = q, !.row = r,
                        !.user = u, !.action = action,
                        !.entity = requestRow[q], !.step = stepRow[q][r]]]
  /\ UNCHANGED <<configVars, requestRow, stepRow, history>>

\* load the step with its request; it must be pending and at the current step
ProcessStep(h, q, r, u, action) ==
  /\ call[h].pc = "idle"
  /\ Exists(q)
  /\ stepRow[q][r].status = "PENDING"
  /\ r.order = requestRow[q].current_step
  /\ call' = [call EXCEPT ![h] =
       [IdleCall EXCEPT !.pc = "authorise", !.request = q, !.row = r,
                        !.user = u, !.action = action,
                        !.entity = requestRow[q], !.step = stepRow[q][r]]]
  /\ UNCHANGED <<configVars, requestRow, stepRow, history>>

MayAct(c, cs) ==
  \/ c.step.approver_id = c.user
  \/ cs # NoRow /\ cs.delegate = c.user
  \/ c.user \in SuperAdmins

\* read the configuration row and check the caller
Authorise(h) ==
  LET c == call[h]
  IN  /\ c.pc = "authorise"
      /\ \E cs \in ConfigStepsFor(c.row.order) :
           IF MayAct(c, cs)
           THEN Goto(h, [c EXCEPT !.required = RequiredCount(cs),
                                  !.step = [status |-> c.action,
                                            approver_id |-> c.user]],
                     "saveStep")
           ELSE Finish(h)
      /\ UNCHANGED <<configVars, requestRow, stepRow, history>>

\* stepRepo.save(step), its SELECT; the insert of a deleted row fails
SaveStep(h) ==
  LET c == call[h]
  IN  /\ c.pc = "saveStep"
      /\ IF Exists(c.request)
         THEN Goto(h, [c EXCEPT !.dirty =
                         DirtyStep(c.step, stepRow[c.request][c.row])],
                   "flushStep")
         ELSE Finish(h)
      /\ UNCHANGED <<configVars, requestRow, stepRow, history>>

\* its UPDATE; a rejection then resolves the request, an approval counts
FlushStep(h) ==
  LET c == call[h]
      wrote == Exists(c.request)
  IN  /\ c.pc = "flushStep"
      /\ stepRow' = IF Exists(c.request)
                    THEN [stepRow EXCEPT ![c.request][c.row] =
                            MergeStep(@, c.step, c.dirty)]
                    ELSE stepRow
      /\ IF c.action = "REJECTED"
         THEN Goto(h, [c EXCEPT !.entity.status = "REJECTED",
                                !.entity.resolved_at = TRUE], "saveRequest")
         ELSE Goto(h, c, "count")
      /\ signed' = IF wrote /\ c.action = "APPROVED"
                   THEN [signed EXCEPT ![c.request] = @ \cup {c.row}] ELSE signed
      /\ refused' = IF wrote /\ c.action = "REJECTED"
                    THEN [refused EXCEPT ![c.request] = @ \cup {c.row}] ELSE refused
      /\ UNCHANGED <<configVars, requestRow, skipped>>

ApprovedCount(q, k) ==
  Cardinality({r \in RowsAt(q, k) : stepRow[q][r].status = "APPROVED"})

\* Mutant: the quorum is compared with <=.
CountApprovals_OffByOne(h) ==
  LET c == call[h]
  IN  /\ c.pc = "count"
      /\ IF ApprovedCount(c.request, c.row.order) <= c.required
         THEN Goto(h, [c EXCEPT !.entity.status = "IN_PROGRESS"], "saveRequest")
         ELSE Goto(h, c, "scan")
      /\ UNCHANGED <<configVars, requestRow, stepRow, history>>

\* Mutant: the quorum is not checked.
CountApprovals_NoQuorum(h) ==
  /\ call[h].pc = "count"
  /\ Goto(h, call[h], "scan")
  /\ UNCHANGED <<configVars, requestRow, stepRow, history>>

\* enough parallel approvals at this order?
CountApprovals(h) ==
  LET c == call[h]
  IN  /\ c.pc = "count"
      /\ IF ApprovedCount(c.request, c.row.order) < c.required
         THEN Goto(h, [c EXCEPT !.entity.status = "IN_PROGRESS"], "saveRequest")
         ELSE Goto(h, c, "scan")
      /\ UNCHANGED <<configVars, requestRow, stepRow, history>>

\* read all steps of the request
ScanSteps(h) ==
  LET c == call[h]
  IN  /\ c.pc = "scan"
      /\ Goto(h, [c EXCEPT !.seen = stepRow[c.request]], "skip")
      /\ UNCHANGED <<configVars, requestRow, stepRow, history>>

\* later steps that are pending in the scan, and the first of them (any of
\* those with equal step_order)
LaterPending(c) == {r \in ConfigRows : /\ c.seen[r].status = "PENDING"
                                       /\ r.order > c.row.order}
NextPending_Any(c) == LaterPending(c) \* Mutant: not the lowest order first.
NextPending(c)  == {r \in LaterPending(c) :
                      \A s \in LaterPending(c) : r.order <= s.order}

\* Mutant: a step whose configuration row is missing counts as optional.
SkipOptional_Missing(h) ==
  LET c == call[h]
  IN  /\ c.pc = "skip"
      /\ \E s \in NextPending(c) : \E cs \in ConfigStepsFor(s.order) :
           /\ cs # NoRow => ~ cs.mandatory
           /\ Goto(h, [c EXCEPT !.target = s,
                                !.step = [c.seen[s] EXCEPT !.status = "SKIPPED"]],
                   "saveSkip")
      /\ UNCHANGED <<configVars, requestRow, stepRow, history>>

\* auto-skip: the next step is skipped when its configuration is optional
SkipOptional(h) ==
  LET c == call[h]
  IN  /\ c.pc = "skip"
      /\ \E s \in NextPending(c) : \E cs \in ConfigStepsFor(s.order) :
           /\ cs # NoRow /\ ~ cs.mandatory
           /\ Goto(h, [c EXCEPT !.target = s,
                                !.step = [c.seen[s] EXCEPT !.status = "SKIPPED"]],
                   "saveSkip")
      /\ UNCHANGED <<configVars, requestRow, stepRow, history>>

\* Mutant: the request is not moved to the step.
Advance_Stay(h) ==
  LET c == call[h]
  IN  /\ c.pc = "skip"
      /\ \E s \in NextPending(c) : \E cs \in ConfigStepsFor(s.order) :
           /\ cs # NoRow => cs.mandatory
           /\ Goto(h, [c EXCEPT !.entity.status = "IN_PROGRESS"], "saveRequest")
      /\ UNCHANGED <<configVars, requestRow, stepRow, history>>

\* the loop ends at a step that is not optional: the request waits for it
Advance(h) ==
  LET c == call[h]
  IN  /\ c.pc = "skip"
      /\ \E s \in NextPending(c) : \E cs \in ConfigStepsFor(s.order) :
           /\ cs # NoRow => cs.mandatory
           /\ Goto(h, [c EXCEPT !.entity.current_step = s.order,
                                !.entity.status = "IN_PROGRESS"], "saveRequest")
      /\ UNCHANGED <<configVars, requestRow, stepRow, history>>

\* no later step is pending: the request is approved
ApproveRequest(h) ==
  LET c == call[h]
  IN  /\ c.pc = "skip"
      /\ LaterPending(c) = {}
      /\ Goto(h, [c EXCEPT !.entity.status = "APPROVED",
                           !.entity.resolved_at = TRUE], "saveRequest")
      /\ UNCHANGED <<configVars, requestRow, stepRow, history>>

\* stepRepo.save(s) of a skipped step
SaveSkip(h) ==
  LET c == call[h]
  IN  /\ c.pc = "saveSkip"
      /\ IF Exists(c.request)
         THEN Goto(h, [c EXCEPT !.dirty =
                         DirtyStep(c.step, stepRow[c.request][c.target])],
                   "flushSkip")
         ELSE Finish(h)
      /\ UNCHANGED <<configVars, requestRow, stepRow, history>>

FlushSkip(h) ==
  LET c == call[h]
  IN  /\ c.pc = "flushSkip"
      /\ stepRow' = IF Exists(c.request)
                    THEN [stepRow EXCEPT ![c.request][c.target] =
                            MergeStep(@, c.step, c.dirty)]
                    ELSE stepRow
      /\ skipped' = IF Exists(c.request)
                    THEN [skipped EXCEPT ![c.request] = @ \cup {c.target}]
                    ELSE skipped
      /\ Goto(h, [c EXCEPT !.seen[c.target] = c.step], "skip")
      /\ UNCHANGED <<configVars, requestRow, signed, refused>>

\* requestRepo.save(request): the entity was loaded before all of the above
SaveRequest(h) ==
  LET c == call[h]
  IN  /\ c.pc = "saveRequest"
      /\ IF Exists(c.request)
         THEN Goto(h, [c EXCEPT !.dirty =
                         DirtyRequest(c.entity, requestRow[c.request])],
                   "flushRequest")
         ELSE Finish(h)
      /\ UNCHANGED <<configVars, requestRow, stepRow, history>>

FlushRequest(h) ==
  LET c == call[h]
  IN  /\ c.pc = "flushRequest"
      /\ requestRow' = IF Exists(c.request)
                       THEN [requestRow EXCEPT ![c.request] =
                               MergeRequest(@, c.entity, c.dirty)]
                       ELSE requestRow
      /\ Finish(h)
      /\ UNCHANGED <<configVars, stepRow, history>>

\* the process dies, or the database refuses a call, between two calls
Crash(h) ==
  /\ CrashesAllowed
  /\ call[h].pc # "idle"
  /\ Finish(h)
  /\ UNCHANGED <<configVars, requestRow, stepRow, history>>

-----------------------------------------------------------------------------
Continue(h) ==
  \/ Authorise(h) \/ SaveStep(h) \/ FlushStep(h) \/ CountApprovals(h)
  \/ ScanSteps(h) \/ SkipOptional(h) \/ Advance(h) \/ ApproveRequest(h)
  \/ SaveSkip(h) \/ FlushSkip(h) \/ SaveRequest(h) \/ FlushRequest(h)

Administer ==
  \/ \E cfg \in Configs : CreateConfig(cfg) \/ UpdateConfigSave(cfg)
  \/ ToggleConfig \/ UpdateConfigRead \/ UpdateConfigDelete \/ RemoveConfig

Act(q, r) == \E h \in Handlers, u \in Users, a \in {"APPROVED", "REJECTED"} :
                ProcessStep(h, q, r, u, a)

Next ==
  \/ Administer
  \/ \E q \in Requests, amount \in Amounts : Submit(q, amount)
  \/ \E q \in Requests, r \in ConfigRows : Act(q, r)
  \/ \E h \in Handlers : Continue(h) \/ Crash(h)

Spec == Init /\ [][Next]_vars

\* Handlers run to their end, and whoever a pending step waits for (its
\* approver; a super administrator where the approver is a role) keeps
\* answering: SF, because the handler may be busy with another call.
Answer(q, r) == \E h \in Handlers, u \in Users, a \in {"APPROVED", "REJECTED"} :
                   /\ u = r.approver \/ (r.approver = NoUser /\ u \in SuperAdmins)
                   /\ ProcessStep(h, q, r, u, a)

Fairness == /\ \A h \in Handlers : WF_vars(Continue(h))
            /\ \A q \in Requests, r \in ConfigRows : SF_vars(Answer(q, r))

FairSpec == Spec /\ Fairness

-----------------------------------------------------------------------------
(* Properties *)

TypeOK ==
  /\ life \in {"absent", "live", "removed"}
  /\ active \in BOOLEAN
  /\ rows \in SUBSET ConfigRows
  /\ editor \in {"idle", "delete", "save"}
  /\ requestRow \in [Requests -> RequestRows]
  /\ stepRow \in [Requests -> [ConfigRows -> StepRows]]
  /\ call \in [Handlers -> Calls]
  /\ signed \in [Requests -> SUBSET ConfigRows]
  /\ refused \in [Requests -> SUBSET ConfigRows]
  /\ skipped \in [Requests -> SUBSET ConfigRows]

\* n approvals are enough at order k under a configuration that may be read
Sufficient(n, k) ==
  \E cfg \in Configs :
    LET at == {r \in cfg : r.order = k}
    IN  IF at = {} THEN n >= 1 ELSE \E r \in at : n >= r.required

\* some configuration has order k as optional
Optional(k) == \E cfg \in Configs : \E r \in cfg : r.order = k /\ ~ r.mandatory

\* The steps of request q at order k were signed by as many as the
\* configuration asks for, or each of them was signed, refused or, where the
\* order is optional, skipped.
Settled(q, k) ==
  \/ Sufficient(Cardinality({r \in RowsAt(q, k) : r \in signed[q]}), k)
  \/ \A r \in RowsAt(q, k) : \/ r \in signed[q] \cup refused[q]
                             \/ r \in skipped[q] /\ Optional(k)

\* No order is jumped, whatever handlers interleave, crash or write stale
\* entities back and whatever the administrator edits: a request stands at an
\* order only when all lower ones are settled, and is APPROVED only when all
\* are (the skip-level guard and the advance of processStep).
NoUnsignedAdvance ==
  \A q \in Requests : Exists(q) =>
    \A k \in {r.order : r \in RowsOf(q)} :
      k < requestRow[q].current_step \/ requestRow[q].status = "APPROVED"
        => Settled(q, k)

\* An APPROVED request bears, at every order, as many APPROVED steps as its
\* configuration asks for, or a skipped optional step, and no REJECTED one: the
\* steps stored agree with the decision stored.  For serialised handlers.
ApprovedMeansSigned ==
  \A q \in Requests : requestRow[q].status = "APPROVED" =>
    \A r \in RowsOf(q) :
      \/ stepRow[q][r].status = "SKIPPED" /\ ~ r.mandatory
      \/ stepRow[q][r].status = "APPROVED"
         /\ ApprovedCount(q, r.order) >= r.required

\* A request that is not decided, while no call is in progress, stands at an
\* order that still has a pending step: someone can move it.
NotStranded ==
  (\A h \in Handlers : call[h].pc = "idle") =>
    \A q \in Requests : requestRow[q].status \in {"PENDING", "IN_PROGRESS"} =>
      \E r \in RowsAt(q, requestRow[q].current_step) :
        stepRow[q][r].status = "PENDING"

Decided == {"APPROVED", "REJECTED"}

\* What the modules that submit requests rely on (ApprovalPromise): a request is
\* opened once, is decided once, and keeps its decision while it exists.  For
\* one approver an order and handlers that run one at a time.
Promise == INSTANCE ApprovalPromise WITH
  Asked   <- Requests,
  outcome <- [q \in Requests |-> requestRow[q].status]
KeepsPromise == Promise!Spec

\* "REJECT -> the whole request is rejected": a refused request stays refused.
RejectionFinal ==
  [][\A q \in Requests : requestRow[q].status = "REJECTED" =>
       requestRow'[q].status \in {"REJECTED", "DELETED"}]_vars

\* Every request submitted is decided in the end.
EveryRequestDecided ==
  \A q \in Requests : Exists(q) ~> requestRow[q].status \in Decided \cup {"DELETED"}
=============================================================================
