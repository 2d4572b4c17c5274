---------------------------- MODULE ApprovalProofs ----------------------------
(***************************************************************************)
(* Theorems about ApprovalWorkflow, for every set of users, handlers,      *)
(* requests and configurations:                                            *)
(*   TypeCorrect   Spec => []TypeOK                                        *)
(*   LevelsSettled Spec => []NoUnsignedAdvance                             *)
(* and, where the handlers run one at a time and every order of a          *)
(* configuration asks for one approver (Serial, SingleChains),             *)
(*   ApprovedSigned Spec => []ApprovedMeansSigned                          *)
(*   NeverStranded  Spec => []NotStranded, when no call dies midway        *)
(*   PromiseKept    Spec => KeepsPromise, that is, of ApprovalPromise     *)
(***************************************************************************)
EXTENDS ApprovalWorkflow, FiniteSetTheorems, TLAPS

-----------------------------------------------------------------------------
(* Type correctness *)

\* The value of an idle handler has the type of a call.
LEMMA IdleCallType == IdleCall \in Calls
  BY NonemptyAssumption
     DEF IdleCall, Calls, PCs, NoRequest, NoSteps, NoStep, RequestRows,
         RequestStatus, StepRows, StepStatus

\* Writing the changed columns of an entity keeps the row's type.
LEMMA MergeType ==
  /\ \A row, e \in RequestRows : \A d : MergeRequest(row, e, d) \in RequestRows
  /\ \A row, e \in StepRows : \A d : MergeStep(row, e, d) \in StepRows
  BY DEF MergeRequest, MergeStep, RequestRows, StepRows

\* Initially every variable has its type.
LEMMA InitType == Init => TypeOK
  <1>1. NoRequest \in RequestRows /\ NoSteps \in [ConfigRows -> StepRows]
    BY DEF NoRequest, NoSteps, NoStep, RequestRows, StepRows
  <1> QED
    BY <1>1, IdleCallType DEF Init, TypeOK

\* The administrator's operations and a submission keep the types.
LEMMA AdministerType == TypeOK /\ Administer => TypeOK'
  <1> SUFFICES ASSUME TypeOK, Administer PROVE TypeOK'
    OBVIOUS
  <1> USE DEF TypeOK
  <1>1. ASSUME NEW cfg \in Configs, CreateConfig(cfg) PROVE TypeOK'
    BY <1>1, ConfigAssumption DEF CreateConfig, history
  <1>2. ASSUME NEW cfg \in Configs, UpdateConfigSave(cfg) PROVE TypeOK'
    BY <1>2, ConfigAssumption DEF UpdateConfigSave, history
  <1>3. CASE ToggleConfig
    BY <1>3 DEF ToggleConfig, history
  <1>4. CASE UpdateConfigRead
    BY <1>4 DEF UpdateConfigRead, history
  <1>5. CASE UpdateConfigDelete
    BY <1>5 DEF UpdateConfigDelete, history
  <1>6. CASE RemoveConfig
    BY <1>6 DEF RemoveConfig, history, NoRequest, NoSteps, NoStep,
                RequestRows, StepRows, StepStatus
  <1> QED
    BY <1>1, <1>2, <1>3, <1>4, <1>5, <1>6 DEF Administer

LEMMA SubmitType ==
  ASSUME TypeOK, NEW q \in Requests, NEW amount \in Amounts, Submit(q, amount)
  PROVE  TypeOK'
  <1>1. requestRow' \in [Requests -> RequestRows]
    <2>1. PICK first \in ResolveStepsForAmount(rows, amount) :
            requestRow' = [requestRow EXCEPT ![q] =
              [status |-> "PENDING", current_step |-> first.order,
               resolved_at |-> FALSE]]
      BY DEF Submit
    <2>2. first \in ConfigRows
      BY <2>1 DEF ResolveStepsForAmount, TypeOK
    <2>3. first.order \in Nat
      BY <2>2, ConfigAssumption DEF ConfigRow
    <2> QED
      BY <2>1, <2>3 DEF TypeOK, RequestRows, RequestStatus
  <1>2. stepRow' \in [Requests -> [ConfigRows -> StepRows]]
    <2>1. \A r \in ConfigRows : r.approver \in Users \cup {NoUser}
      BY ConfigAssumption DEF ConfigRow
    <2> QED
      BY <2>1 DEF Submit, TypeOK, StepRows, StepStatus, NoStep
  <1> QED
    BY <1>1, <1>2 DEF TypeOK, Submit, configVars, history

\* Starting a call, and ending or killing one, keep the types.
LEMMA ProcessStepType ==
  ASSUME TypeOK, NEW h \in Handlers, NEW q \in Requests, NEW r \in ConfigRows,
         NEW u \in Users, NEW a \in {"APPROVED", "REJECTED"},
         ProcessStep(h, q, r, u, a)
  PROVE  TypeOK'
  <1> DEFINE c == [IdleCall EXCEPT !.pc = "authorise", !.request = q, !.row = r,
                     !.user = u, !.action = a,
                     !.entity = requestRow[q], !.step = stepRow[q][r]]
  <1>1. requestRow[q] \in RequestRows /\ stepRow[q][r] \in StepRows
    BY DEF TypeOK
  <1>2. c \in Calls
    BY <1>1, IdleCallType DEF Calls, PCs
  <1>3. call' = [call EXCEPT ![h] = c]
    BY DEF ProcessStep
  <1>4. call' \in [Handlers -> Calls]
    BY <1>2, <1>3 DEF TypeOK
  <1> QED
    BY <1>4 DEF ProcessStep, TypeOK, configVars, history

LEMMA FinishType ==
  ASSUME TypeOK, NEW h \in Handlers, Finish(h)
  PROVE  call' \in [Handlers -> Calls]
  BY IdleCallType DEF Finish, TypeOK

LEMMA GotoType ==
  ASSUME TypeOK, NEW h \in Handlers, NEW c \in Calls, NEW pc \in PCs,
         Goto(h, c, pc)
  PROVE  call' \in [Handlers -> Calls]
  BY DEF Goto, TypeOK, Calls

\* Each repository call of processStep keeps the types.
LEMMA ContinueType ==
  ASSUME TypeOK, NEW h \in Handlers, Continue(h)
  PROVE  TypeOK'
  <1> DEFINE c == call[h]
  <1>c. c \in Calls
    BY DEF TypeOK
  <1>d. /\ c.request \in Requests /\ c.row \in ConfigRows /\ c.target \in ConfigRows
        /\ c.user \in Users /\ c.action \in {"APPROVED", "REJECTED"}
        /\ c.entity \in RequestRows /\ c.step \in StepRows
        /\ c.seen \in [ConfigRows -> StepRows]
    BY <1>c DEF Calls
  <1>1. CASE Authorise(h)
    <2>1. PICK cs \in ConfigStepsFor(c.row.order) :
            IF MayAct(c, cs)
            THEN Goto(h, [c EXCEPT !.required = RequiredCount(cs),
                                   !.step = [status |-> c.action,
                                             approver_id |-> c.user]], "saveStep")
            ELSE Finish(h)
      BY <1>1 DEF Authorise
    <2>2. RequiredCount(cs) \in Nat
      BY <2>1, ConfigAssumption DEF ConfigStepsFor, RequiredCount, TypeOK, ConfigRow
    <2>3. [status |-> c.action, approver_id |-> c.user] \in StepRows
      BY <1>d DEF StepRows, StepStatus
    <2>4. [c EXCEPT !.required = RequiredCount(cs),
                    !.step = [status |-> c.action, approver_id |-> c.user]] \in Calls
      BY <1>c, <2>2, <2>3 DEF Calls
    <2>5. call' \in [Handlers -> Calls]
      BY <2>1, <2>4, GotoType, FinishType DEF PCs
    <2> QED
      BY <1>1, <2>5 DEF Authorise, TypeOK, configVars, history
  <1>2. CASE SaveStep(h)
    <2>1. [c EXCEPT !.dirty = DirtyStep(c.step, stepRow[c.request][c.row])] \in Calls
      BY <1>c DEF Calls, DirtyStep
    <2>2. call' \in [Handlers -> Calls]
      BY <1>2, <2>1, GotoType, FinishType DEF SaveStep, PCs
    <2> QED
      BY <1>2, <2>2 DEF SaveStep, TypeOK, configVars, history
  <1>3. CASE FlushStep(h)
    <2>1. [c EXCEPT !.entity.status = "REJECTED", !.entity.resolved_at = TRUE] \in Calls
      BY <1>c, <1>d DEF Calls, RequestRows, RequestStatus
    <2>2. call' \in [Handlers -> Calls]
      BY <1>3, <1>c, <2>1, GotoType DEF FlushStep, PCs
    <2>3. stepRow' \in [Requests -> [ConfigRows -> StepRows]]
      BY <1>3, <1>d, MergeType DEF FlushStep, TypeOK
    <2> QED
      BY <1>3, <1>d, <2>2, <2>3 DEF FlushStep, TypeOK, configVars
  <1>4. CASE CountApprovals(h)
    <2>1. [c EXCEPT !.entity.status = "IN_PROGRESS"] \in Calls
      BY <1>c, <1>d DEF Calls, RequestRows, RequestStatus
    <2>2. call' \in [Handlers -> Calls]
      BY <1>4, <1>c, <2>1, GotoType DEF CountApprovals, PCs
    <2> QED
      BY <1>4, <2>2 DEF CountApprovals, TypeOK, configVars, history
  <1>5. CASE ScanSteps(h)
    <2>1. [c EXCEPT !.seen = stepRow[c.request]] \in Calls
      BY <1>c, <1>d DEF Calls, TypeOK
    <2>2. call' \in [Handlers -> Calls]
      BY <1>5, <2>1, GotoType DEF ScanSteps, PCs
    <2> QED
      BY <1>5, <2>2 DEF ScanSteps, TypeOK, configVars, history
  <1>6. CASE SkipOptional(h)
    <2>1. PICK s \in NextPending(c) :
            Goto(h, [c EXCEPT !.target = s,
                              !.step = [c.seen[s] EXCEPT !.status = "SKIPPED"]],
                 "saveSkip")
      BY <1>6 DEF SkipOptional
    <2>2. s \in ConfigRows
      BY <2>1 DEF NextPending, LaterPending
    <2>3. [c.seen[s] EXCEPT !.status = "SKIPPED"] \in StepRows
      BY <1>d, <2>2 DEF StepRows, StepStatus
    <2>4. [c EXCEPT !.target = s,
                    !.step = [c.seen[s] EXCEPT !.status = "SKIPPED"]] \in Calls
      BY <1>c, <2>2, <2>3 DEF Calls
    <2>5. call' \in [Handlers -> Calls]
      BY <2>1, <2>4, GotoType DEF PCs
    <2> QED
      BY <1>6, <2>5 DEF SkipOptional, TypeOK, configVars, history
  <1>7. CASE Advance(h)
    <2>1. PICK s \in NextPending(c) :
            Goto(h, [c EXCEPT !.entity.current_step = s.order,
                              !.entity.status = "IN_PROGRESS"], "saveRequest")
      BY <1>7 DEF Advance
    <2>2. s.order \in Nat
      BY <2>1, ConfigAssumption DEF NextPending, LaterPending, ConfigRow
    <2>3. [c EXCEPT !.entity.current_step = s.order,
                    !.entity.status = "IN_PROGRESS"] \in Calls
      BY <1>c, <1>d, <2>2 DEF Calls, RequestRows, RequestStatus
    <2>4. call' \in [Handlers -> Calls]
      BY <2>1, <2>3, GotoType DEF PCs
    <2> QED
      BY <1>7, <2>4 DEF Advance, TypeOK, configVars, history
  <1>8. CASE ApproveRequest(h)
    <2>1. [c EXCEPT !.entity.status = "APPROVED", !.entity.resolved_at = TRUE] \in Calls
      BY <1>c, <1>d DEF Calls, RequestRows, RequestStatus
    <2>2. call' \in [Handlers -> Calls]
      BY <1>8, <2>1, GotoType DEF ApproveRequest, PCs
    <2> QED
      BY <1>8, <2>2 DEF ApproveRequest, TypeOK, configVars, history
  <1>9. CASE SaveSkip(h)
    <2>1. [c EXCEPT !.dirty = DirtyStep(c.step, stepRow[c.request][c.target])] \in Calls
      BY <1>c DEF Calls, DirtyStep
    <2>2. call' \in [Handlers -> Calls]
      BY <1>9, <2>1, GotoType, FinishType DEF SaveSkip, PCs
    <2> QED
      BY <1>9, <2>2 DEF SaveSkip, TypeOK, configVars, history
  <1>10. CASE FlushSkip(h)
    <2>1. [c EXCEPT !.seen[c.target] = c.step] \in Calls
      BY <1>c, <1>d DEF Calls
    <2>2. call' \in [Handlers -> Calls]
      BY <1>10, <2>1, GotoType DEF FlushSkip, PCs
    <2>3. stepRow' \in [Requests -> [ConfigRows -> StepRows]]
      BY <1>10, <1>d, MergeType DEF FlushSkip, TypeOK
    <2> QED
      BY <1>10, <1>d, <2>2, <2>3 DEF FlushSkip, TypeOK, configVars
  <1>11. CASE SaveRequest(h)
    <2>1. [c EXCEPT !.dirty = DirtyRequest(c.entity, requestRow[c.request])] \in Calls
      BY <1>c DEF Calls, DirtyRequest
    <2>2. call' \in [Handlers -> Calls]
      BY <1>11, <2>1, GotoType, FinishType DEF SaveRequest, PCs
    <2> QED
      BY <1>11, <2>2 DEF SaveRequest, TypeOK, configVars, history
  <1>12. CASE FlushRequest(h)
    <2>1. call' \in [Handlers -> Calls]
      BY <1>12, FinishType DEF FlushRequest
    <2>2. requestRow' \in [Requests -> RequestRows]
      BY <1>12, <1>d, MergeType DEF FlushRequest, TypeOK
    <2> QED
      BY <1>12, <2>1, <2>2 DEF FlushRequest, TypeOK, configVars, history
  <1> QED
    BY <1>1, <1>2, <1>3, <1>4, <1>5, <1>6, <1>7, <1>8, <1>9, <1>10, <1>11, <1>12
       DEF Continue

LEMMA StepType == TypeOK /\ [Next]_vars => TypeOK'
  <1> SUFFICES ASSUME TypeOK, [Next]_vars PROVE TypeOK'
    OBVIOUS
  <1>1. CASE Administer
    BY <1>1, AdministerType
  <1>2. ASSUME NEW q \in Requests, NEW amount \in Amounts, Submit(q, amount)
        PROVE  TypeOK'
    BY <1>2, SubmitType
  <1>3. ASSUME NEW q \in Requests, NEW r \in ConfigRows, Act(q, r)
        PROVE  TypeOK'
    BY <1>3, ProcessStepType DEF Act
  <1>4. ASSUME NEW h \in Handlers, Continue(h) PROVE TypeOK'
    BY <1>4, ContinueType
  <1>5. ASSUME NEW h \in Handlers, Crash(h) PROVE TypeOK'
    BY <1>5, FinishType DEF Crash, TypeOK, configVars, history
  <1>6. CASE UNCHANGED vars
    BY <1>6 DEF vars, TypeOK
  <1> QED
    BY <1>1, <1>2, <1>3, <1>4, <1>5, <1>6 DEF Next

\* Every variable of the workflow keeps its type: no write of processStep, of
\* the administrator or of a submission leaves the columns' domains.
THEOREM TypeCorrect == Spec => []TypeOK
  BY InitType, StepType, PTL DEF Spec

-----------------------------------------------------------------------------
(* No order is jumped: the inductive invariant *)

\* the orders of q lower than k, respectively all its orders, are settled
Below(q, k)   == \A r \in RowsOf(q) : r.order < k => Settled(q, r.order)
AllSettled(q) == \A r \in RowsOf(q) : Settled(q, r.order)

SignedEnough(q, k) ==
  Sufficient(Cardinality({r \in RowsAt(q, k) : r \in signed[q]}), k)

\* n is a required_count that some configuration gives order k
Legit(n, k) ==
  \E cfg \in Configs :
    LET at == {r \in cfg : r.order = k}
    IN  IF at = {} THEN n = 1 ELSE \E r \in at : n = r.required

\* a status of step r that was stored once left its mark in the history
Marked(q, r, status) ==
  /\ status = "APPROVED" => r \in signed[q]
  /\ status = "REJECTED" => r \in refused[q]
  /\ status = "SKIPPED"  => r \in skipped[q]

ConfigInv ==
  /\ life = "absent" => \A q \in Requests : requestRow[q].status = "NONE"
  /\ life # "absent" => rows \in Configs
  /\ editor # "idle" => {} \in Configs

\* what a stored or loaded request row claims of request q
EntityInv(q, e) == Below(q, e.current_step) /\ (e.status = "APPROVED" => AllSettled(q))

RequestInv == \A q \in Requests : Exists(q) => EntityInv(q, requestRow[q])

StepInv ==
  /\ \A q \in Requests, r \in ConfigRows : Marked(q, r, stepRow[q][r].status)
  /\ \A q \in Requests : \A r \in skipped[q] : Optional(r.order)

\* A call in progress holds a row and an entity that are true of the request
\* even though they are old; settled orders stay settled.
Claim(c) ==
  LET q == c.request
  IN  c.pc # "idle" =>
        /\ requestRow[q].status # "NONE"
        /\ Exists(q) =>
             /\ c.row \in RowsOf(q)
             /\ Below(q, c.row.order)
             /\ c.entity.status \in RequestStatus
             /\ EntityInv(q, c.entity)
             /\ c.pc # "authorise" => Legit(c.required, c.row.order)
             /\ c.pc \in {"saveStep", "flushStep"} => c.step.status = c.action
             /\ c.pc \in {"scan", "skip", "saveSkip", "flushSkip"} =>
                  SignedEnough(q, c.row.order)
             /\ c.pc \in {"skip", "saveSkip", "flushSkip"} =>
                  \A r \in ConfigRows :
                    /\ c.seen[r].status = "NONE" <=> r \notin RowsOf(q)
                    /\ Marked(q, r, c.seen[r].status)
             /\ c.pc \in {"saveSkip", "flushSkip"} =>
                  /\ c.target \in RowsOf(q)
                  /\ c.step.status = "SKIPPED"
                  /\ Optional(c.target.order)

CallInv(h) == Claim(call[h])

LevelInv ==
  /\ TypeOK
  /\ ConfigInv
  /\ RequestInv
  /\ StepInv
  /\ \A h \in Handlers : CallInv(h)

\* The step set of q and its marks only grow between two states.
Kept(q) ==
  /\ Exists(q)
  /\ \A r \in ConfigRows :
       stepRow'[q][r].status = "NONE" <=> stepRow[q][r].status = "NONE"
  /\ signed[q] \subseteq signed'[q]
  /\ refused[q] \subseteq refused'[q]
  /\ skipped[q] \subseteq skipped'[q]

\* More signatures are enough where fewer are.
LEMMA SufficientMonotone ==
  ASSUME NEW m \in Nat, NEW n \in Nat, m <= n, NEW k, Sufficient(m, k)
  PROVE  Sufficient(n, k)
  <1>1. PICK cfg \in Configs :
          LET at == {r \in cfg : r.order = k}
          IN  IF at = {} THEN m >= 1 ELSE \E r \in at : m >= r.required
    BY DEF Sufficient
  <1> DEFINE at == {r \in cfg : r.order = k}
  <1>2. \A r \in at : r.required \in Nat
    BY ConfigAssumption DEF ConfigRow
  <1>3. IF at = {} THEN n >= 1 ELSE \E r \in at : n >= r.required
    BY <1>1, <1>2
  <1> QED
    BY <1>3 DEF Sufficient

\* A required_count that a configuration gives, once reached, suffices.
LEMMA LegitSuffices ==
  ASSUME NEW m \in Nat, NEW n \in Nat, m <= n, NEW k, Legit(m, k)
  PROVE  Sufficient(n, k)
  <1>1. PICK cfg \in Configs :
          LET at == {r \in cfg : r.order = k}
          IN  IF at = {} THEN m = 1 ELSE \E r \in at : m = r.required
    BY DEF Legit
  <1> DEFINE at == {r \in cfg : r.order = k}
  <1>2. IF at = {} THEN n >= 1 ELSE \E r \in at : n >= r.required
    BY <1>1
  <1> QED
    BY <1>2 DEF Sufficient

\* Settled orders stay settled while the marks grow.
LEMMA KeptSettled ==
  ASSUME TypeOK, TypeOK', NEW q \in Requests, Kept(q)
  PROVE  /\ RowsOf(q)' = RowsOf(q)
         /\ \A k : RowsAt(q, k)' = RowsAt(q, k)
         /\ \A k : SignedEnough(q, k) => SignedEnough(q, k)'
         /\ \A k : Settled(q, k) => Settled(q, k)'
  <1>1. RowsOf(q)' = RowsOf(q)
    BY DEF Kept, RowsOf
  <1>2. \A k : RowsAt(q, k)' = RowsAt(q, k)
    BY <1>1 DEF RowsAt
  <1>3. ASSUME NEW k, SignedEnough(q, k) PROVE SignedEnough(q, k)'
    <2> DEFINE A == {r \in RowsAt(q, k) : r \in signed[q]}
               B == {r \in RowsAt(q, k)' : r \in signed'[q]}
    <2>1. A \in SUBSET B
      BY <1>2 DEF Kept
    <2>2. B \in SUBSET ConfigRows
      BY DEF RowsAt, RowsOf
    <2>3. IsFiniteSet(A) /\ IsFiniteSet(B) /\ Cardinality(A) <= Cardinality(B)
      BY <2>1, <2>2, FS_Subset, ConfigAssumption
    <2>4. Cardinality(A) \in Nat /\ Cardinality(B) \in Nat
      BY <2>3, FS_CardinalityType
    <2>5. Sufficient(Cardinality(A), k)
      BY <1>3 DEF SignedEnough
    <2>6. Sufficient(Cardinality(B), k)
      BY <2>3, <2>4, <2>5, SufficientMonotone
    <2> QED
      BY <2>6 DEF SignedEnough, Sufficient
  <1>4. ASSUME NEW k, Settled(q, k) PROVE Settled(q, k)'
    <2>1. CASE SignedEnough(q, k)
      BY <2>1, <1>3 DEF Settled, SignedEnough
    <2>2. CASE \A r \in RowsAt(q, k) : \/ r \in signed[q] \cup refused[q]
                                       \/ r \in skipped[q] /\ Optional(k)
      <3>1. \A r \in RowsAt(q, k)' : \/ r \in signed'[q] \cup refused'[q]
                                     \/ r \in skipped'[q] /\ Optional(k)
        BY <2>2, <1>2 DEF Kept
      <3> QED
        BY <3>1 DEF Settled, Optional
    <2> QED
      BY <1>4, <2>1, <2>2 DEF Settled, SignedEnough
  <1> QED
    BY <1>1, <1>2, <1>3, <1>4

\* So do the claims made of loaded and stored rows.
LEMMA KeptClaims ==
  ASSUME TypeOK, TypeOK', NEW q \in Requests, Kept(q)
  PROVE  /\ \A k : Below(q, k) => Below(q, k)'
         /\ AllSettled(q) => AllSettled(q)'
         /\ \A r, status : Marked(q, r, status) => Marked(q, r, status)'
  <1>1. /\ RowsOf(q)' = RowsOf(q)
        /\ \A k : Settled(q, k) => Settled(q, k)'
    BY KeptSettled
  <1>2. \A k : Below(q, k) => Below(q, k)'
    BY <1>1 DEF Below
  <1>3. AllSettled(q) => AllSettled(q)'
    BY <1>1 DEF AllSettled
  <1>4. \A r, status : Marked(q, r, status) => Marked(q, r, status)'
    BY DEF Marked, Kept
  <1> QED
    BY <1>2, <1>3, <1>4

\* A call keeps its claims while its request keeps its marks.
LEMMA ClaimKept ==
  ASSUME TypeOK, TypeOK', NEW d, d.request \in Requests, Claim(d),
         d.pc # "idle" => /\ requestRow'[d.request].status # "NONE"
                          /\ Exists(d.request)' => Kept(d.request)
  PROVE  Claim(d)'
  <1> DEFINE q == d.request
  <1> SUFFICES ASSUME d.pc # "idle", Exists(q)' PROVE Claim(d)'
    BY DEF Claim
  <1>1. q \in Requests /\ Kept(q) /\ Exists(q)
    BY DEF Kept
  <1>2. /\ RowsOf(q)' = RowsOf(q)
        /\ \A k : SignedEnough(q, k) => SignedEnough(q, k)'
    BY <1>1, KeptSettled
  <1>3. /\ \A k : Below(q, k) => Below(q, k)'
        /\ AllSettled(q) => AllSettled(q)'
        /\ \A r, status : Marked(q, r, status) => Marked(q, r, status)'
    BY <1>1, KeptClaims
  <1>4. EntityInv(q, d.entity) => EntityInv(q, d.entity)'
    BY <1>3 DEF EntityInv
  <1> QED
    BY <1>1, <1>2, <1>3, <1>4 DEF Claim, Legit, Optional

\* The claims of all calls, after a step that leaves call h with record d.
LEMMA CallsKept ==
  ASSUME TypeOK, TypeOK', \A g \in Handlers : CallInv(g),
         \A q \in Requests : requestRow[q].status # "NONE" =>
            requestRow'[q].status # "NONE" /\ (Exists(q)' => Kept(q)),
         NEW h \in Handlers, NEW d, Claim(d)', call' = [call EXCEPT ![h] = d]
  PROVE  (\A g \in Handlers : CallInv(g))'
  <1> SUFFICES ASSUME NEW g \in Handlers PROVE CallInv(g)'
    OBVIOUS
  <1>1. CASE g = h
    <2>1. call'[g] = d
      BY <1>1 DEF TypeOK
    <2> QED
      BY <2>1 DEF CallInv
  <1>2. CASE g # h
    <2>1. PICK e : e = call[g]
      OBVIOUS
    <2>2. call'[g] = e /\ e.request \in Requests /\ Claim(e)
      BY <1>2, <2>1 DEF TypeOK, Calls, CallInv
    <2>3. e.pc # "idle" => requestRow[e.request].status # "NONE"
      BY <2>2 DEF Claim
    <2>4. Claim(e)'
      BY <2>2, <2>3, ClaimKept
    <2> QED
      BY <2>2, <2>4 DEF CallInv
  <1> QED
    BY <1>1, <1>2

\* The stored rows keep their claims while nothing is written to them.
LEMMA RowsKept ==
  ASSUME TypeOK, TypeOK', NEW q \in Requests, Kept(q),
         requestRow'[q] = requestRow[q], EntityInv(q, requestRow[q])
  PROVE  EntityInv(q, requestRow[q])'
  BY KeptClaims DEF EntityInv

\* A step that writes nothing but the local variables of one call.
LEMMA QuietStep ==
  ASSUME LevelInv, TypeOK', NEW h \in Handlers, NEW d, Claim(d),
         d.request \in Requests,
         call' = [call EXCEPT ![h] = d],
         UNCHANGED <<configVars, requestRow, stepRow, history>>
  PROVE  LevelInv'
  <1>1. /\ UNCHANGED <<life, rows, editor, requestRow, stepRow, signed, refused, skipped>>
        /\ TypeOK
    BY DEF configVars, history, LevelInv
  <1>2. \A q \in Requests : /\ Exists(q)' <=> Exists(q)
                            /\ Exists(q) => Kept(q)
    BY <1>1 DEF Kept, Exists
  <1>3. ConfigInv'
    BY <1>1 DEF LevelInv, ConfigInv
  <1>4. RequestInv'
    BY <1>1, <1>2, RowsKept DEF LevelInv, RequestInv
  <1>5. StepInv'
    BY <1>1 DEF LevelInv, StepInv, Marked, Optional
  <1>6. Claim(d)'
    BY <1>1, <1>2, ClaimKept DEF Claim
  <1>7. (\A g \in Handlers : CallInv(g))'
    BY <1>1, <1>2, <1>6, CallsKept DEF LevelInv
  <1> QED
    BY <1>3, <1>4, <1>5, <1>7 DEF LevelInv

\* An idle call claims nothing.
LEMMA IdleClaim == Claim(IdleCall) /\ Claim(IdleCall)' /\ IdleCall.request \in Requests
  BY NonemptyAssumption DEF Claim, IdleCall

LEMMA LevelInit == Init => LevelInv
  <1> SUFFICES ASSUME Init PROVE LevelInv
    OBVIOUS
  <1>1. TypeOK
    BY InitType
  <1>2. ConfigInv /\ RequestInv /\ StepInv
    BY DEF Init, ConfigInv, RequestInv, StepInv, Exists, RequestStatus, NoRequest,
           NoSteps, NoStep, Marked
  <1>3. \A h \in Handlers : CallInv(h)
    BY IdleClaim DEF Init, CallInv
  <1> QED
    BY <1>1, <1>2, <1>3 DEF LevelInv

\* The row of the call is one of its request's rows; loading it takes over what
\* the stored request claims.
LEMMA ProcessStepLevel ==
  ASSUME LevelInv, TypeOK', NEW h \in Handlers, NEW q \in Requests,
         NEW r \in ConfigRows, NEW u \in Users, NEW a \in {"APPROVED", "REJECTED"},
         ProcessStep(h, q, r, u, a)
  PROVE  LevelInv'
  <1>1. PICK d : d = [IdleCall EXCEPT !.pc = "authorise", !.request = q, !.row = r,
                     !.user = u, !.action = a,
                     !.entity = requestRow[q], !.step = stepRow[q][r]]
    OBVIOUS
  <1>2. /\ d.pc = "authorise" /\ d.request = q /\ d.row = r
        /\ d.entity = requestRow[q]
    BY <1>1 DEF IdleCall
  <1>3. /\ Exists(q) /\ stepRow[q][r].status = "PENDING"
        /\ r.order = requestRow[q].current_step
    BY DEF ProcessStep
  <1>4. EntityInv(q, requestRow[q])
    BY <1>3 DEF LevelInv, RequestInv
  <1>5. requestRow[q].status # "NONE" /\ r \in RowsOf(q) /\ Below(q, r.order)
    BY <1>3, <1>4 DEF Exists, RequestStatus, RowsOf, EntityInv
  <1>6. Claim(d)
    BY <1>2, <1>3, <1>4, <1>5 DEF Claim, Exists
  <1> QED
    BY <1>1, <1>2, <1>6, QuietStep DEF ProcessStep

\* The required_count read is that of a configuration.
LEMMA AuthoriseLevel ==
  ASSUME LevelInv, TypeOK', NEW h \in Handlers, Authorise(h)
  PROVE  LevelInv'
  <1>1. PICK c : c = call[h]
    OBVIOUS
  <1>2. c \in Calls /\ Claim(c) /\ c.pc = "authorise"
    BY <1>1 DEF LevelInv, TypeOK, CallInv, Authorise
  <1>3. PICK cs \in ConfigStepsFor(c.row.order) :
          IF MayAct(c, cs)
          THEN Goto(h, [c EXCEPT !.required = RequiredCount(cs),
                                 !.step = [status |-> c.action,
                                           approver_id |-> c.user]], "saveStep")
          ELSE Finish(h)
    BY <1>1 DEF Authorise
  <1>4. CASE Finish(h)
    BY <1>4, IdleClaim, QuietStep DEF Finish, Authorise
  <1>5. CASE ~ Finish(h)
    <2>1. PICK d : d = [c EXCEPT !.required = RequiredCount(cs),
                                 !.step = [status |-> c.action,
                                           approver_id |-> c.user],
                                 !.pc = "saveStep"]
      OBVIOUS
    <2>2. call' = [call EXCEPT ![h] = d]
      BY <1>3, <1>5, <2>1, <1>2 DEF Goto, Calls
    <2>3. /\ d.pc = "saveStep" /\ d.request = c.request /\ d.row = c.row
          /\ d.entity = c.entity /\ d.required = RequiredCount(cs)
          /\ d.step.status = d.action
      BY <1>2, <2>1 DEF Calls
    <2>4. rows \in Configs
      BY <1>2 DEF LevelInv, ConfigInv, Claim, Calls
    <2>5. Legit(RequiredCount(cs), c.row.order)
      BY <1>3, <2>4, ConfigAssumption DEF Legit, RequiredCount, ConfigStepsFor
    <2>6. Claim(d)
      BY <1>2, <2>3, <2>5 DEF Claim
    <2> QED
      BY <1>2, <2>2, <2>3, <2>6, QuietStep DEF Authorise, Calls
  <1> QED
    BY <1>4, <1>5

\* The three SELECTs of save() change nothing a call claims.
LEMMA SaveLevel ==
  ASSUME LevelInv, TypeOK', NEW h \in Handlers,
         SaveStep(h) \/ SaveSkip(h) \/ SaveRequest(h)
  PROVE  LevelInv'
  <1>1. PICK c : c = call[h]
    OBVIOUS
  <1>2. c \in Calls /\ Claim(c)
    BY <1>1 DEF LevelInv, TypeOK, CallInv
  <1>3. UNCHANGED <<configVars, requestRow, stepRow, history>>
    BY DEF SaveStep, SaveSkip, SaveRequest
  <1>4. PICK dirty, pc :
          /\ \/ c.pc = "saveStep" /\ pc = "flushStep"
             \/ c.pc = "saveSkip" /\ pc = "flushSkip"
             \/ c.pc = "saveRequest" /\ pc = "flushRequest"
          /\ Goto(h, [c EXCEPT !.dirty = dirty], pc) \/ Finish(h)
    BY <1>1 DEF SaveStep, SaveSkip, SaveRequest
  <1>5. CASE Finish(h)
    BY <1>3, <1>5, IdleClaim, QuietStep DEF Finish
  <1>6. CASE Goto(h, [c EXCEPT !.dirty = dirty], pc)
    <2>1. PICK d : d = [c EXCEPT !.dirty = dirty, !.pc = pc]
      OBVIOUS
    <2>2. call' = [call EXCEPT ![h] = d]
      BY <1>6, <2>1, <1>2 DEF Goto, Calls
    <2>3. /\ d.pc = pc /\ d.request = c.request /\ d.row = c.row
          /\ d.entity = c.entity /\ d.required = c.required /\ d.action = c.action
          /\ d.step = c.step /\ d.seen = c.seen /\ d.target = c.target
      BY <1>2, <2>1 DEF Calls
    <2>4. Claim(d)
      BY <1>2, <1>4, <2>3 DEF Claim
    <2> QED
      BY <1>2, <1>3, <2>2, <2>3, <2>4, QuietStep DEF Calls
  <1> QED
    BY <1>4, <1>5, <1>6

\* APPROVED steps were signed, so a count that reaches the quorum settles.
LEMMA CountLevel ==
  ASSUME LevelInv, TypeOK', NEW h \in Handlers, CountApprovals(h)
  PROVE  LevelInv'
  <1>1. PICK c : c = call[h]
    OBVIOUS
  <1>2. c \in Calls /\ Claim(c) /\ c.pc = "count"
    BY <1>1 DEF LevelInv, TypeOK, CallInv, CountApprovals
  <1> DEFINE q == c.request
             k == c.row.order
             A == {r \in RowsAt(q, k) : stepRow[q][r].status = "APPROVED"}
             B == {r \in RowsAt(q, k) : r \in signed[q]}
  <1>q. q \in Requests /\ c.required \in Nat
    BY <1>2 DEF Calls
  <1>3. CASE ApprovedCount(q, k) < c.required
    <2>1. PICK d : d = [c EXCEPT !.entity.status = "IN_PROGRESS", !.pc = "saveRequest"]
      OBVIOUS
    <2>2. call' = [call EXCEPT ![h] = d]
      BY <1>1, <1>2, <1>3, <2>1 DEF CountApprovals, Goto, Calls
    <2>3. /\ d.pc = "saveRequest" /\ d.request = q /\ d.row = c.row
          /\ d.entity.status = "IN_PROGRESS"
          /\ d.entity.current_step = c.entity.current_step
          /\ d.required = c.required
      BY <1>2, <2>1 DEF Calls, RequestRows
    <2>4. Claim(d)
      BY <1>2, <2>3 DEF Claim, EntityInv, RequestStatus
    <2> QED
      BY <1>q, <2>2, <2>3, <2>4, QuietStep DEF CountApprovals
  <1>4. CASE ~ (ApprovedCount(q, k) < c.required)
    <2>1. PICK d : d = [c EXCEPT !.pc = "scan"]
      OBVIOUS
    <2>2. call' = [call EXCEPT ![h] = d]
      BY <1>1, <1>4, <2>1 DEF CountApprovals, Goto
    <2>3. /\ d.pc = "scan" /\ d.request = q /\ d.row = c.row
          /\ d.entity = c.entity /\ d.required = c.required
      BY <1>2, <2>1 DEF Calls
    <2>4. A \in SUBSET B
      BY <1>q DEF LevelInv, StepInv, Marked, RowsAt, RowsOf
    <2>5. B \in SUBSET ConfigRows
      BY DEF RowsAt, RowsOf
    <2>6. IsFiniteSet(A) /\ IsFiniteSet(B) /\ Cardinality(A) <= Cardinality(B)
      BY <2>4, <2>5, FS_Subset, ConfigAssumption
    <2>7. Cardinality(A) \in Nat /\ Cardinality(B) \in Nat
      BY <2>6, FS_CardinalityType
    <2>8. c.required <= Cardinality(B)
      BY <1>4, <1>q, <2>6, <2>7 DEF ApprovedCount
    <2>9. Exists(q) => SignedEnough(q, k)
      <3>1. Exists(q) => Legit(c.required, k)
        BY <1>2 DEF Claim
      <3> QED
        BY <1>q, <2>7, <2>8, <3>1, LegitSuffices DEF SignedEnough
    <2>10. Claim(d)
      BY <1>2, <2>3, <2>9 DEF Claim
    <2> QED
      BY <1>q, <2>2, <2>3, <2>10, QuietStep DEF CountApprovals
  <1> QED
    BY <1>3, <1>4

LEMMA ScanLevel ==
  ASSUME LevelInv, TypeOK', NEW h \in Handlers, ScanSteps(h)
  PROVE  LevelInv'
  <1>1. PICK c : c = call[h]
    OBVIOUS
  <1>2. c \in Calls /\ Claim(c) /\ c.pc = "scan"
    BY <1>1 DEF LevelInv, TypeOK, CallInv, ScanSteps
  <1>3. PICK d : d = [c EXCEPT !.seen = stepRow[c.request], !.pc = "skip"]
    OBVIOUS
  <1>4. call' = [call EXCEPT ![h] = d]
    BY <1>1, <1>2, <1>3 DEF ScanSteps, Goto, Calls
  <1>5. /\ d.pc = "skip" /\ d.request = c.request /\ d.row = c.row
        /\ d.entity = c.entity /\ d.required = c.required
        /\ d.seen = stepRow[c.request]
    BY <1>2, <1>3 DEF Calls
  <1>6. \A r \in ConfigRows :
          /\ d.seen[r].status = "NONE" <=> r \notin RowsOf(c.request)
          /\ Marked(c.request, r, d.seen[r].status)
    BY <1>2, <1>5 DEF LevelInv, StepInv, RowsOf, Calls
  <1>7. Claim(d)
    BY <1>2, <1>5, <1>6 DEF Claim
  <1> QED
    BY <1>2, <1>4, <1>5, <1>7, QuietStep DEF ScanSteps, Calls

\* Only a step that a configuration has as optional is going to be skipped.
LEMMA SkipLevel ==
  ASSUME LevelInv, TypeOK', NEW h \in Handlers, SkipOptional(h)
  PROVE  LevelInv'
  <1>1. PICK c : c = call[h]
    OBVIOUS
  <1>2. c \in Calls /\ Claim(c) /\ c.pc = "skip"
    BY <1>1 DEF LevelInv, TypeOK, CallInv, SkipOptional
  <1>0. PICK s \in NextPending(c) : \E cs \in ConfigStepsFor(s.order) :
          /\ cs # NoRow /\ ~ cs.mandatory
          /\ Goto(h, [c EXCEPT !.target = s,
                               !.step = [c.seen[s] EXCEPT !.status = "SKIPPED"]],
                  "saveSkip")
    BY <1>1 DEF SkipOptional
  <1>3. PICK cs \in ConfigStepsFor(s.order) :
          /\ cs # NoRow /\ ~ cs.mandatory
          /\ Goto(h, [c EXCEPT !.target = s,
                               !.step = [c.seen[s] EXCEPT !.status = "SKIPPED"]],
                  "saveSkip")
    BY <1>0
  <1>4. s \in ConfigRows /\ c.seen[s].status = "PENDING" /\ c.seen[s] \in StepRows
    BY <1>2, <1>0 DEF NextPending, LaterPending, Calls
  <1>5. PICK d : d = [c EXCEPT !.target = s,
                        !.step = [c.seen[s] EXCEPT !.status = "SKIPPED"],
                        !.pc = "saveSkip"]
    OBVIOUS
  <1>6. call' = [call EXCEPT ![h] = d]
    BY <1>2, <1>3, <1>5 DEF Goto, Calls
  <1>7. /\ d.pc = "saveSkip" /\ d.request = c.request /\ d.row = c.row
        /\ d.entity = c.entity /\ d.required = c.required
        /\ d.seen = c.seen /\ d.target = s /\ d.step.status = "SKIPPED"
    BY <1>2, <1>4, <1>5 DEF Calls, StepRows
  <1>8. Exists(c.request) => s \in RowsOf(c.request)
    BY <1>2, <1>4 DEF Claim
  <1>9. rows \in Configs
    BY <1>2 DEF LevelInv, ConfigInv, Claim, Calls
  <1>10. Optional(s.order)
    BY <1>3, <1>9 DEF Optional, ConfigStepsFor
  <1>11. Claim(d)
    BY <1>2, <1>7, <1>8, <1>10 DEF Claim
  <1> QED
    BY <1>2, <1>6, <1>7, <1>11, QuietStep DEF SkipOptional, Calls

\* At the end of the skip loop every order before the next pending step is
\* settled: lower than the call's by what was loaded, the call's own by the
\* quorum, the later ones because the scan saw none of their steps pending.
LEMMA LaterSettled ==
  ASSUME LevelInv, NEW c \in Calls, Claim(c), c.pc = "skip", Exists(c.request),
         NEW r \in RowsOf(c.request),
         \A s \in LaterPending(c) : r.order # s.order
  PROVE  Settled(c.request, r.order)
  <1> DEFINE q == c.request
  <1>1. r.order \in Nat /\ c.row.order \in Nat
    BY ConfigAssumption DEF RowsOf, ConfigRow, Calls
  <1>2. CASE r.order < c.row.order
    BY <1>2 DEF Claim, Below
  <1>3. CASE r.order = c.row.order
    BY <1>3 DEF Claim, SignedEnough, Settled
  <1>4. CASE r.order > c.row.order
    <2>1. ASSUME NEW t \in RowsAt(q, r.order)
          PROVE  \/ t \in signed[q] \cup refused[q]
                 \/ t \in skipped[q] /\ Optional(r.order)
      <3>1. t \in ConfigRows /\ t \in RowsOf(q) /\ t.order = r.order
        BY DEF RowsAt, RowsOf
      <3>2. c.seen[t].status # "PENDING"
        BY <1>4, <3>1 DEF LaterPending
      <3>3. c.seen[t].status \in {"APPROVED", "REJECTED", "SKIPPED"}
        BY <3>1, <3>2 DEF Claim, Calls, StepRows, StepStatus
      <3>4. Marked(q, t, c.seen[t].status)
        BY <3>1 DEF Claim
      <3>5. \A x \in skipped[q] : Optional(x.order)
        BY DEF LevelInv, StepInv, Calls
      <3> QED
        BY <3>1, <3>3, <3>4, <3>5 DEF Marked
    <2> QED
      BY <2>1 DEF Settled
  <1> QED
    BY <1>1, <1>2, <1>3, <1>4

LEMMA AdvanceLevel ==
  ASSUME LevelInv, TypeOK', NEW h \in Handlers, Advance(h)
  PROVE  LevelInv'
  <1>1. PICK c : c = call[h]
    OBVIOUS
  <1>2. c \in Calls /\ Claim(c) /\ c.pc = "skip"
    BY <1>1 DEF LevelInv, TypeOK, CallInv, Advance
  <1>3. PICK s \in NextPending(c) :
          Goto(h, [c EXCEPT !.entity.current_step = s.order,
                            !.entity.status = "IN_PROGRESS"], "saveRequest")
    BY <1>1 DEF Advance
  <1>4. PICK d : d = [c EXCEPT !.entity.current_step = s.order,
                        !.entity.status = "IN_PROGRESS", !.pc = "saveRequest"]
    OBVIOUS
  <1>5. call' = [call EXCEPT ![h] = d]
    BY <1>2, <1>3, <1>4 DEF Goto, Calls
  <1>6. /\ d.pc = "saveRequest" /\ d.request = c.request /\ d.row = c.row
        /\ d.entity.status = "IN_PROGRESS" /\ d.entity.current_step = s.order
        /\ d.required = c.required
    BY <1>2, <1>4 DEF Calls, RequestRows
  <1>7. Exists(c.request) => Below(c.request, s.order)
    <2> SUFFICES ASSUME Exists(c.request), NEW r \in RowsOf(c.request),
                        r.order < s.order
                 PROVE  Settled(c.request, r.order)
      BY DEF Below
    <2>1. \A t \in LaterPending(c) : s.order <= t.order
      BY <1>3 DEF NextPending
    <2>2. \A t \in LaterPending(c) : t.order \in Nat
      BY ConfigAssumption DEF LaterPending, ConfigRow
    <2>3. s.order \in Nat /\ r.order \in Nat
      BY <1>3, ConfigAssumption DEF NextPending, LaterPending, RowsOf, ConfigRow
    <2>4. \A t \in LaterPending(c) : r.order # t.order
      BY <2>1, <2>2, <2>3
    <2> QED
      BY <1>2, <2>4, LaterSettled
  <1>8. Claim(d)
    BY <1>2, <1>6, <1>7 DEF Claim, EntityInv, RequestStatus
  <1> QED
    BY <1>2, <1>5, <1>6, <1>8, QuietStep DEF Advance, Calls

LEMMA ApproveLevel ==
  ASSUME LevelInv, TypeOK', NEW h \in Handlers, ApproveRequest(h)
  PROVE  LevelInv'
  <1>1. PICK c : c = call[h]
    OBVIOUS
  <1>2. c \in Calls /\ Claim(c) /\ c.pc = "skip" /\ LaterPending(c) = {}
    BY <1>1 DEF LevelInv, TypeOK, CallInv, ApproveRequest
  <1>3. PICK d : d = [c EXCEPT !.entity.status = "APPROVED",
                        !.entity.resolved_at = TRUE, !.pc = "saveRequest"]
    OBVIOUS
  <1>4. call' = [call EXCEPT ![h] = d]
    BY <1>1, <1>2, <1>3 DEF Goto, Calls, ApproveRequest
  <1>5. /\ d.pc = "saveRequest" /\ d.request = c.request /\ d.row = c.row
        /\ d.entity.current_step = c.entity.current_step
        /\ d.entity.status = "APPROVED"
        /\ d.required = c.required
    BY <1>2, <1>3 DEF Calls, RequestRows
  <1>6. Exists(c.request) => AllSettled(c.request)
    BY <1>2, LaterSettled DEF AllSettled
  <1>7. Claim(d)
    BY <1>2, <1>5, <1>6 DEF Claim, EntityInv, RequestStatus
  <1> QED
    BY <1>2, <1>4, <1>5, <1>7, QuietStep DEF ApproveRequest, Calls

LEMMA CrashLevel ==
  ASSUME LevelInv, TypeOK', NEW h \in Handlers, Crash(h)
  PROVE  LevelInv'
  BY IdleClaim, QuietStep DEF Crash, Finish

\* A step that writes one approval_steps row and marks it in the history.
LEMMA StepWrite ==
  ASSUME LevelInv, TypeOK', NEW h \in Handlers, NEW d, Claim(d)',
         call' = [call EXCEPT ![h] = d],
         UNCHANGED <<configVars, requestRow>>,
         \A q \in Requests : Exists(q) => Kept(q),
         StepInv'
  PROVE  LevelInv'
  <1>1. UNCHANGED <<life, rows, editor, requestRow>> /\ TypeOK
    BY DEF configVars, LevelInv
  <1>2. ConfigInv'
    BY <1>1 DEF LevelInv, ConfigInv
  <1>3. \A q \in Requests : Exists(q)' <=> Exists(q)
    BY <1>1 DEF Exists
  <1>4. RequestInv'
    BY <1>1, <1>3, RowsKept DEF LevelInv, RequestInv
  <1>5. (\A g \in Handlers : CallInv(g))'
    BY <1>1, <1>3, CallsKept DEF LevelInv
  <1> QED
    BY <1>2, <1>4, <1>5 DEF LevelInv

\* Where FlushStep leaves its call.
LEMMA FlushStepCall ==
  ASSUME TypeOK, NEW h \in Handlers, FlushStep(h), NEW c \in Calls, c = call[h]
  PROVE  \E d : /\ call' = [call EXCEPT ![h] = d]
                /\ d.request = c.request /\ d.row = c.row
                /\ d.required = c.required
                /\ d.pc \in {"saveRequest", "count"}
                /\ d.entity.current_step = c.entity.current_step
                /\ d.entity.status \in {c.entity.status, "REJECTED"}
  <1>1. CASE c.action = "REJECTED"
    <2> DEFINE d == [c EXCEPT !.entity.status = "REJECTED",
                              !.entity.resolved_at = TRUE, !.pc = "saveRequest"]
    <2>1. call' = [call EXCEPT ![h] = d]
      BY <1>1 DEF FlushStep, Goto, Calls
    <2>2. /\ d.request = c.request /\ d.row = c.row /\ d.required = c.required
          /\ d.pc = "saveRequest" /\ d.entity.status = "REJECTED"
          /\ d.entity.current_step = c.entity.current_step
      BY DEF Calls, RequestRows
    <2> HIDE DEF d
    <2> QED
      BY <2>1, <2>2
  <1>2. CASE c.action # "REJECTED"
    <2> DEFINE d == [c EXCEPT !.pc = "count"]
    <2>1. call' = [call EXCEPT ![h] = d]
      BY <1>2 DEF FlushStep, Goto
    <2>2. /\ d.request = c.request /\ d.row = c.row /\ d.required = c.required
          /\ d.pc = "count" /\ d.entity = c.entity
      BY DEF Calls
    <2> HIDE DEF d
    <2> QED
      BY <2>1, <2>2
  <1> QED
    BY <1>1, <1>2

\* After the write of a step, the merged row bears a mark.
LEMMA FlushStepLevel ==
  ASSUME LevelInv, TypeOK', NEW h \in Handlers, FlushStep(h)
  PROVE  LevelInv'
  <1>1. PICK c : c = call[h]
    OBVIOUS
  <1>2. c \in Calls /\ Claim(c) /\ c.pc = "flushStep" /\ TypeOK
    BY <1>1 DEF LevelInv, TypeOK, CallInv, FlushStep
  <1> DEFINE q == c.request
             r == c.row
  <1>3. q \in Requests /\ r \in ConfigRows /\ c.action \in {"APPROVED", "REJECTED"}
    BY <1>2 DEF Calls
  <1>4. /\ Exists(q) => r \in RowsOf(q) /\ c.step.status = c.action
        /\ UNCHANGED <<configVars, requestRow, skipped>>
    BY <1>1, <1>2 DEF Claim, FlushStep
  <1>5. CASE ~ Exists(q)
    <2>1. UNCHANGED <<stepRow, signed, refused>>
      BY <1>1, <1>5 DEF FlushStep
    <2>2. \A x \in Requests : Exists(x) => Kept(x)
      BY <1>4, <2>1 DEF Kept
    <2>3. StepInv'
      BY <1>4, <2>1 DEF LevelInv, StepInv, Marked, Optional
    <2>4. PICK d : /\ call' = [call EXCEPT ![h] = d] /\ d.request = q
                   /\ d.pc \in {"saveRequest", "count"}
      BY <1>1, <1>2, FlushStepCall
    <2>5. requestRow'[q].status # "NONE" /\ ~ Exists(q)'
      BY <1>2, <1>4, <1>5 DEF Claim, Exists
    <2>6. Claim(d)'
      BY <2>4, <2>5 DEF Claim
    <2> QED
      BY <1>4, <2>2, <2>3, <2>4, <2>6, StepWrite
  <1>6. CASE Exists(q)
    <2>1. stepRow' = [stepRow EXCEPT ![q][r] = MergeStep(@, c.step, c.dirty)]
      BY <1>1, <1>6 DEF FlushStep
    <2>2. /\ signed' = IF c.action = "APPROVED"
                       THEN [signed EXCEPT ![q] = @ \cup {r}] ELSE signed
          /\ refused' = IF c.action = "REJECTED"
                        THEN [refused EXCEPT ![q] = @ \cup {r}] ELSE refused
      BY <1>1, <1>6, Zenon DEF FlushStep
    <2>3. stepRow'[q][r].status \in {c.action, stepRow[q][r].status}
      BY <1>2, <1>3, <1>4, <1>6, <2>1 DEF TypeOK, MergeStep
    <2>4. \A x \in Requests, y \in ConfigRows :
            x # q \/ y # r => stepRow'[x][y] = stepRow[x][y]
      BY <1>2, <1>3, <2>1 DEF TypeOK
    <2>5. stepRow[q][r].status # "NONE" /\ stepRow'[q][r].status # "NONE"
      BY <1>3, <1>4, <1>6, <2>3 DEF RowsOf
    <2>6. /\ c.action = "APPROVED" => r \in signed'[q]
          /\ c.action = "REJECTED" => r \in refused'[q]
          /\ \A x \in Requests : /\ signed[x] \subseteq signed'[x]
                                 /\ refused[x] \subseteq refused'[x]
                                 /\ skipped'[x] = skipped[x]
      BY <1>2, <1>3, <1>4, <2>2 DEF TypeOK
    <2>7. \A x \in Requests : Exists(x) => Kept(x)
      BY <2>4, <2>5, <2>6 DEF Kept
    <2>8. StepInv'
      <3>1. ASSUME NEW x \in Requests, NEW y \in ConfigRows
            PROVE  Marked(x, y, stepRow[x][y].status)'
        <4>1. Marked(x, y, stepRow[x][y].status)
          BY DEF LevelInv, StepInv
        <4>2. CASE x = q /\ y = r
          BY <4>1, <4>2, <1>3, <2>3, <2>6 DEF Marked
        <4>3. CASE x # q \/ y # r
          BY <4>1, <4>3, <2>4, <2>6 DEF Marked
        <4> QED
          BY <4>2, <4>3
      <3>2. \A x \in Requests : \A y \in skipped'[x] : Optional(y.order)
        BY <2>6 DEF LevelInv, StepInv
      <3> QED
        BY <3>1, <3>2 DEF StepInv, Optional
    <2>9. PICK d : /\ call' = [call EXCEPT ![h] = d]
                   /\ d.request = q /\ d.row = r /\ d.required = c.required
                   /\ d.pc \in {"saveRequest", "count"}
                   /\ d.entity.current_step = c.entity.current_step
                   /\ d.entity.status \in {c.entity.status, "REJECTED"}
      BY <1>1, <1>2, FlushStepCall
    <2>10. Claim(d)
      BY <1>2, <2>9 DEF Claim, EntityInv, RequestStatus
    <2>11. Claim(d)'
      BY <1>2, <1>3, <1>4, <1>6, <2>7, <2>9, <2>10, ClaimKept DEF Claim
    <2> QED
      BY <1>4, <2>7, <2>8, <2>9, <2>11, StepWrite
  <1> QED
    BY <1>5, <1>6

LEMMA FlushSkipLevel ==
  ASSUME LevelInv, TypeOK', NEW h \in Handlers, FlushSkip(h)
  PROVE  LevelInv'
  <1>1. PICK c : c = call[h]
    OBVIOUS
  <1>2. c \in Calls /\ Claim(c) /\ c.pc = "flushSkip" /\ TypeOK
    BY <1>1 DEF LevelInv, TypeOK, CallInv, FlushSkip
  <1> DEFINE q == c.request
             r == c.target
  <1>3. q \in Requests /\ r \in ConfigRows
    BY <1>2 DEF Calls
  <1>4. UNCHANGED <<configVars, requestRow, signed, refused>>
    BY DEF FlushSkip
  <1>5. PICK d : d = [c EXCEPT !.seen[r] = c.step, !.pc = "skip"]
    OBVIOUS
  <1>6. call' = [call EXCEPT ![h] = d]
    BY <1>1, <1>2, <1>5 DEF FlushSkip, Goto, Calls
  <1>7. /\ d.pc = "skip" /\ d.request = q /\ d.row = c.row
        /\ d.entity = c.entity /\ d.required = c.required
        /\ d.seen = [c.seen EXCEPT ![r] = c.step]
    BY <1>2, <1>5 DEF Calls
  <1>8. CASE ~ Exists(q)
    <2>1. UNCHANGED <<stepRow, skipped>>
      BY <1>1, <1>8 DEF FlushSkip
    <2>2. \A x \in Requests : Exists(x) => Kept(x)
      BY <1>4, <2>1 DEF Kept
    <2>3. StepInv'
      BY <1>4, <2>1 DEF LevelInv, StepInv, Marked, Optional
    <2>4. requestRow'[q].status # "NONE" /\ ~ Exists(q)'
      BY <1>2, <1>4, <1>8 DEF Claim, Exists
    <2>5. Claim(d)'
      BY <1>7, <2>4 DEF Claim
    <2> QED
      BY <1>4, <1>6, <2>2, <2>3, <2>5, StepWrite
  <1>9. CASE Exists(q)
    <2>1. /\ stepRow' = [stepRow EXCEPT ![q][r] = MergeStep(@, c.step, c.dirty)]
          /\ skipped' = [skipped EXCEPT ![q] = @ \cup {r}]
      BY <1>1, <1>9 DEF FlushSkip
    <2>2. r \in RowsOf(q) /\ c.step.status = "SKIPPED" /\ Optional(r.order)
      BY <1>2, <1>9 DEF Claim
    <2>3. stepRow'[q][r].status \in {"SKIPPED", stepRow[q][r].status}
      BY <1>2, <1>3, <2>1, <2>2 DEF TypeOK, MergeStep
    <2>4. \A x \in Requests, y \in ConfigRows :
            x # q \/ y # r => stepRow'[x][y] = stepRow[x][y]
      BY <1>2, <1>3, <2>1 DEF TypeOK
    <2>5. stepRow[q][r].status # "NONE" /\ stepRow'[q][r].status # "NONE"
      BY <1>3, <2>2, <2>3 DEF RowsOf
    <2>6. /\ r \in skipped'[q]
          /\ \A x \in Requests : /\ signed'[x] = signed[x] /\ refused'[x] = refused[x]
                                 /\ skipped[x] \subseteq skipped'[x]
                                 /\ skipped'[x] \subseteq skipped[x] \cup {r}
      BY <1>2, <1>3, <1>4, <2>1 DEF TypeOK
    <2>7. \A x \in Requests : Exists(x) => Kept(x)
      BY <2>4, <2>5, <2>6 DEF Kept
    <2>8. StepInv'
      <3>1. ASSUME NEW x \in Requests, NEW y \in ConfigRows
            PROVE  Marked(x, y, stepRow[x][y].status)'
        <4>1. Marked(x, y, stepRow[x][y].status)
          BY DEF LevelInv, StepInv
        <4>2. CASE x = q /\ y = r
          BY <4>1, <4>2, <1>3, <2>3, <2>6 DEF Marked
        <4>3. CASE x # q \/ y # r
          BY <4>1, <4>3, <2>4, <2>6 DEF Marked
        <4> QED
          BY <4>2, <4>3
      <3>2. \A x \in Requests : \A y \in skipped'[x] : Optional(y.order)
        BY <2>2, <2>6 DEF LevelInv, StepInv
      <3> QED
        BY <3>1, <3>2 DEF StepInv, Optional
    <2>9. RowsOf(q)' = RowsOf(q)
      BY <1>2, <1>3, <1>9, <2>7, KeptSettled
    <2>10. \A y \in ConfigRows : /\ d.seen[y].status = "NONE" <=> y \notin RowsOf(q)'
                                 /\ Marked(q, y, d.seen[y].status)'
      <3> SUFFICES ASSUME NEW y \in ConfigRows
                   PROVE  /\ d.seen[y].status = "NONE" <=> y \notin RowsOf(q)'
                          /\ Marked(q, y, d.seen[y].status)'
        OBVIOUS
      <3>1. /\ c.seen[y].status = "NONE" <=> y \notin RowsOf(q)
            /\ Marked(q, y, c.seen[y].status)
        BY <1>2, <1>9 DEF Claim
      <3>2. CASE y = r
        <4>1. d.seen[y].status = "SKIPPED"
          BY <3>2, <1>2, <1>3, <1>7, <2>2 DEF Calls
        <4> QED
          BY <3>2, <4>1, <2>2, <2>6, <2>9 DEF Marked
      <3>3. CASE y # r
        <4>1. d.seen[y] = c.seen[y]
          BY <3>3, <1>2, <1>3, <1>7 DEF Calls
        <4> QED
          BY <3>1, <4>1, <1>3, <2>6, <2>9 DEF Marked
      <3> QED
        BY <3>2, <3>3
    <2>11. PICK e : e = [c EXCEPT !.pc = "scan"]
      OBVIOUS
    <2>12. /\ e.pc = "scan" /\ e.request = q /\ e.row = c.row
           /\ e.entity = c.entity /\ e.required = c.required
      BY <1>2, <2>11 DEF Calls
    <2>13. Claim(e)
      BY <1>2, <2>12 DEF Claim
    <2>14. Claim(e)'
      BY <1>2, <1>3, <1>4, <1>9, <2>7, <2>12, <2>13, ClaimKept DEF Claim
    <2>15. Claim(d)'
      BY <1>7, <2>10, <2>12, <2>14 DEF Claim
    <2> QED
      BY <1>4, <1>6, <2>7, <2>8, <2>15, StepWrite
  <1> QED
    BY <1>8, <1>9

\* The update of a request writes columns each of which is true by itself, so
\* the mix of an old and a new row is true as well.
LEMMA FlushRequestLevel ==
  ASSUME LevelInv, TypeOK', NEW h \in Handlers, FlushRequest(h)
  PROVE  LevelInv'
  <1>1. PICK c : c = call[h]
    OBVIOUS
  <1>2. c \in Calls /\ Claim(c) /\ c.pc = "flushRequest" /\ TypeOK
    BY <1>1 DEF LevelInv, TypeOK, CallInv, FlushRequest
  <1> DEFINE q == c.request
  <1>3. q \in Requests /\ c.entity \in RequestRows
    BY <1>2 DEF Calls
  <1>4. UNCHANGED <<life, rows, editor, stepRow, signed, refused, skipped>>
    BY DEF FlushRequest, configVars, history
  <1>5. call' = [call EXCEPT ![h] = IdleCall]
    BY DEF FlushRequest, Finish
  <1>6. \A x \in Requests : Exists(x) => Kept(x)
    BY <1>4 DEF Kept
  <1>7. \A x \in Requests : x # q => requestRow'[x] = requestRow[x]
    BY <1>1, <1>2, <1>3 DEF FlushRequest, TypeOK
  <1>8. ~ Exists(q) => requestRow'[q] = requestRow[q]
    BY <1>1 DEF FlushRequest
  <1>9. Exists(q) => requestRow'[q] = MergeRequest(requestRow[q], c.entity, c.dirty)
    BY <1>1, <1>2, <1>3 DEF FlushRequest, TypeOK
  <1>10. Exists(q) => /\ requestRow'[q].status \in {requestRow[q].status, c.entity.status}
                      /\ requestRow'[q].current_step \in
                           {requestRow[q].current_step, c.entity.current_step}
    BY <1>9 DEF MergeRequest
  <1>11. Exists(q) => c.entity.status \in RequestStatus /\ EntityInv(q, c.entity)
    BY <1>2 DEF Claim
  <1>12. \A x \in Requests : Exists(x)' <=> Exists(x)
    BY <1>7, <1>8, <1>10, <1>11 DEF Exists
  <1>13. ConfigInv'
    <2>1. requestRow[q].status # "NONE"
      BY <1>2 DEF Claim
    <2> QED
      BY <1>3, <1>4, <2>1 DEF LevelInv, ConfigInv
  <1>14. RequestInv'
    <2> SUFFICES ASSUME NEW x \in Requests, Exists(x)
                 PROVE  EntityInv(x, requestRow[x])'
      BY <1>12 DEF RequestInv
    <2>1. EntityInv(x, requestRow[x]) /\ Kept(x)
      BY <1>6 DEF LevelInv, RequestInv
    <2>2. CASE x # q
      BY <2>1, <2>2, <1>2, <1>7, RowsKept
    <2>3. CASE x = q
      <3>1. /\ Below(q, requestRow[q].current_step) /\ Below(q, c.entity.current_step)
            /\ requestRow[q].status = "APPROVED" \/ c.entity.status = "APPROVED"
                 => AllSettled(q)
        BY <2>1, <2>3, <1>11 DEF EntityInv
      <3>2. PICK k, status : k = requestRow'[q].current_step
                             /\ status = requestRow'[q].status
        OBVIOUS
      <3>3. Below(q, k) /\ (status = "APPROVED" => AllSettled(q))
        BY <2>3, <3>1, <3>2, <1>10
      <3>4. Below(q, k)' /\ (status = "APPROVED" => AllSettled(q)')
        BY <3>3, <1>2, <1>3, <2>1, <2>3, KeptClaims
      <3> QED
        BY <2>3, <3>2, <3>4 DEF EntityInv
    <2> QED
      BY <2>2, <2>3
  <1>15. StepInv'
    BY <1>4 DEF LevelInv, StepInv, Marked, Optional
  <1>16. \A x \in Requests : requestRow[x].status # "NONE" =>
            requestRow'[x].status # "NONE" /\ (Exists(x)' => Kept(x))
    BY <1>6, <1>7, <1>8, <1>10, <1>11, <1>12 DEF RequestStatus
  <1>17. (\A g \in Handlers : CallInv(g))'
    BY <1>2, <1>5, <1>16, IdleClaim, CallsKept DEF LevelInv
  <1> QED
    BY <1>13, <1>14, <1>15, <1>17 DEF LevelInv

\* A new request has no order below its first and none of its steps marked.
LEMMA SubmitLevel ==
  ASSUME LevelInv, TypeOK', NEW q \in Requests, NEW amount \in Amounts,
         Submit(q, amount)
  PROVE  LevelInv'
  <1> DEFINE steps == ResolveStepsForAmount(rows, amount)
  <1>1. /\ UNCHANGED <<life, rows, editor, call, signed, refused, skipped>>
        /\ TypeOK /\ life = "live" /\ requestRow[q].status = "NONE"
    BY DEF Submit, configVars, history, LevelInv
  <1>2. PICK first \in steps :
          /\ \A r \in steps : first.order <= r.order
          /\ requestRow' = [requestRow EXCEPT ![q] =
               [status |-> "PENDING", current_step |-> first.order,
                resolved_at |-> FALSE]]
    BY DEF Submit
  <1>3. requestRow'[q].status = "PENDING" /\ requestRow'[q].current_step = first.order
    BY <1>1, <1>2 DEF TypeOK
  <1>4. steps \subseteq ConfigRows
    BY <1>1 DEF ResolveStepsForAmount, TypeOK
  <1>5. \A r \in ConfigRows : stepRow'[q][r].status =
                                IF r \in steps THEN "PENDING" ELSE "NONE"
    BY <1>1 DEF Submit, TypeOK, NoStep
  <1>6. \A x \in Requests : x # q => /\ requestRow'[x] = requestRow[x]
                                     /\ stepRow'[x] = stepRow[x]
    BY <1>1 DEF Submit, TypeOK
  <1>7. \A x \in Requests : x # q /\ Exists(x) => Kept(x)
    BY <1>1, <1>6 DEF Kept
  <1>8. ConfigInv'
    BY <1>1 DEF LevelInv, ConfigInv
  <1>9. RequestInv'
    <2> SUFFICES ASSUME NEW x \in Requests, Exists(x)'
                 PROVE  EntityInv(x, requestRow[x])'
      BY DEF RequestInv
    <2>1. CASE x # q
      <3>1. Exists(x) /\ EntityInv(x, requestRow[x]) /\ Kept(x)
        BY <2>1, <1>6, <1>7 DEF Exists, LevelInv, RequestInv
      <3> QED
        BY <2>1, <3>1, <1>1, <1>6, RowsKept
    <2>2. CASE x = q
      <3>1. RowsOf(q)' = steps
        BY <1>4, <1>5 DEF RowsOf
      <3>2. \A r \in steps : r.order \in Nat
        BY <1>4, ConfigAssumption DEF ConfigRow
      <3>3. \A r \in steps : ~ (r.order < first.order)
        BY <1>2, <3>2
      <3> QED
        BY <2>2, <1>3, <3>1, <3>3 DEF EntityInv, Below
    <2> QED
      BY <2>1, <2>2
  <1>10. StepInv'
    <2>1. \A x \in Requests, r \in ConfigRows : Marked(x, r, stepRow[x][r].status)'
      BY <1>1, <1>5, <1>6 DEF LevelInv, StepInv, Marked
    <2> QED
      BY <1>1, <2>1 DEF LevelInv, StepInv, Optional
  <1>11. (\A g \in Handlers : CallInv(g))'
    <2> SUFFICES ASSUME NEW g \in Handlers PROVE CallInv(g)'
      OBVIOUS
    <2>1. PICK e : e = call[g]
      OBVIOUS
    <2>2. call'[g] = e /\ e.request \in Requests /\ Claim(e)
      BY <1>1, <2>1 DEF TypeOK, Calls, CallInv, LevelInv
    <2>3. e.pc # "idle" => e.request # q /\ requestRow[e.request].status # "NONE"
      BY <1>1, <2>2 DEF Claim
    <2>4. Claim(e)'
      BY <1>1, <1>6, <1>7, <2>2, <2>3, ClaimKept DEF Exists
    <2> QED
      BY <2>2, <2>4 DEF CallInv
  <1> QED
    BY <1>8, <1>9, <1>10, <1>11 DEF LevelInv

\* A step that writes neither a request nor a call.
LEMMA RowsSame ==
  ASSUME LevelInv, TypeOK', ConfigInv',
         UNCHANGED <<requestRow, stepRow, call, signed, refused, skipped>>
  PROVE  LevelInv'
  <1>1. TypeOK
    BY DEF LevelInv
  <1>2. \A q \in Requests : /\ Exists(q)' <=> Exists(q)
                            /\ Exists(q) => Kept(q)
    BY DEF Exists, Kept
  <1>3. RequestInv'
    BY <1>1, <1>2, RowsKept DEF LevelInv, RequestInv
  <1>4. StepInv'
    BY DEF LevelInv, StepInv, Marked, Optional
  <1>5. ASSUME NEW g \in Handlers PROVE CallInv(g)'
    <2>1. PICK e : e = call[g]
      OBVIOUS
    <2>2. call'[g] = e /\ e.request \in Requests /\ Claim(e)
      BY <1>1, <2>1 DEF TypeOK, Calls, CallInv, LevelInv
    <2>3. Claim(e)'
      BY <1>1, <1>2, <2>2, ClaimKept DEF Claim
    <2> QED
      BY <2>2, <2>3 DEF CallInv
  <1> QED
    BY <1>3, <1>4, <1>5 DEF LevelInv

\* The administrator touches requests only to delete all of them.
LEMMA AdministerLevel ==
  ASSUME LevelInv, TypeOK', Administer
  PROVE  LevelInv'
  <1>1. CASE RemoveConfig
    <2>1. /\ UNCHANGED <<editor, call, signed, refused, skipped>>
          /\ life = "live" /\ life' = "removed" /\ rows' = {} /\ {} \in Configs
          /\ TypeOK
      BY <1>1 DEF RemoveConfig, history, LevelInv
    <2>2. \A q \in Requests : /\ ~ Exists(q)'
                              /\ requestRow[q].status # "NONE" =>
                                   requestRow'[q].status # "NONE"
      BY <1>1, <2>1 DEF RemoveConfig, Exists, RequestStatus, NoRequest, TypeOK, RequestRows
    <2>3. ConfigInv' /\ RequestInv'
      BY <2>1, <2>2 DEF LevelInv, ConfigInv, RequestInv
    <2>4. StepInv'
      <3>1. \A q \in Requests, r \in ConfigRows : stepRow'[q][r].status = "NONE"
        BY <1>1 DEF RemoveConfig, NoSteps, NoStep
      <3> QED
        BY <2>1, <3>1 DEF LevelInv, StepInv, Marked, Optional
    <2>5. (\A g \in Handlers : CallInv(g))'
      BY <2>1, <2>2 DEF LevelInv, CallInv, Claim, TypeOK, Calls
    <2> QED
      BY <2>3, <2>4, <2>5 DEF LevelInv
  <1>2. CASE ~ RemoveConfig
    <2>1. /\ UNCHANGED <<requestRow, stepRow, call, signed, refused, skipped>>
          /\ TypeOK
      BY <1>2 DEF Administer, CreateConfig, UpdateConfigSave, ToggleConfig,
                  UpdateConfigRead, UpdateConfigDelete, history, LevelInv
    <2>2. ConfigInv'
      <3>1. ASSUME NEW cfg \in Configs, CreateConfig(cfg) PROVE ConfigInv'
        BY <3>1 DEF LevelInv, ConfigInv, CreateConfig
      <3>2. ASSUME NEW cfg \in Configs, UpdateConfigSave(cfg) PROVE ConfigInv'
        BY <3>2 DEF LevelInv, ConfigInv, UpdateConfigSave
      <3>3. CASE ToggleConfig
        BY <3>3 DEF LevelInv, ConfigInv, ToggleConfig
      <3>4. CASE UpdateConfigRead
        BY <3>4 DEF LevelInv, ConfigInv, UpdateConfigRead
      <3>5. CASE UpdateConfigDelete
        BY <3>5 DEF LevelInv, ConfigInv, UpdateConfigDelete
      <3> QED
        BY <1>2, <3>1, <3>2, <3>3, <3>4, <3>5 DEF Administer
    <2> QED
      BY <2>1, <2>2, RowsSame
  <1> QED
    BY <1>1, <1>2

LEMMA LevelStep == LevelInv /\ [Next]_vars => LevelInv'
  <1> SUFFICES ASSUME LevelInv, [Next]_vars PROVE LevelInv'
    OBVIOUS
  <1>1. TypeOK'
    BY StepType DEF LevelInv
  <1>2. CASE Administer
    BY <1>1, <1>2, AdministerLevel
  <1>3. ASSUME NEW q \in Requests, NEW amount \in Amounts, Submit(q, amount)
        PROVE  LevelInv'
    BY <1>1, <1>3, SubmitLevel
  <1>4. ASSUME NEW q \in Requests, NEW r \in ConfigRows, Act(q, r)
        PROVE  LevelInv'
    BY <1>1, <1>4, ProcessStepLevel DEF Act
  <1>5. ASSUME NEW h \in Handlers, Continue(h) PROVE LevelInv'
    BY <1>1, <1>5, AuthoriseLevel, SaveLevel, FlushStepLevel, CountLevel, ScanLevel,
       SkipLevel, AdvanceLevel, ApproveLevel, FlushSkipLevel, FlushRequestLevel
       DEF Continue
  <1>6. ASSUME NEW h \in Handlers, Crash(h) PROVE LevelInv'
    BY <1>1, <1>6, CrashLevel
  <1>7. CASE UNCHANGED vars
    <2>1. ConfigInv'
      BY <1>7 DEF vars, LevelInv, ConfigInv
    <2> QED
      BY <1>1, <1>7, <2>1, RowsSame DEF vars
  <1> QED
    BY <1>2, <1>3, <1>4, <1>5, <1>6, <1>7 DEF Next

\* No order of an approval is jumped: whatever calls interleave or die between
\* two repository calls, whatever stale entity save() writes back and however
\* the configuration is edited, a request that stands at an order or is
\* APPROVED has every order below, respectively every order, settled.
THEOREM LevelsSettled == Spec => []NoUnsignedAdvance
  <1>1. LevelInv => NoUnsignedAdvance
    <2> SUFFICES ASSUME LevelInv, NEW q \in Requests, Exists(q),
                        NEW r \in RowsOf(q),
                        r.order < requestRow[q].current_step
                          \/ requestRow[q].status = "APPROVED"
                 PROVE  Settled(q, r.order)
      BY DEF NoUnsignedAdvance
    <2> QED
      BY DEF LevelInv, RequestInv, EntityInv, Below, AllSettled
  <1> QED
    BY <1>1, LevelInit, LevelStep, PTL DEF Spec

-----------------------------------------------------------------------------
(* One call at a time: the steps stored agree with the decision stored *)

\* Handlers run one at a time.
Serial == \A g, h \in Handlers : g = h

\* Every configuration asks for one approver at each order, and edits keep which
\* orders are optional.
SingleChains ==
  /\ \A cfg \in Configs : \A r, s \in cfg : r.order = s.order => r = s
  /\ \A r, s \in UNION Configs :
       r.required = 1 /\ (r.order = s.order => r.mandatory = s.mandatory)

Open == {"PENDING", "IN_PROGRESS"}

Done(q, r) == \/ stepRow[q][r].status = "APPROVED"
              \/ stepRow[q][r].status = "SKIPPED" /\ ~ r.mandatory

\* Done up to some order, and pending from there on.
Front(q) ==
  \A r \in RowsOf(q) :
    \/ Done(q, r)
    \/ \A s \in RowsOf(q) : s.order >= r.order => stepRow[q][s].status = "PENDING"

\* Someone can move a request that stands at order k.
Waiting(q, k) ==
  /\ Front(q)
  /\ \E r \in RowsAt(q, k) : stepRow[q][r].status = "PENDING"
  /\ \A r \in RowsOf(q) : r.order < k => Done(q, r)

\* The steps stored agree with what row e says of request q.
Agrees(q, e) ==
  /\ e.status \in RequestStatus
  /\ e.status \in Open => Waiting(q, e.current_step)
  /\ e.status = "APPROVED" => \A r \in RowsOf(q) : Done(q, r)
  /\ e.status = "REJECTED" =>
       \A r \in RowsAt(q, e.current_step) : stepRow[q][r].status # "PENDING"

\* A call that died has left the step decided and the request where it was.
Stuck(q) ==
  /\ CrashesAllowed /\ requestRow[q].status \in Open
  /\ \A r \in RowsAt(q, requestRow[q].current_step) : stepRow[q][r].status # "PENDING"

InCall(q) == \E h \in Handlers : call[h].pc # "idle" /\ call[h].request = q

RestInv == \A q \in Requests :
  Exists(q) /\ ~ InCall(q) => Agrees(q, requestRow[q]) \/ Stuck(q)

RowsInv == \A q \in Requests : \A r, s \in RowsOf(q) :
  r \in UNION Configs /\ (r.order = s.order => r = s)

Holds(c) ==
  LET q == c.request
  IN  /\ requestRow[q].status \in Open /\ requestRow[q].current_step = c.row.order
      /\ c.row \in RowsOf(q)
      /\ c.pc \in {"authorise", "saveStep", "flushStep"} => Waiting(q, c.row.order)
      /\ c.pc \in {"saveStep", "flushStep"} => c.step.status = c.action
      /\ c.pc = "flushStep" => "status" \in c.dirty
      /\ c.pc \in {"saveStep", "flushStep", "count"} => c.required = 1
      /\ c.pc \in {"count", "scan", "skip", "saveSkip", "flushSkip"} =>
           Front(q) /\ stepRow[q][c.row].status = "APPROVED"
      /\ c.pc \in {"skip", "saveSkip", "flushSkip"} => c.seen = stepRow[q]
      /\ c.pc \in {"saveSkip", "flushSkip"} =>
           /\ c.target \in NextPending(c) /\ ~ c.target.mandatory
           /\ c.step = [c.seen[c.target] EXCEPT !.status = "SKIPPED"]
      /\ c.pc = "flushSkip" => c.dirty = DirtyStep(c.step, stepRow[q][c.target])
      /\ IF c.pc \in {"saveRequest", "flushRequest"} THEN Agrees(q, c.entity)
                                                     ELSE c.entity = requestRow[q]
      /\ c.pc \in {"saveRequest", "flushRequest"} => stepRow[q][c.row].status # "PENDING"
      /\ c.pc = "flushRequest" => c.dirty = DirtyRequest(c.entity, requestRow[q])

CallsInv == \A h \in Handlers : call[h].pc # "idle" /\ Exists(call[h].request) => Holds(call[h])

SerialInv == TypeOK /\ ConfigInv /\ RowsInv /\ RestInv /\ CallsInv

\* What the invariant says of a request depends on its rows only.
LEMMA SameRows ==
  ASSUME NEW q, stepRow'[q] = stepRow[q], requestRow'[q] = requestRow[q]
  PROVE  /\ RowsOf(q)' = RowsOf(q) /\ (Exists(q)' <=> Exists(q))
         /\ \A e : Agrees(q, e)' <=> Agrees(q, e)
         /\ Stuck(q)' <=> Stuck(q)
         /\ \A c : c.request = q => (Holds(c)' <=> Holds(c))
  <1>1. RowsOf(q)' = RowsOf(q) /\ (Exists(q)' <=> Exists(q))
    BY DEF RowsOf, Exists
  <1>2. \A k : RowsAt(q, k)' = RowsAt(q, k)
    BY <1>1 DEF RowsAt
  <1>3. Front(q)' <=> Front(q)
    BY <1>1 DEF Front, Done
  <1>4. \A k : Waiting(q, k)' <=> Waiting(q, k)
    BY <1>1, <1>2, <1>3 DEF Waiting, Done
  <1>5. \A e : Agrees(q, e)' <=> Agrees(q, e)
    BY <1>1, <1>2, <1>4 DEF Agrees, Done
  <1>6. Stuck(q)' <=> Stuck(q)
    BY <1>2 DEF Stuck
  <1>7. ASSUME NEW c, c.request = q PROVE Holds(c)' <=> Holds(c)
    BY <1>1, <1>3, <1>4, <1>5, <1>7 DEF Holds, NextPending, LaterPending
  <1> QED
    BY <1>1, <1>5, <1>6, <1>7

\* A step of the one call there is, that goes on with d, about request q0.
LEMMA SerialAt ==
  ASSUME SerialInv, Serial, TypeOK', NEW h \in Handlers, NEW q0 \in Requests, NEW d,
         call' = [call EXCEPT ![h] = d], UNCHANGED configVars,
         call[h].pc # "idle" => call[h].request = q0,
         \A q \in Requests \ {q0} : requestRow'[q] = requestRow[q] /\ stepRow'[q] = stepRow[q],
         RowsOf(q0)' = RowsOf(q0), Exists(q0)' <=> Exists(q0),
         ~ Exists(q0) => requestRow'[q0] = requestRow[q0],
         d.pc # "idle" => d.request = q0 /\ (Exists(q0) => Holds(d)'),
         d.pc = "idle" /\ Exists(q0) => Agrees(q0, requestRow[q0])' \/ Stuck(q0)'
  PROVE  SerialInv'
  <1>1. \A g \in Handlers : g = h
    BY DEF Serial
  <1>2. call'[h] = d
    BY DEF SerialInv, TypeOK
  <1>3. ConfigInv'
    BY DEF SerialInv, ConfigInv, configVars, Exists, RequestStatus
  <1>4. \A q \in Requests : RowsOf(q)' = RowsOf(q)
    BY SameRows
  <1>5. RowsInv'
    BY <1>4 DEF SerialInv, RowsInv
  <1>6. ASSUME NEW q \in Requests, Exists(q)', ~ InCall(q)'
        PROVE  Agrees(q, requestRow[q])' \/ Stuck(q)'
    <2>1. CASE q = q0
      <3>1. d.pc = "idle"
        BY <1>2, <1>6, <2>1 DEF InCall
      <3> QED
        BY <1>6, <2>1, <3>1
    <2>2. CASE q # q0
      <3>1. stepRow'[q] = stepRow[q] /\ requestRow'[q] = requestRow[q]
        BY <2>2
      <3>2. ~ InCall(q) /\ Exists(q)
        BY <1>1, <1>6, <2>2, <3>1, SameRows DEF InCall
      <3>3. Agrees(q, requestRow[q]) \/ Stuck(q)
        BY <3>2 DEF SerialInv, RestInv
      <3>4. PICK e : e = requestRow[q]
        OBVIOUS
      <3>5. Agrees(q, e)' \/ Stuck(q)'
        BY <3>1, <3>3, <3>4, SameRows
      <3> QED
        BY <3>1, <3>4, <3>5
    <2> QED
      BY <2>1, <2>2
  <1>7. RestInv'
    BY <1>6 DEF RestInv
  <1>8. CallsInv'
    BY <1>1, <1>2 DEF CallsInv
  <1> QED
    BY <1>3, <1>5, <1>7, <1>8 DEF SerialInv

\* A step that reads.
LEMMA SerialQuiet ==
  ASSUME SerialInv, Serial, TypeOK', NEW h \in Handlers, NEW q \in Requests, NEW d,
         call' = [call EXCEPT ![h] = d], UNCHANGED <<configVars, requestRow, stepRow>>,
         call[h].pc # "idle" => call[h].request = q,
         d.pc # "idle" => d.request = q /\ (Exists(q) => Holds(d)),
         d.pc = "idle" /\ Exists(q) => Agrees(q, requestRow[q]) \/ Stuck(q)
  PROVE  SerialInv'
  <1>1. stepRow'[q] = stepRow[q] /\ requestRow'[q] = requestRow[q]
    OBVIOUS
  <1>2. PICK e : e = requestRow[q]
    OBVIOUS
  <1>3. /\ RowsOf(q)' = RowsOf(q) /\ (Exists(q)' <=> Exists(q))
        /\ Agrees(q, e)' <=> Agrees(q, e)
        /\ Stuck(q)' <=> Stuck(q)
        /\ d.request = q => (Holds(d)' <=> Holds(d))
    BY <1>1, SameRows
  <1>4. Agrees(q, requestRow[q])' <=> Agrees(q, requestRow[q])
    BY <1>1, <1>2, <1>3
  <1> QED
    BY <1>3, <1>4, SerialAt

LEMMA CallIs ==
  ASSUME SerialInv, NEW h \in Handlers
  PROVE  /\ call[h] \in Calls /\ call[h].request \in Requests
         /\ call[h].pc # "idle" /\ Exists(call[h].request) => Holds(call[h])
  BY DEF SerialInv, TypeOK, CallsInv, Calls

\* A call that ends, or dies, where the request may be left as it is.
LEMMA SerialEnds ==
  ASSUME SerialInv, Serial, TypeOK', NEW h \in Handlers, Finish(h),
         UNCHANGED <<configVars, requestRow, stepRow>>, call[h].pc # "idle",
         \/ ~ Exists(call[h].request)
         \/ CrashesAllowed
         \/ call[h].pc \in {"authorise", "saveStep", "flushStep"}
  PROVE  SerialInv'
  <1>1. PICK c, q : c = call[h] /\ q = c.request
    OBVIOUS
  <1>2. q \in Requests /\ c \in Calls /\ (Exists(q) => Holds(c))
    BY <1>1, CallIs
  <1>3. ASSUME Exists(q) PROVE Agrees(q, requestRow[q]) \/ Stuck(q)
    <2>1. Holds(c) /\ requestRow[q].status \in Open /\ requestRow[q].current_step = c.row.order
          /\ c.row \in RowsOf(q)
      BY <1>1, <1>2, <1>3 DEF Holds
    <2>2. CASE c.pc \in {"authorise", "saveStep", "flushStep"}
      <3>1. Waiting(q, c.row.order)
        BY <1>1, <2>1, <2>2 DEF Holds
      <3> QED
        BY <2>1, <3>1 DEF Agrees, Open, RequestStatus
    <2>3. CASE CrashesAllowed /\ c.pc \notin {"authorise", "saveStep", "flushStep"}
      <3>1. c.pc \in {"count", "scan", "skip", "saveSkip", "flushSkip", "saveRequest", "flushRequest"}
        BY <1>1, <1>2, <2>3 DEF Calls, PCs
      <3>2. stepRow[q][c.row].status # "PENDING"
        BY <1>1, <2>1, <3>1 DEF Holds
      <3>3. \A r \in RowsAt(q, c.row.order) : r = c.row
        BY <1>2, <2>1 DEF SerialInv, RowsInv, RowsAt
      <3> QED
        BY <2>1, <2>3, <3>2, <3>3 DEF Stuck
    <2> QED
      BY <1>1, <1>3, <2>2, <2>3
  <1> QED
    BY <1>1, <1>2, <1>3, SerialQuiet DEF Finish, IdleCall

\* A call begins where the request waits.
LEMMA ProcessStepSerial ==
  ASSUME SerialInv, Serial, TypeOK', NEW h \in Handlers, NEW q \in Requests,
         NEW r \in ConfigRows, NEW u \in Users, NEW a \in {"APPROVED", "REJECTED"},
         ProcessStep(h, q, r, u, a)
  PROVE  SerialInv'
  <1>1. PICK d : d = [IdleCall EXCEPT !.pc = "authorise", !.request = q, !.row = r,
                     !.user = u, !.action = a,
                     !.entity = requestRow[q], !.step = stepRow[q][r]]
    OBVIOUS
  <1>2. /\ d.pc = "authorise" /\ d.request = q /\ d.row = r
        /\ d.entity = requestRow[q]
    BY <1>1 DEF IdleCall
  <1>3. /\ Exists(q) /\ stepRow[q][r].status = "PENDING" /\ call[h].pc = "idle"
        /\ r.order = requestRow[q].current_step /\ call' = [call EXCEPT ![h] = d]
        /\ UNCHANGED <<configVars, requestRow, stepRow>>
    BY <1>1 DEF ProcessStep
  <1>4. ~ InCall(q)
    BY <1>3 DEF InCall, Serial
  <1>5. Agrees(q, requestRow[q]) \/ Stuck(q)
    BY <1>3, <1>4 DEF SerialInv, RestInv
  <1>6. r \in RowsOf(q) /\ r \in RowsAt(q, requestRow[q].current_step)
    BY <1>3 DEF RowsAt, RowsOf
  <1>7. requestRow[q].status \in Open /\ Waiting(q, r.order)
    BY <1>3, <1>5, <1>6 DEF Stuck, Agrees, Done, Open, RequestStatus
  <1>8. Holds(d)
    BY <1>2, <1>3, <1>6, <1>7 DEF Holds
  <1> QED
    BY <1>2, <1>3, <1>8, SerialQuiet

LEMMA AuthoriseSerial ==
  ASSUME SerialInv, Serial, SingleChains, TypeOK', NEW h \in Handlers, Authorise(h)
  PROVE  SerialInv'
  <1>1. PICK c, q : c = call[h] /\ q = c.request
    OBVIOUS
  <1>2. q \in Requests /\ c \in Calls /\ c.pc = "authorise" /\ (Exists(q) => Holds(c))
    BY <1>1, CallIs DEF Authorise
  <1>3. PICK cs \in ConfigStepsFor(c.row.order) :
          IF MayAct(c, cs)
          THEN Goto(h, [c EXCEPT !.required = RequiredCount(cs),
                                 !.step = [status |-> c.action,
                                           approver_id |-> c.user]], "saveStep")
          ELSE Finish(h)
    BY <1>1 DEF Authorise
  <1>4. UNCHANGED <<configVars, requestRow, stepRow>>
    BY DEF Authorise
  <1>5. CASE Finish(h)
    BY <1>1, <1>2, <1>4, <1>5, SerialEnds
  <1>6. CASE ~ Finish(h)
    <2>1. PICK d : d = [c EXCEPT !.required = RequiredCount(cs),
                                 !.step = [status |-> c.action,
                                           approver_id |-> c.user],
                                 !.pc = "saveStep"]
      OBVIOUS
    <2>2. call' = [call EXCEPT ![h] = d]
      BY <1>3, <1>6, <2>1, <1>2 DEF Goto, Calls
    <2>3. /\ d.pc = "saveStep" /\ d.request = q /\ d.row = c.row
          /\ d.entity = c.entity /\ d.required = RequiredCount(cs)
          /\ d.step.status = d.action
      BY <1>1, <1>2, <2>1 DEF Calls
    <2>4. ASSUME Exists(q) PROVE Holds(d)
      <3>1. Holds(c)
        BY <1>2, <2>4
      <3>2. rows \in Configs
        BY <1>2, <2>4 DEF SerialInv, ConfigInv, Exists, RequestStatus
      <3>3. RequiredCount(cs) = 1
        BY <1>3, <3>2 DEF SingleChains, RequiredCount, ConfigStepsFor
      <3> QED
        BY <1>1, <1>2, <2>3, <3>1, <3>3 DEF Holds
    <2> QED
      BY <1>1, <1>2, <1>4, <2>2, <2>3, <2>4, SerialQuiet
  <1> QED
    BY <1>5, <1>6

\* The SELECTs of save(), alone, find what was loaded.
LEMMA SaveSerial ==
  ASSUME SerialInv, Serial, TypeOK', NEW h \in Handlers,
         SaveStep(h) \/ SaveSkip(h) \/ SaveRequest(h)
  PROVE  SerialInv'
  <1>1. PICK c, q : c = call[h] /\ q = c.request
    OBVIOUS
  <1>2. q \in Requests /\ c \in Calls /\ (Exists(q) => Holds(c)) /\ c.pc # "idle"
    BY <1>1, CallIs DEF SaveStep, SaveSkip, SaveRequest
  <1>3. UNCHANGED <<configVars, requestRow, stepRow>>
    BY DEF SaveStep, SaveSkip, SaveRequest
  <1>4. CASE ~ Exists(q)
    BY <1>1, <1>2, <1>3, <1>4, SerialEnds DEF SaveStep, SaveSkip, SaveRequest
  <1>5. CASE Exists(q)
    <2>1. PICK dirty, pc :
            /\ \/ /\ c.pc = "saveStep" /\ pc = "flushStep"
                  /\ dirty = DirtyStep(c.step, stepRow[q][c.row])
               \/ /\ c.pc = "saveSkip" /\ pc = "flushSkip"
                  /\ dirty = DirtyStep(c.step, stepRow[q][c.target])
               \/ /\ c.pc = "saveRequest" /\ pc = "flushRequest"
                  /\ dirty = DirtyRequest(c.entity, requestRow[q])
            /\ Goto(h, [c EXCEPT !.dirty = dirty], pc)
      BY <1>1, <1>5 DEF SaveStep, SaveSkip, SaveRequest
    <2>2. PICK d : d = [c EXCEPT !.dirty = dirty, !.pc = pc]
      OBVIOUS
    <2>3. call' = [call EXCEPT ![h] = d]
      BY <1>2, <2>1, <2>2 DEF Goto, Calls
    <2>4. /\ d.pc = pc /\ d.request = c.request /\ d.row = c.row /\ d.dirty = dirty
          /\ d.entity = c.entity /\ d.required = c.required /\ d.action = c.action
          /\ d.step = c.step /\ d.seen = c.seen /\ d.target = c.target
      BY <1>2, <2>2 DEF Calls
    <2>5. NextPending(d) = NextPending(c)
      BY <2>4 DEF NextPending, LaterPending
    <2>6. Holds(c)
      BY <1>2, <1>5
    <2>7. Holds(d)
      <3>1. CASE c.pc = "saveStep"
        <4>1. stepRow[q][c.row].status = "PENDING"
          <5>1. Waiting(q, c.row.order) /\ c.row \in RowsOf(q)
            BY <1>1, <2>6, <3>1 DEF Holds
          <5> QED
            BY <1>2, <5>1 DEF Waiting, RowsAt, SerialInv, RowsInv
        <4>2. "status" \in dirty
          BY <1>1, <1>2, <2>1, <2>6, <3>1, <4>1 DEF DirtyStep, Holds, Calls
        <4> QED
          BY <1>1, <2>1, <2>4, <2>6, <3>1, <4>2 DEF Holds
      <3>2. CASE c.pc = "saveSkip"
        BY <1>1, <2>1, <2>4, <2>5, <2>6, <3>2 DEF Holds
      <3>3. CASE c.pc = "saveRequest"
        BY <1>1, <2>1, <2>4, <2>6, <3>3 DEF Holds
      <3> QED
        BY <2>1, <3>1, <3>2, <3>3
    <2> QED
      BY <1>1, <1>2, <1>3, <2>1, <2>3, <2>4, <2>7, SerialQuiet
  <1> QED
    BY <1>4, <1>5

\* One approval is enough; then all steps are read.
LEMMA CountSerial ==
  ASSUME SerialInv, Serial, TypeOK', NEW h \in Handlers, CountApprovals(h) \/ ScanSteps(h)
  PROVE  SerialInv'
  <1>1. PICK c, q : c = call[h] /\ q = c.request
    OBVIOUS
  <1>2. q \in Requests /\ c \in Calls /\ (Exists(q) => Holds(c)) /\ c.pc # "idle"
    BY <1>1, CallIs DEF CountApprovals, ScanSteps
  <1>3. UNCHANGED <<configVars, requestRow, stepRow>>
    BY DEF CountApprovals, ScanSteps
  <1>4. CASE ScanSteps(h)
    <2>1. PICK d : d = [c EXCEPT !.seen = stepRow[q], !.pc = "skip"]
      OBVIOUS
    <2>2. call' = [call EXCEPT ![h] = d] /\ c.pc = "scan"
      BY <1>1, <1>2, <1>4, <2>1 DEF ScanSteps, Goto, Calls
    <2>3. /\ d.pc = "skip" /\ d.request = c.request /\ d.row = c.row
          /\ d.entity = c.entity /\ d.seen = stepRow[q]
      BY <1>2, <2>1 DEF Calls
    <2>4. Exists(q) => Holds(d)
      BY <1>1, <1>2, <2>2, <2>3 DEF Holds
    <2> QED
      BY <1>1, <1>2, <1>3, <2>2, <2>3, <2>4, SerialQuiet
  <1>5. CASE CountApprovals(h) /\ ~ Exists(q)
    <2>1. PICK d : /\ d \in {[c EXCEPT !.entity.status = "IN_PROGRESS", !.pc = "saveRequest"],
                             [c EXCEPT !.pc = "scan"]}
                   /\ call' = [call EXCEPT ![h] = d]
      BY <1>1, <1>2, <1>5 DEF CountApprovals, Goto, Calls
    <2>2. d.request = c.request /\ d.pc # "idle"
      BY <1>2, <2>1 DEF Calls
    <2> QED
      BY <1>1, <1>2, <1>3, <1>5, <2>1, <2>2, SerialQuiet
  <1>6. CASE CountApprovals(h) /\ Exists(q)
    <2>1. Holds(c) /\ c.pc = "count" /\ c.required = 1
      BY <1>1, <1>2, <1>6 DEF Holds, CountApprovals
    <2>2. ~ (ApprovedCount(q, c.row.order) < c.required)
      <3> DEFINE A == {r \in RowsAt(q, c.row.order) : stepRow[q][r].status = "APPROVED"}
      <3>1. c.row \in A
        BY <1>1, <2>1 DEF Holds, RowsAt
      <3>2. IsFiniteSet(A)
        <4>1. A \subseteq ConfigRows
          BY DEF RowsAt, RowsOf
        <4> QED
          BY <4>1, ConfigAssumption, FS_Subset
      <3>3. Cardinality(A) \in Nat /\ Cardinality(A) # 0
        BY <3>1, <3>2, FS_CardinalityType, FS_EmptySet
      <3> QED
        BY <2>1, <3>3 DEF ApprovedCount
    <2>3. PICK d : d = [c EXCEPT !.pc = "scan"]
      OBVIOUS
    <2>4. call' = [call EXCEPT ![h] = d]
      BY <1>1, <1>2, <1>6, <2>2, <2>3 DEF CountApprovals, Goto, Calls
    <2>5. d.pc = "scan" /\ d.request = c.request /\ d.row = c.row /\ d.entity = c.entity
      BY <1>2, <2>3 DEF Calls
    <2>6. Holds(d)
      BY <1>1, <2>1, <2>5 DEF Holds
    <2> QED
      BY <1>1, <1>2, <1>3, <2>1, <2>4, <2>5, <2>6, SerialQuiet
  <1> QED
    BY <1>4, <1>5, <1>6

\* Behind the front, a row that is not pending is done.
LEMMA FrontDone ==
  ASSUME NEW q, Front(q), NEW r \in RowsOf(q), stepRow[q][r].status # "PENDING"
  PROVE  Done(q, r)
  <1>1. r.order \in Nat
    BY ConfigAssumption DEF ConfigRow, RowsOf
  <1> QED
    BY <1>1 DEF Front

\* The order of the call's row is behind the front.
LEMMA BehindDone ==
  ASSUME NEW q, Front(q), NEW s \in RowsOf(q), stepRow[q][s].status = "APPROVED",
         NEW r \in RowsOf(q), r.order <= s.order
  PROVE  Done(q, r)
  BY DEF Front

\* The skip loop tells the first row that is pending.
LEMMA LoopSerial ==
  ASSUME SerialInv, Serial, SingleChains, TypeOK', NEW h \in Handlers,
         SkipOptional(h) \/ Advance(h) \/ ApproveRequest(h)
  PROVE  SerialInv'
  <1>1. PICK c, q : c = call[h] /\ q = c.request
    OBVIOUS
  <1>2. q \in Requests /\ c \in Calls /\ (Exists(q) => Holds(c)) /\ c.pc = "skip"
    BY <1>1, CallIs DEF SkipOptional, Advance, ApproveRequest
  <1>3. UNCHANGED <<configVars, requestRow, stepRow>>
    BY DEF SkipOptional, Advance, ApproveRequest
  <1>4. ASSUME Exists(q)
        PROVE  /\ Holds(c) /\ Front(q) /\ c.seen = stepRow[q]
               /\ c.row \in RowsOf(q) /\ stepRow[q][c.row].status = "APPROVED"
               /\ c.entity = requestRow[q] /\ rows \in Configs
    BY <1>1, <1>2, <1>4 DEF Holds, SerialInv, ConfigInv, Exists, RequestStatus
  <1>5. \A r \in ConfigRows : r.order \in Nat
    BY ConfigAssumption DEF ConfigRow
  <1>6. CASE SkipOptional(h)
    <2>0. PICK s \in NextPending(c) :
            \E cs \in ConfigStepsFor(s.order) :
              /\ cs # NoRow /\ ~ cs.mandatory
              /\ Goto(h, [c EXCEPT !.target = s,
                                   !.step = [c.seen[s] EXCEPT !.status = "SKIPPED"]],
                      "saveSkip")
      BY <1>1, <1>6 DEF SkipOptional
    <2>1. PICK cs \in ConfigStepsFor(s.order) :
            /\ cs # NoRow /\ ~ cs.mandatory
            /\ Goto(h, [c EXCEPT !.target = s,
                                 !.step = [c.seen[s] EXCEPT !.status = "SKIPPED"]],
                    "saveSkip")
      BY <2>0
    <2>2. PICK d : d = [c EXCEPT !.target = s,
                                 !.step = [c.seen[s] EXCEPT !.status = "SKIPPED"],
                                 !.pc = "saveSkip"]
      OBVIOUS
    <2>3. call' = [call EXCEPT ![h] = d]
      BY <1>2, <2>1, <2>2 DEF Goto, Calls
    <2>4. /\ d.pc = "saveSkip" /\ d.request = c.request /\ d.row = c.row
          /\ d.entity = c.entity /\ d.seen = c.seen /\ d.target = s
          /\ d.step = [c.seen[s] EXCEPT !.status = "SKIPPED"]
      BY <1>2, <2>2 DEF Calls
    <2>5. NextPending(d) = NextPending(c)
      BY <2>4 DEF NextPending, LaterPending
    <2>6. ASSUME Exists(q) PROVE ~ s.mandatory
      <3>1. s \in RowsOf(q)
        BY <1>4, <2>1, <2>6 DEF NextPending, LaterPending, RowsOf
      <3>2. s \in UNION Configs
        BY <1>2, <3>1 DEF SerialInv, RowsInv
      <3>3. cs \in UNION Configs /\ cs.order = s.order
        BY <1>4, <2>1, <2>6 DEF ConfigStepsFor
      <3> QED
        BY <2>1, <3>2, <3>3 DEF SingleChains
    <2>7. ASSUME Exists(q) PROVE Holds(d)
      BY <1>1, <1>2, <1>4, <2>1, <2>4, <2>5, <2>6, <2>7 DEF Holds
    <2> QED
      BY <1>1, <1>2, <1>3, <2>3, <2>4, <2>7, SerialQuiet
  <1>7. CASE Advance(h)
    <2>1. PICK s \in NextPending(c) :
            Goto(h, [c EXCEPT !.entity.current_step = s.order,
                              !.entity.status = "IN_PROGRESS"], "saveRequest")
      BY <1>1, <1>7 DEF Advance
    <2>2. PICK d : d = [c EXCEPT !.entity.current_step = s.order,
                                 !.entity.status = "IN_PROGRESS", !.pc = "saveRequest"]
      OBVIOUS
    <2>3. call' = [call EXCEPT ![h] = d]
      BY <1>2, <2>1, <2>2 DEF Goto, Calls
    <2>4. /\ d.pc = "saveRequest" /\ d.request = c.request /\ d.row = c.row
          /\ d.entity.status = "IN_PROGRESS" /\ d.entity.current_step = s.order
      BY <1>2, <2>2 DEF Calls, RequestRows
    <2>5. ASSUME Exists(q) PROVE Waiting(q, s.order)
      <3>1. s \in RowsAt(q, s.order) /\ stepRow[q][s].status = "PENDING"
        BY <1>4, <2>1, <2>5 DEF NextPending, LaterPending, RowsOf, RowsAt
      <3>2. ASSUME NEW r \in RowsOf(q), r.order < s.order PROVE Done(q, r)
        <4>0. r \in ConfigRows /\ s \in ConfigRows /\ c.row \in ConfigRows
          BY <2>1, <1>2 DEF RowsOf, NextPending, LaterPending, Calls
        <4>1. CASE r.order <= c.row.order
          BY <1>4, <2>5, <3>2, <4>1, BehindDone
        <4>2. CASE r.order > c.row.order
          <5>1. ~ (s.order <= r.order)
            BY <1>5, <3>2, <4>0
          <5>2. r \notin LaterPending(c)
            BY <2>1, <5>1 DEF NextPending
          <5>3. stepRow[q][r].status # "PENDING"
            BY <1>4, <2>5, <4>0, <4>2, <5>2 DEF LaterPending
          <5> QED
            BY <1>4, <2>5, <3>2, <5>3, FrontDone
        <4> QED
          BY <1>5, <4>0, <4>1, <4>2
      <3> QED
        BY <1>4, <2>5, <3>1, <3>2 DEF Waiting
    <2>6. ASSUME Exists(q) PROVE Holds(d)
      <3>1. Agrees(q, d.entity)
        BY <2>4, <2>5, <2>6 DEF Agrees, RequestStatus
      <3> QED
        BY <1>1, <1>4, <2>4, <2>6, <3>1 DEF Holds
    <2> QED
      BY <1>1, <1>2, <1>3, <2>3, <2>4, <2>6, SerialQuiet
  <1>8. CASE ApproveRequest(h)
    <2>2. PICK d : d = [c EXCEPT !.entity.status = "APPROVED",
                                 !.entity.resolved_at = TRUE, !.pc = "saveRequest"]
      OBVIOUS
    <2>3. call' = [call EXCEPT ![h] = d] /\ LaterPending(c) = {}
      BY <1>1, <1>2, <1>8, <2>2 DEF Goto, Calls, ApproveRequest
    <2>4. /\ d.pc = "saveRequest" /\ d.request = c.request /\ d.row = c.row
          /\ d.entity.status = "APPROVED"
      BY <1>2, <2>2 DEF Calls, RequestRows
    <2>5. ASSUME Exists(q), NEW r \in RowsOf(q) PROVE Done(q, r)
      <3>0. r \in ConfigRows /\ c.row \in ConfigRows
        BY <1>2 DEF RowsOf, Calls
      <3>1. CASE r.order <= c.row.order
        BY <1>4, <2>5, <3>1, BehindDone
      <3>2. CASE r.order > c.row.order
        <4>1. stepRow[q][r].status # "PENDING"
          BY <1>4, <2>3, <2>5, <3>0, <3>2 DEF LaterPending
        <4> QED
          BY <1>4, <2>5, <4>1, FrontDone
      <3> QED
        BY <1>5, <3>0, <3>1, <3>2
    <2>6. ASSUME Exists(q) PROVE Holds(d)
      <3>1. Agrees(q, d.entity)
        BY <2>4, <2>5, <2>6 DEF Agrees, RequestStatus, Open
      <3> QED
        BY <1>1, <1>4, <2>4, <2>6, <3>1 DEF Holds
    <2> QED
      BY <1>1, <1>2, <1>3, <2>3, <2>4, <2>6, SerialQuiet
  <1> QED
    BY <1>6, <1>7, <1>8

\* Nothing of SerialInv is about a request that is gone.
LEMMA FlushGone ==
  ASSUME SerialInv, Serial, TypeOK', NEW h \in Handlers, ~ Exists(call[h].request),
         FlushStep(h) \/ FlushSkip(h) \/ FlushRequest(h)
  PROVE  SerialInv'
  <1>1. PICK c, q : c = call[h] /\ q = c.request
    OBVIOUS
  <1>2. q \in Requests /\ c \in Calls /\ ~ Exists(q)
    BY <1>1, CallIs
  <1>3. UNCHANGED <<configVars, requestRow, stepRow>>
    BY DEF FlushStep, FlushSkip, FlushRequest
  <1>4. ASSUME NEW d, call' = [call EXCEPT ![h] = d], d.pc # "idle" => d.request = q
        PROVE  SerialInv'
    BY <1>1, <1>2, <1>3, <1>4, SerialQuiet
  <1>5. CASE FlushStep(h)
    <2>1. PICK d, e : /\ d = [c EXCEPT !.entity.status = "REJECTED",
                                      !.entity.resolved_at = TRUE, !.pc = "saveRequest"]
                      /\ e = [c EXCEPT !.pc = "count"]
      OBVIOUS
    <2>2. d.request = q /\ e.request = q
      BY <1>1, <1>2, <2>1 DEF Calls
    <2>3. call' = [call EXCEPT ![h] = d] \/ call' = [call EXCEPT ![h] = e]
      BY <1>1, <1>2, <1>5, <2>1 DEF FlushStep, Goto, Calls
    <2> QED
      BY <1>4, <2>2, <2>3
  <1>6. CASE FlushSkip(h)
    <2>1. PICK d : d = [c EXCEPT !.seen[c.target] = c.step, !.pc = "skip"]
      OBVIOUS
    <2>2. d.request = q
      BY <1>1, <1>2, <2>1 DEF Calls
    <2>3. call' = [call EXCEPT ![h] = d]
      BY <1>1, <1>2, <1>6, <2>1 DEF FlushSkip, Goto, Calls
    <2> QED
      BY <1>4, <2>2, <2>3
  <1>7. CASE FlushRequest(h)
    <2>1. IdleCall.pc = "idle"
      BY DEF IdleCall
    <2> QED
      BY <1>4, <1>7, <2>1 DEF FlushRequest, Finish
  <1> QED
    BY <1>5, <1>6, <1>7

\* A step that stands at the front is decided: the front moves behind it.
LEMMA FrontMoves ==
  ASSUME NEW q, RowsOf(q)' = RowsOf(q), Front(q), NEW t \in RowsOf(q), Done(q, t)',
         \A r, s \in RowsOf(q) : r.order = s.order => r = s,
         \A r \in RowsOf(q) : r # t => stepRow'[q][r] = stepRow[q][r],
         \A r \in RowsOf(q) : r.order < t.order => Done(q, r)
  PROVE  Front(q)'
  <1> SUFFICES ASSUME NEW r \in RowsOf(q), ~ Done(q, r)',
                      NEW s \in RowsOf(q), s.order >= r.order
               PROVE  stepRow'[q][s].status = "PENDING"
    BY DEF Front
  <1>1. r # t /\ ~ Done(q, r)
    BY DEF Done
  <1>2. stepRow[q][s].status = "PENDING"
    BY <1>1 DEF Front
  <1>3. \A x \in RowsOf(q) : x.order \in Nat
    BY ConfigAssumption DEF ConfigRow, RowsOf
  <1>4. r.order > t.order
    BY <1>1, <1>3
  <1>5. s # t
    BY <1>3, <1>4
  <1> QED
    BY <1>2, <1>5

\* The UPDATE of a step that waits decides it.
LEMMA FlushStepSerial ==
  ASSUME SerialInv, Serial, TypeOK', NEW h \in Handlers, Exists(call[h].request),
         FlushStep(h)
  PROVE  SerialInv'
  <1>1. PICK c, q, t : c = call[h] /\ q = c.request /\ t = c.row
    OBVIOUS
  <1>2. /\ q \in Requests /\ c \in Calls /\ Exists(q) /\ Holds(c) /\ c.pc = "flushStep"
        /\ t \in ConfigRows /\ TypeOK
    BY <1>1, CallIs DEF FlushStep, Calls, SerialInv
  <1>3. /\ requestRow[q].status \in Open /\ requestRow[q].current_step = t.order
        /\ t \in RowsOf(q) /\ Waiting(q, t.order) /\ c.step.status = c.action
        /\ "status" \in c.dirty /\ c.required = 1 /\ c.entity = requestRow[q]
    BY <1>1, <1>2 DEF Holds
  <1>4. /\ UNCHANGED <<configVars, requestRow>>
        /\ stepRow' = [stepRow EXCEPT ![q][t] = MergeStep(@, c.step, c.dirty)]
    BY <1>1, <1>2 DEF FlushStep
  <1>5. stepRow'[q][t].status = c.action /\ c.action \in {"APPROVED", "REJECTED"}
    <2>1. stepRow'[q][t] = MergeStep(stepRow[q][t], c.step, c.dirty)
      BY <1>2, <1>4 DEF TypeOK
    <2> QED
      BY <1>2, <1>3, <2>1 DEF MergeStep, Calls
  <1>6. \A x \in Requests, y \in ConfigRows :
          x # q \/ y # t => stepRow'[x][y] = stepRow[x][y]
    BY <1>2, <1>4 DEF TypeOK
  <1>7. \A x \in Requests \ {q} : stepRow'[x] = stepRow[x]
    BY <1>2, <1>4 DEF TypeOK
  <1>8. RowsOf(q)' = RowsOf(q)
    BY <1>2, <1>3, <1>5, <1>6 DEF RowsOf
  <1>9. \A r, s \in RowsOf(q) : r.order = s.order => r = s
    BY <1>2 DEF SerialInv, RowsInv
  <1>10. CASE c.action = "REJECTED"
    <2>1. PICK d : d = [c EXCEPT !.entity.status = "REJECTED",
                                 !.entity.resolved_at = TRUE, !.pc = "saveRequest"]
      OBVIOUS
    <2>2. call' = [call EXCEPT ![h] = d]
      BY <1>1, <1>2, <1>10, <2>1 DEF FlushStep, Goto, Calls
    <2>3. /\ d.pc = "saveRequest" /\ d.request = q /\ d.row = t
          /\ d.entity.status = "REJECTED" /\ d.entity.current_step = t.order
      BY <1>1, <1>2, <1>3, <2>1 DEF Calls, RequestRows
    <2>4. \A r \in RowsAt(q, t.order)' : r = t
      BY <1>3, <1>8, <1>9 DEF RowsAt
    <2>5. Agrees(q, d.entity)'
      BY <1>5, <1>10, <2>3, <2>4 DEF Agrees, RequestStatus, Open
    <2>6. Holds(d)'
      BY <1>3, <1>4, <1>5, <1>8, <1>10, <2>3, <2>5 DEF Holds
    <2> QED
      BY <1>1, <1>2, <1>4, <1>7, <1>8, <2>2, <2>3, <2>6, SerialAt DEF Exists
  <1>11. CASE c.action = "APPROVED"
    <2>1. PICK d : d = [c EXCEPT !.pc = "count"]
      OBVIOUS
    <2>2. call' = [call EXCEPT ![h] = d]
      BY <1>1, <1>2, <1>11, <2>1 DEF FlushStep, Goto, Calls
    <2>3. /\ d.pc = "count" /\ d.request = q /\ d.row = t
          /\ d.entity = requestRow[q] /\ d.required = 1
      BY <1>1, <1>2, <1>3, <2>1 DEF Calls
    <2>4. Front(q)'
      <3>1. Done(q, t)'
        BY <1>5, <1>11 DEF Done
      <3>2. Front(q) /\ \A r \in RowsOf(q) : r.order < t.order => Done(q, r)
        BY <1>3 DEF Waiting
      <3>3. \A r \in RowsOf(q) : r # t => stepRow'[q][r] = stepRow[q][r]
        BY <1>2, <1>6 DEF RowsOf
      <3> QED
        BY <1>3, <1>8, <1>9, <3>1, <3>2, <3>3, FrontMoves
    <2>5. Holds(d)'
      BY <1>3, <1>4, <1>5, <1>8, <1>11, <2>3, <2>4 DEF Holds
    <2> QED
      BY <1>1, <1>2, <1>4, <1>7, <1>8, <2>2, <2>3, <2>5, SerialAt DEF Exists
  <1> QED
    BY <1>5, <1>10, <1>11

\* The UPDATE of an optional step that was found pending skips it.
LEMMA FlushSkipSerial ==
  ASSUME SerialInv, Serial, TypeOK', NEW h \in Handlers, Exists(call[h].request),
         FlushSkip(h)
  PROVE  SerialInv'
  <1>1. PICK c, q, t : c = call[h] /\ q = c.request /\ t = c.target
    OBVIOUS
  <1>2. /\ q \in Requests /\ c \in Calls /\ Exists(q) /\ Holds(c) /\ c.pc = "flushSkip"
        /\ t \in ConfigRows /\ TypeOK /\ c.row \in ConfigRows
    BY <1>1, CallIs DEF FlushSkip, Calls, SerialInv
  <1>3. /\ requestRow[q].status \in Open /\ requestRow[q].current_step = c.row.order
        /\ c.row \in RowsOf(q) /\ Front(q) /\ stepRow[q][c.row].status = "APPROVED"
        /\ c.seen = stepRow[q] /\ t \in NextPending(c) /\ ~ t.mandatory
        /\ c.step = [stepRow[q][t] EXCEPT !.status = "SKIPPED"]
        /\ c.dirty = DirtyStep(c.step, stepRow[q][t]) /\ c.entity = requestRow[q]
    BY <1>1, <1>2 DEF Holds
  <1>4. /\ UNCHANGED <<configVars, requestRow>>
        /\ stepRow' = [stepRow EXCEPT ![q][t] = MergeStep(@, c.step, c.dirty)]
    BY <1>1, <1>2 DEF FlushSkip
  <1>5. stepRow'[q][t] = c.step
    <2>1. stepRow'[q][t] = MergeStep(stepRow[q][t], c.step, c.dirty)
      BY <1>2, <1>4 DEF TypeOK
    <2>2. PICK old : old = stepRow[q][t] /\ old \in StepRows
      BY <1>2 DEF TypeOK
    <2>3. MergeStep(old, c.step, DirtyStep(c.step, old)) =
            [status |-> c.step.status, approver_id |-> c.step.approver_id]
      BY DEF MergeStep, DirtyStep
    <2>4. c.step = [status |-> c.step.status, approver_id |-> c.step.approver_id]
      BY <1>2 DEF Calls, StepRows
    <2> QED
      BY <1>3, <2>1, <2>2, <2>3, <2>4
  <1>6. /\ stepRow[q][t].status = "PENDING" /\ t.order > c.row.order
        /\ t \in RowsOf(q) /\ stepRow'[q][t].status = "SKIPPED"
    <2>1. stepRow[q][t].status = "PENDING" /\ t.order > c.row.order
      BY <1>3 DEF NextPending, LaterPending
    <2>2. stepRow'[q][t].status = "SKIPPED"
      BY <1>2, <1>3, <1>5 DEF Calls, StepRows, TypeOK
    <2> QED
      BY <1>2, <2>1, <2>2 DEF RowsOf
  <1>7. \A x \in Requests, y \in ConfigRows :
          x # q \/ y # t => stepRow'[x][y] = stepRow[x][y]
    BY <1>2, <1>4 DEF TypeOK
  <1>8. \A x \in Requests \ {q} : stepRow'[x] = stepRow[x]
    BY <1>2, <1>4 DEF TypeOK
  <1>9. RowsOf(q)' = RowsOf(q)
    BY <1>2, <1>6, <1>7 DEF RowsOf
  <1>10. \A r, s \in RowsOf(q) : r.order = s.order => r = s
    BY <1>2 DEF SerialInv, RowsInv
  <1>11. ASSUME NEW r \in RowsOf(q), r.order < t.order PROVE Done(q, r)
    <2>0. r \in ConfigRows
      BY DEF RowsOf
    <2>1. r.order \in Nat /\ t.order \in Nat /\ c.row.order \in Nat
      BY <1>2, <2>0, ConfigAssumption DEF ConfigRow
    <2>2. CASE r.order <= c.row.order
      BY <1>3, <2>2, BehindDone
    <2>3. CASE r.order > c.row.order
      <3>1. r \notin LaterPending(c)
        BY <1>3, <1>11, <2>1 DEF NextPending
      <3>2. stepRow[q][r].status # "PENDING"
        BY <1>3, <2>0, <2>3, <3>1 DEF LaterPending
      <3> QED
        BY <1>3, <3>2, FrontDone
    <2> QED
      BY <2>1, <2>2, <2>3
  <1>12. Front(q)'
    <2>1. Done(q, t)'
      BY <1>3, <1>6 DEF Done
    <2>2. \A r \in RowsOf(q) : r # t => stepRow'[q][r] = stepRow[q][r]
      BY <1>2, <1>7 DEF RowsOf
    <2> QED
      BY <1>3, <1>6, <1>9, <1>10, <1>11, <2>1, <2>2, FrontMoves
  <1>13. PICK d : d = [c EXCEPT !.seen[t] = c.step, !.pc = "skip"]
    OBVIOUS
  <1>14. call' = [call EXCEPT ![h] = d]
    BY <1>1, <1>2, <1>13 DEF FlushSkip, Goto, Calls
  <1>15. /\ d.pc = "skip" /\ d.request = q /\ d.row = c.row
         /\ d.entity = requestRow[q] /\ d.seen = [stepRow[q] EXCEPT ![t] = c.step]
    BY <1>1, <1>2, <1>3, <1>13 DEF Calls
  <1>16. d.seen = stepRow'[q]
    BY <1>2, <1>4, <1>5, <1>15 DEF TypeOK
  <1>17. c.row # t
    BY <1>3, <1>6
  <1>18. Holds(d)'
    BY <1>2, <1>3, <1>4, <1>7, <1>9, <1>12, <1>15, <1>16, <1>17 DEF Holds
  <1>19. Exists(q)' <=> Exists(q)
    BY <1>4 DEF Exists
  <1>20. \A x \in Requests \ {q} : requestRow'[x] = requestRow[x] /\ stepRow'[x] = stepRow[x]
    BY <1>4, <1>8
  <1> QED
    BY <1>1, <1>2, <1>4, <1>9, <1>14, <1>15, <1>18, <1>19, <1>20, SerialAt

\* The UPDATE of the request stores the entity as it is.
LEMMA FlushRequestSerial ==
  ASSUME SerialInv, Serial, TypeOK', NEW h \in Handlers, Exists(call[h].request),
         FlushRequest(h)
  PROVE  SerialInv'
  <1>1. PICK c, q : c = call[h] /\ q = c.request
    OBVIOUS
  <1>2. /\ q \in Requests /\ c \in Calls /\ Exists(q) /\ Holds(c)
        /\ c.pc = "flushRequest" /\ TypeOK
    BY <1>1, CallIs DEF FlushRequest, Calls, SerialInv
  <1>3. Agrees(q, c.entity) /\ c.dirty = DirtyRequest(c.entity, requestRow[q])
    BY <1>1, <1>2 DEF Holds
  <1>4. /\ UNCHANGED <<configVars, stepRow>> /\ call' = [call EXCEPT ![h] = IdleCall]
        /\ requestRow' = [requestRow EXCEPT ![q] = MergeRequest(@, c.entity, c.dirty)]
    BY <1>1, <1>2 DEF FlushRequest, Finish
  <1>5. requestRow'[q] = c.entity
    <2>1. requestRow'[q] = MergeRequest(requestRow[q], c.entity, c.dirty)
      BY <1>2, <1>4 DEF TypeOK
    <2>2. PICK old, e : old = requestRow[q] /\ e = c.entity
      OBVIOUS
    <2>3. MergeRequest(old, e, DirtyRequest(e, old)) =
            [status |-> e.status, current_step |-> e.current_step,
             resolved_at |-> e.resolved_at]
      BY DEF MergeRequest, DirtyRequest
    <2>4. e = [status |-> e.status, current_step |-> e.current_step,
               resolved_at |-> e.resolved_at]
      BY <1>2, <2>2 DEF Calls, RequestRows
    <2> QED
      BY <1>3, <2>1, <2>2, <2>3, <2>4
  <1>6. RowsOf(q)' = RowsOf(q)
    BY <1>4 DEF RowsOf
  <1>7. Exists(q)'
    BY <1>3, <1>5 DEF Exists, Agrees
  <1>8. PICK e : e = c.entity
    OBVIOUS
  <1>9. Agrees(q, e)'
    <2>1. \A k : RowsAt(q, k)' = RowsAt(q, k)
      BY <1>6 DEF RowsAt
    <2>2. \A k : Waiting(q, k)' <=> Waiting(q, k)
      BY <1>4, <1>6, <2>1 DEF Waiting, Front, Done
    <2> QED
      BY <1>3, <1>4, <1>6, <1>8, <2>1, <2>2 DEF Agrees, Done
  <1>10. Agrees(q, requestRow[q])'
    BY <1>5, <1>8, <1>9
  <1>11. \A x \in Requests \ {q} : requestRow'[x] = requestRow[x] /\ stepRow'[x] = stepRow[x]
    BY <1>2, <1>4 DEF TypeOK
  <1>12. PICK d : d = IdleCall
    OBVIOUS
  <1>13. d.pc = "idle"
    BY <1>12 DEF IdleCall
  <1> QED
    BY <1>1, <1>2, <1>4, <1>6, <1>7, <1>10, <1>11, <1>12, <1>13, SerialAt

\* A new request waits at its first order.
LEMMA SubmitSerial ==
  ASSUME SerialInv, LevelInv, SingleChains, TypeOK', ConfigInv',
         NEW q \in Requests, NEW amount \in Amounts, Submit(q, amount)
  PROVE  SerialInv'
  <1> DEFINE steps == ResolveStepsForAmount(rows, amount)
  <1>1. /\ UNCHANGED call /\ TypeOK /\ life = "live" /\ requestRow[q].status = "NONE"
    BY DEF Submit, LevelInv
  <1>2. PICK first \in steps :
          /\ \A r \in steps : first.order <= r.order
          /\ requestRow' = [requestRow EXCEPT ![q] =
               [status |-> "PENDING", current_step |-> first.order,
                resolved_at |-> FALSE]]
    BY DEF Submit
  <1>3. requestRow'[q].status = "PENDING" /\ requestRow'[q].current_step = first.order
    BY <1>1, <1>2 DEF TypeOK
  <1>4. steps \subseteq ConfigRows /\ steps \subseteq rows
    BY <1>1 DEF ResolveStepsForAmount, TypeOK
  <1>5. \A r \in ConfigRows : stepRow'[q][r].status =
                                IF r \in steps THEN "PENDING" ELSE "NONE"
    BY <1>1 DEF Submit, TypeOK, NoStep
  <1>6. \A x \in Requests : x # q => /\ requestRow'[x] = requestRow[x]
                                     /\ stepRow'[x] = stepRow[x]
    BY <1>1 DEF Submit, TypeOK
  <1>7. RowsOf(q)' = steps
    BY <1>4, <1>5 DEF RowsOf
  <1>8. rows \in Configs
    BY <1>1 DEF SerialInv, ConfigInv
  <1>9. RowsInv'
    <2> SUFFICES ASSUME NEW x \in Requests, NEW r \in RowsOf(x)', NEW s \in RowsOf(x)'
                 PROVE  r \in UNION Configs /\ (r.order = s.order => r = s)
      BY DEF RowsInv
    <2>1. CASE x = q
      BY <1>4, <1>7, <1>8, <2>1 DEF SingleChains
    <2>2. CASE x # q
      <3>1. RowsOf(x)' = RowsOf(x)
        BY <1>6, <2>2 DEF RowsOf
      <3> QED
        BY <3>1 DEF SerialInv, RowsInv
    <2> QED
      BY <2>1, <2>2
  <1>10. Waiting(q, first.order)'
    <2>1. \A r \in steps : stepRow'[q][r].status = "PENDING"
      BY <1>4, <1>5
    <2>2. Front(q)'
      BY <1>7, <2>1 DEF Front
    <2>3. first \in RowsAt(q, first.order)'
      BY <1>7 DEF RowsAt
    <2>4. \A r \in steps : r.order \in Nat
      BY <1>4, ConfigAssumption DEF ConfigRow
    <2>5. \A r \in steps : ~ (r.order < first.order)
      BY <1>2, <2>4
    <2> QED
      BY <1>7, <2>1, <2>2, <2>3, <2>5 DEF Waiting
  <1>11. Agrees(q, requestRow[q])'
    BY <1>3, <1>10 DEF Agrees, RequestStatus
  <1>12. RestInv'
    <2> SUFFICES ASSUME NEW x \in Requests, Exists(x)', ~ InCall(x)'
                 PROVE  Agrees(x, requestRow[x])' \/ Stuck(x)'
      BY DEF RestInv
    <2>1. CASE x # q
      <3>1. stepRow'[x] = stepRow[x] /\ requestRow'[x] = requestRow[x]
        BY <1>6, <2>1
      <3>2. Exists(x) /\ ~ InCall(x)
        BY <1>1, <3>1, SameRows DEF InCall
      <3>3. PICK e : e = requestRow[x]
        OBVIOUS
      <3>4. Agrees(x, e)' \/ Stuck(x)'
        BY <3>1, <3>2, <3>3, SameRows DEF SerialInv, RestInv
      <3> QED
        BY <3>1, <3>3, <3>4
    <2> QED
      BY <1>11, <2>1
  <1>13. CallsInv'
    <2> SUFFICES ASSUME NEW g \in Handlers, call[g].pc # "idle", Exists(call[g].request)'
                 PROVE  Holds(call[g])'
      BY <1>1 DEF CallsInv
    <2>1. PICK c, x : c = call[g] /\ x = c.request
      OBVIOUS
    <2>2. x \in Requests /\ Claim(c)
      BY <1>1, <2>1 DEF LevelInv, TypeOK, Calls, CallInv
    <2>3. x # q
      BY <1>1, <2>1, <2>2 DEF Claim
    <2>4. stepRow'[x] = stepRow[x] /\ requestRow'[x] = requestRow[x]
      BY <1>6, <2>2, <2>3
    <2>5. (Exists(x)' <=> Exists(x)) /\ (c.request = x => (Holds(c)' <=> Holds(c)))
      BY <2>4, SameRows
    <2>6. Exists(x)' /\ call'[g] = call[g]
      BY <1>1, <2>1
    <2>7. Holds(c)
      BY <2>1, <2>5, <2>6 DEF SerialInv, CallsInv
    <2>8. Holds(c)'
      BY <2>1, <2>5, <2>7
    <2> QED
      BY <2>1, <2>6, <2>8
  <1> QED
    BY <1>9, <1>12, <1>13 DEF SerialInv

\* A step that writes neither a request nor a call.
LEMMA SerialSame ==
  ASSUME SerialInv, TypeOK', ConfigInv', UNCHANGED <<requestRow, stepRow, call>>
  PROVE  SerialInv'
  <1>1. RowsInv'
    BY DEF SerialInv, RowsInv, RowsOf
  <1>2. ASSUME NEW x \in Requests, Exists(x)', ~ InCall(x)'
        PROVE  Agrees(x, requestRow[x])' \/ Stuck(x)'
    <2>1. Exists(x) /\ ~ InCall(x)
      BY <1>2, SameRows DEF InCall
    <2>2. PICK e : e = requestRow[x]
      OBVIOUS
    <2>3. Agrees(x, e)' \/ Stuck(x)'
      BY <2>1, <2>2, SameRows DEF SerialInv, RestInv
    <2> QED
      BY <2>2, <2>3
  <1>3. ASSUME NEW g \in Handlers, call[g].pc # "idle", Exists(call[g].request)'
        PROVE  Holds(call[g])'
    <2>1. PICK c : c = call[g]
      OBVIOUS
    <2>2. Exists(c.request) /\ (Holds(c)' <=> Holds(c))
      BY <1>3, <2>1, SameRows
    <2>3. Holds(c)'
      BY <1>3, <2>1, <2>2 DEF SerialInv, CallsInv
    <2> QED
      BY <2>1, <2>3
  <1>4. RestInv' /\ CallsInv'
    BY <1>2, <1>3 DEF RestInv, CallsInv
  <1> QED
    BY <1>1, <1>4 DEF SerialInv

LEMMA AdministerSerial ==
  ASSUME SerialInv, TypeOK', ConfigInv', Administer
  PROVE  SerialInv'
  <1>1. CASE RemoveConfig
    <2>1. \A q \in Requests : ~ Exists(q)' /\ RowsOf(q)' = {}
      BY <1>1 DEF RemoveConfig, Exists, RequestStatus, NoRequest, NoSteps, NoStep,
                  SerialInv, TypeOK, RequestRows, RowsOf
    <2>2. \A g \in Handlers : call'[g].request \in Requests
      BY <1>1 DEF RemoveConfig, SerialInv, TypeOK, Calls
    <2> QED
      BY <2>1, <2>2 DEF SerialInv, RowsInv, RestInv, CallsInv
  <1>2. CASE ~ RemoveConfig
    <2>1. UNCHANGED <<requestRow, stepRow, call>>
      BY <1>2 DEF Administer, CreateConfig, UpdateConfigSave, ToggleConfig,
                  UpdateConfigRead, UpdateConfigDelete
    <2> QED
      BY <2>1, SerialSame
  <1> QED
    BY <1>1, <1>2

LEMMA SerialInit == Init => SerialInv
  <1> SUFFICES ASSUME Init PROVE SerialInv
    OBVIOUS
  <1>1. TypeOK
    BY InitType
  <1>2. \A q \in Requests : ~ Exists(q) /\ RowsOf(q) = {}
    BY DEF Init, Exists, RequestStatus, NoRequest, NoSteps, NoStep, RowsOf
  <1>3. ConfigInv
    BY DEF Init, ConfigInv, NoRequest
  <1>4. \A g \in Handlers : call[g].pc = "idle"
    BY DEF Init, IdleCall
  <1> QED
    BY <1>1, <1>2, <1>3, <1>4 DEF SerialInv, RowsInv, RestInv, CallsInv

LEMMA SerialStep ==
  ASSUME Serial, SingleChains, LevelInv, SerialInv, [Next]_vars
  PROVE  SerialInv'
  <1>1. TypeOK' /\ ConfigInv'
    BY LevelStep DEF LevelInv
  <1>2. CASE Administer
    BY <1>1, <1>2, AdministerSerial
  <1>3. ASSUME NEW q \in Requests, NEW amount \in Amounts, Submit(q, amount)
        PROVE  SerialInv'
    BY <1>1, <1>3, SubmitSerial
  <1>4. ASSUME NEW q \in Requests, NEW r \in ConfigRows, Act(q, r)
        PROVE  SerialInv'
    BY <1>1, <1>4, ProcessStepSerial DEF Act
  <1>5. ASSUME NEW h \in Handlers, Continue(h) PROVE SerialInv'
    <2>1. CASE FlushStep(h) \/ FlushSkip(h) \/ FlushRequest(h)
      BY <1>1, <2>1, FlushGone, FlushStepSerial, FlushSkipSerial, FlushRequestSerial
    <2>2. CASE Authorise(h)
      BY <1>1, <2>2, AuthoriseSerial
    <2>3. CASE SaveStep(h) \/ SaveSkip(h) \/ SaveRequest(h)
      BY <1>1, <2>3, SaveSerial
    <2>4. CASE CountApprovals(h) \/ ScanSteps(h)
      BY <1>1, <2>4, CountSerial
    <2>5. CASE SkipOptional(h) \/ Advance(h) \/ ApproveRequest(h)
      BY <1>1, <2>5, LoopSerial
    <2> QED
      BY <1>5, <2>1, <2>2, <2>3, <2>4, <2>5 DEF Continue
  <1>6. ASSUME NEW h \in Handlers, Crash(h) PROVE SerialInv'
    BY <1>1, <1>6, SerialEnds DEF Crash
  <1>7. CASE UNCHANGED vars
    BY <1>1, <1>7, SerialSame DEF vars
  <1> QED
    BY <1>2, <1>3, <1>4, <1>5, <1>6, <1>7 DEF Next

LEMMA SerialHolds ==
  ASSUME Serial, SingleChains
  PROVE  Spec => [](LevelInv /\ SerialInv)
  <1>1. Init => LevelInv /\ SerialInv
    BY LevelInit, SerialInit
  <1>2. LevelInv /\ SerialInv /\ [Next]_vars => (LevelInv /\ SerialInv)'
    BY LevelStep, SerialStep
  <1> QED
    BY <1>1, <1>2, PTL DEF Spec

\* Nobody works at a request that is decided: its steps agree with it.
LEMMA DecidedAgrees ==
  ASSUME SerialInv, NEW q \in Requests, Exists(q), requestRow[q].status \notin Open
  PROVE  Agrees(q, requestRow[q])
  <1>1. ~ InCall(q)
    BY DEF SerialInv, CallsInv, Holds, InCall
  <1> QED
    BY <1>1 DEF SerialInv, RestInv, Stuck

\* Where calls run one at a time, crashing or not, and every order asks for one
\* approver, no request is APPROVED over a step that is refused, unsigned or
\* skipped though mandatory: processStep stores the decision its steps bear.
\* (Where calls overlap, LevelsSettled is what is left.)
THEOREM ApprovedSigned ==
  ASSUME Serial, SingleChains
  PROVE  Spec => []ApprovedMeansSigned
  <1>1. SerialInv => ApprovedMeansSigned
    <2> SUFFICES ASSUME SerialInv, NEW q \in Requests,
                        requestRow[q].status = "APPROVED", NEW r \in RowsOf(q)
                 PROVE  \/ stepRow[q][r].status = "SKIPPED" /\ ~ r.mandatory
                        \/ /\ stepRow[q][r].status = "APPROVED"
                           /\ ApprovedCount(q, r.order) >= r.required
      BY DEF ApprovedMeansSigned
    <2>1. Agrees(q, requestRow[q])
      BY DecidedAgrees DEF Exists, RequestStatus, Open
    <2>2. Done(q, r)
      BY <2>1 DEF Agrees
    <2>3. ASSUME stepRow[q][r].status = "APPROVED"
          PROVE  ApprovedCount(q, r.order) >= r.required
      <3> DEFINE A == {s \in RowsAt(q, r.order) : stepRow[q][s].status = "APPROVED"}
      <3>1. r \in A
        BY <2>3 DEF RowsAt
      <3>2. IsFiniteSet(A)
        <4>1. A \subseteq ConfigRows
          BY DEF RowsAt, RowsOf
        <4> QED
          BY <4>1, ConfigAssumption, FS_Subset
      <3>3. Cardinality(A) \in Nat /\ Cardinality(A) # 0
        BY <3>1, <3>2, FS_CardinalityType, FS_EmptySet
      <3>4. r.required = 1
        BY DEF SerialInv, RowsInv, SingleChains
      <3> QED
        BY <3>3, <3>4 DEF ApprovedCount
    <2> QED
      BY <2>2, <2>3 DEF Done
  <1> QED
    BY <1>1, SerialHolds, PTL

\* Where, besides, no call dies between two repository calls, a request that is
\* not decided never rests at an order nobody can act on: the skip loop of
\* processStep leaves it at a pending step.
THEOREM NeverStranded ==
  ASSUME Serial, SingleChains, ~ CrashesAllowed
  PROVE  Spec => []NotStranded
  <1>1. SerialInv => NotStranded
    <2> SUFFICES ASSUME SerialInv, \A h \in Handlers : call[h].pc = "idle",
                        NEW q \in Requests, requestRow[q].status \in Open
                 PROVE  \E r \in RowsAt(q, requestRow[q].current_step) :
                          stepRow[q][r].status = "PENDING"
      BY DEF NotStranded, Open
    <2>1. Exists(q) /\ ~ InCall(q) /\ ~ Stuck(q)
      BY DEF Exists, Open, RequestStatus, InCall, Stuck
    <2>2. Agrees(q, requestRow[q])
      BY <2>1 DEF SerialInv, RestInv
    <2> QED
      BY <2>2 DEF Agrees, Waiting
  <1> QED
    BY <1>1, SerialHolds, PTL

\* The approval engine implements what the services that submit requests rely
\* on: where calls run one at a time and every order asks for one approver, a
\* request is opened once, is decided once, and keeps its decision while it
\* exists.
THEOREM PromiseKept ==
  ASSUME Serial, SingleChains
  PROVE  Spec => KeepsPromise
  <1> DEFINE out == [q \in Requests |-> requestRow[q].status]
  <1>1. Init => out = [q \in Requests |-> "NONE"]
    BY DEF Init, NoRequest
  <1>2. ASSUME LevelInv, SerialInv, TypeOK', [Next]_vars
        PROVE  \/ out' = out
               \/ \E q \in Requests : \E s \in Promise!Moves(out[q]) :
                    out' = [out EXCEPT ![q] = s]
               \/ out' = [q \in Requests |-> IF out[q] = "NONE" THEN "NONE"
                                                               ELSE "DELETED"]
    <2>1. CASE UNCHANGED requestRow
      BY <2>1
    <2>2. CASE RemoveConfig
      <3>1. \A q \in Requests : requestRow'[q].status =
              IF requestRow[q].status = "NONE" THEN "NONE" ELSE "DELETED"
        BY <1>2, <2>2 DEF RemoveConfig, Exists, NoRequest, SerialInv, TypeOK,
                          RequestRows, RequestStatus
      <3> QED
        BY <3>1
    <2>3. ASSUME NEW q \in Requests, NEW amount \in Amounts, Submit(q, amount)
          PROVE  \E s \in Promise!Moves(out[q]) : out' = [out EXCEPT ![q] = s]
      <3>1. requestRow[q].status = "NONE" /\ requestRow'[q].status = "PENDING"
            /\ \A x \in Requests : x # q => requestRow'[x] = requestRow[x]
        BY <1>2, <2>3 DEF Submit, SerialInv, TypeOK
      <3>2. "PENDING" \in Promise!Moves(out[q])
        <4>1. "PENDING" \in Promise!Moves("NONE")
          BY DEF Promise!Moves, Promise!Open, Promise!Settled
        <4> QED
          BY <3>1, <4>1
      <3>3. out' = [out EXCEPT ![q] = "PENDING"]
        BY <3>1
      <3> QED
        BY <3>2, <3>3
    <2>4. ASSUME NEW h \in Handlers, FlushRequest(h), Exists(call[h].request)
          PROVE  \E q \in Requests : \E s \in Promise!Moves(out[q]) :
                   out' = [out EXCEPT ![q] = s]
      <3>1. PICK c, q : c = call[h] /\ q = c.request
        OBVIOUS
      <3>2. /\ q \in Requests /\ Holds(c) /\ c.pc = "flushRequest" /\ TypeOK
        BY <1>2, <2>4, <3>1, CallIs DEF FlushRequest, SerialInv
      <3>3. /\ requestRow[q].status \in Open /\ c.entity.status \in RequestStatus
        BY <3>1, <3>2 DEF Holds, Agrees
      <3>4. requestRow' = [requestRow EXCEPT ![q] = MergeRequest(@, c.entity, c.dirty)]
        BY <2>4, <3>1 DEF FlushRequest
      <3>5. \A x \in Requests : x # q => requestRow'[x] = requestRow[x]
        BY <3>2, <3>4 DEF TypeOK
      <3>6. requestRow'[q].status \in {requestRow[q].status, c.entity.status}
        BY <3>2, <3>4 DEF TypeOK, MergeRequest
      <3>7. requestRow'[q].status \in Promise!Moves(out[q])
        BY <3>2, <3>3, <3>6
           DEF Promise!Moves, Promise!Open, Promise!Settled, Open, RequestStatus
      <3>8. out' = [out EXCEPT ![q] = requestRow'[q].status]
        BY <3>2, <3>5
      <3> QED
        BY <3>2, <3>7, <3>8
    <2>5. CASE ~ UNCHANGED requestRow
      <3>1. \/ RemoveConfig
            \/ \E q \in Requests, amount \in Amounts : Submit(q, amount)
            \/ \E h \in Handlers : FlushRequest(h) /\ Exists(call[h].request)
        BY <1>2, <2>5 DEF Next, Administer, CreateConfig, UpdateConfigSave,
           ToggleConfig, UpdateConfigRead, UpdateConfigDelete, Act, ProcessStep,
           Continue, Authorise, SaveStep, FlushStep, CountApprovals, ScanSteps,
           SkipOptional, Advance, ApproveRequest, SaveSkip, FlushSkip, SaveRequest,
           FlushRequest, Crash, vars
      <3> QED
        BY <2>2, <2>3, <2>4, <3>1
    <2> QED
      BY <2>1, <2>5
  <1>3. Init => Promise!Init
    BY <1>1 DEF Promise!Init
  <1>4. ASSUME LevelInv, SerialInv, TypeOK', [Next]_vars
        PROVE  [Promise!Next]_out
    BY <1>2, <1>4 DEF Promise!Next
  <1>5. LevelInv => TypeOK
    BY DEF LevelInv
  <1> HIDE DEF out
  <1> QED
    BY <1>3, <1>4, <1>5, SerialHolds, PTL DEF Spec, KeepsPromise, Promise!Spec, out
=============================================================================
