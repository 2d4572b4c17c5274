# SHERP: models, checks and proofs

SHERP is an ERP for warehouses, projects and facility work: a NestJS server
(`src/wms-backend`) over PostgreSQL through TypeORM, with Redis for caching and
job queues, and a React client (`src/wms-frontend`). This directory holds TLA+
modules that model the parts of the server where the state of several requests
meets, TLC configurations that check them on small instances, and theorems about
them that TLAPS proves for every instance.

Paths below are relative to `src/wms-backend/src` unless they start with `docs/`
or `src/`.

## How the server runs, and what that means for a model

Every HTTP request is an asynchronous handler. Handlers interleave at every
`await`, that is at every repository call, and several server processes may run
beside each other. Three facts about the persistence layer decide what a model
must contain.

* **`repository.save(entity)` is two statements.** TypeORM selects the row, compares
  every loaded column with it, and then updates the columns that differ, with the
  literal values of the entity. A value read long ago is written back when the row
  changed since; two entities saved at once may mix in one row. The modules have
  one action per statement and compute the changed columns at the first one; where a save
  follows its `findOne` with no await that matters in between, the module says so.
* **A method without a transaction is a sequence of committed statements.** A crash
  or a failed statement leaves what was written before it. `ApprovalWorkflow`,
  `Sessions`, `MasterPlan`, most of `DocumentControl` and of `FieldWork` are of this kind.
* **`dataSource.transaction` runs at READ COMMITTED**, PostgreSQL's default; the code
  never asks for another level. A SELECT sees what is committed when it starts and
  the transaction's own writes; an UPDATE waits for the holder of its row and then
  applies to the newest row. No method of the warehouse locks on reading;
  `document-versions.service.ts` locks the latest version (`pessimistic_write`). A repository
  used inside a transaction that was not given its entity manager writes on another
  connection, and stays written when the transaction rolls back: the outbound of a sales
  order, the project of a request and the work item of a subject are written so.

## Inventory

| component | state | operations | hard behaviour | what makes it correct |
|---|---|---|---|---|
| Approval engine (`approvals/`) | configurations and their steps, requests and their steps, one table each | create, edit, toggle, remove a configuration; submit; approve; reject | no transaction: every handler works on entities that other handlers change; configurations edited under pending requests; crash between the step's save and the request's | no level is passed without its signatures; decisions are final; every request is decided |
| Warehouse (`inbound/`, `outbound/`, `inventory/`) | receipts, orders and their lines, locations, inventory items | create, QC, putaway, pick, transfer, adjust, status changes | read-modify-write transactions without locks; headers concluded from lines; two records of the stock (items, `current_qty`) | units are neither made up nor lost, bounds hold, headers follow lines |
| Document control (`documents/`) | documents, versions, their approval requests, notices | upload, rollback, archive, submit, pull the decision, edit, remove, expiry scan | status written from stale entities; upload to cloud storage before the transaction; decision pulled on reading | versions numbered, approved means signed, the newest version shown, the decision shown in the end |
| Sales (`sales/`, `customers/`) | quotes, orders, customer debt | quote and its status flow, convert, create order, cancel, edit a customer | credit check on a row read before the transaction; outbound order created on another connection | debt within the limit and equal to the open orders, a quote converted once, no orphan outbound |
| Sessions (`auth/`, the accounts of `users/`) | password, `is_active` and failed-login counter of an account, refresh tokens, reset links | login, refresh, logout, forgotten password, reset, an administrator's update | counters and tokens read, then written; several statements per call; a whole-row save beside them | session limit, lockout, every failure counted, one use per token, a reset ends old sessions |
| Recurring work (`master-plan/queues/`) | templates with `last_generated_date`, work items, BullMQ jobs | daily scan, generate | at-least-once delivery, jobs out of order, dead workers, a day carried in the job | nothing skipped, what is due is generated |
| Project requests (`project-requests/`, the codes of `projects/`) | requests with a status machine, projects | submit, approve twice, change, cancel, deploy; create, import or update a project | the project is created on another connection inside the final approval, and its code may change later | only endorsed projects; request and project together |
| Field work (`work-items/`, `incidents/`, `checklists/`, `office-tasks/`, `energy-inspection/`) | subjects, their parts and requests, the common feed | answer, read, tick, complete, resolve, reopen, reassign | feed written on another connection or after the save; completion from counts | the feed follows the subject; done means all done |
| Budget control (`projects/`) and procurement (`procurement/`) | budget lines, booked costs, purchase orders and lines, receipt notes | set a budget, book, remove, order, receive | check and insert apart; read-modify-write of received quantities | overspending bounded by overlaps; notes cover receipts |
| Project schedule (`project-schedule/`) | tasks, links, the stored critical path | create, edit, delete tasks and links, recompute | recalculation writes whole tasks back after every change; leads and lags | no cycle, no dangling link, the earliest schedule |
| Construction plans (`project-plans/`) | plan versions | draft, edit, submit, review, approve, reject | plan loaded before the transaction that freezes it | one baseline, frozen as reviewed |
| Master plan (`master-plan/`) | plan, tree of nodes, templates | edit, approve, close, add, change, archive | ids of a branch collected before it is archived; whole-row saves | nothing live below archived; budgets add up |
| Transport (`tms/`) | waybills, status and waybill of outbound orders | create, status changes, deliver | orders are read without a lock, then put on the waybill; stale saves of orders by the warehouse | an order stays with the waybill it was loaded on |
| Project status, bids, assignments, monitoring, WBS, BOQ, NCR, settlement | single rows | status changes, arithmetic | little | status machines |
| Accounts, catalogues, reports, export, seed, infrastructure, web client | single rows or none | CRUD, queries, files | none of their own | - |

**Interactions.** Documents submit their versions to the approval engine and pull
the outcome when a document is read. Sales orders create outbound orders; transport
moves outbound orders to SHIPPED and DELIVERED. Project requests create projects.
Templates of the master plan generate the work items that field work completes. Costs and
purchase orders meet the budget check of projects. Everything shares the PostgreSQL
schema; only blocklisted tokens and job queues use Redis. Lists of what can go wrong at
which line are in `PROJECT.json` under `hazards`.

## Modules

| module | models | role |
|---|---|---|
| `Server` | how a handler runs and what `save()` writes | shared by all modules below that are not marked * |
| `ApprovalPromise` * | - | abstract specification: what clients of the approval engine rely on |
| `ApprovalWorkflow` * | `approvals/approvals.service.ts` | state machine, its properties, refinement of `ApprovalPromise` |
| `ApprovalProofs` | - | `TypeCorrect`, `LevelsSettled`, `ApprovedSigned`, `NeverStranded`, `PromiseKept` |
| `Warehouse` * | `inbound/`, `outbound/`, `inventory/` services | state machine, its properties, refinement of `StockLedger` |
| `WarehouseProofs` | - | `WarehouseTyped`, `NoneInvented`, `DoneIsTaken`, `BoundsKept`; one call at a time `ShelvedIsCompleted`, `OccupancyIsStock`, `LastLineConcludes`, `WarehouseKeepsLedger` |
| `StockLedger` * | what `docs/features/wms-core/BA_SPEC.md` promises | abstract specification |
| `StockLedgerProofs` | - | `LedgerSound`, `ShelvedOnce` |
| `DocumentControl` | `documents/` services | composed with `ApprovalPromise`, whose steps its requests take |
| `SalesOrders` | `sales/`, `customers/` services | state machine |
| `DocumentsSalesProofs` | - | `VersionsNumbered`, `ApprovedSigned`, `CurrentNewest`, `ApprovedShown`, `OneRequestOpen`; `DebtBounded`, `DebtExact`, `QuotesSoldOnce`, `OutboundsMatch` |
| `Sessions`, `Recurrence`, `ProjectRequests`, `FieldWork`, `Purchasing`, `Transport` | see below | state machines |
| `ServiceProofs` | - | of `Purchasing` `ReceiptsNoted`, `BudgetHeld`; of `Sessions` `SessionsStayBounded`, `TokensUsedOnce`, `FailuresAreCounted`, `ResetsEndSessions`, `LocksHold`; of `Transport` `OrdersStay`; of `FieldWork` `AllPartsDone`, `FeedFollows`; of `ProjectRequests` `ProjectsWereEndorsed` |
| `Schedule`, `ConstructionPlans`, `MasterPlan` | see below | state machines |
| `PlanningProofs` | - | of `Recurrence` `NoGaps`; of `ConstructionPlans` `OneBaseline`; of `MasterPlan` `NothingLiveBelow`, `PlanLived`; of `Schedule` `NoCycles`, `EarliestSchedule` |
| `HandlerFacts`, `SumFacts` | - | lemmas: how a handler's record changes and when handlers run alone; sums over finite sets |
| `MCApproval`, `MCWarehouse`, `MCRecurrence` | - | definitions and symmetry for TLC |
| `MCDocumentsSales`, `MCServices`, `MCPlanning` | - | suites: one variable `service` picks, in the initial state, which of their services runs; these share no table and call none of each other's code |

Definitions with a suffix such as `CountApprovals_NoQuorum`, each under a comment
"Mutant", are wrong variants of a definition. They are in no behaviour; each is the
mistake that the property beside it in `PROJECT.json` (`mutants`) must catch.

### ApprovalWorkflow

The state is four tables and the handlers.

| variable | in the code |
|---|---|
| `life`, `active`, `rows` | the `approval_configs` row, its `is_active`, its `approval_config_steps` |
| `editor` | where `updateConfig` stands: it deletes the step rows and saves the new ones in two calls |
| `requestRow[q]` | `approval_requests`: `status`, `current_step`, whether `resolved_at` is set |
| `stepRow[q][r]` | `approval_steps`: the step request `q` received from configuration row `r`, with `status` and `approver_id` |
| `call[h]` | the parameters and local variables of the `processStep` in handler `h`, and the repository call it makes next |
| `signed`, `refused`, `skipped` | history, read by no action: which steps were ever stored APPROVED, REJECTED, SKIPPED |

`Submit` is `submitForApproval`: it reads the configuration and saves the request with its
steps in one cascaded save, which TypeORM wraps in a transaction.
`processStep` (`approveStep`, `rejectStep`) is cut at its repository calls:

| action | code (`approvals.service.ts`) |
|---|---|
| `ProcessStep` | 464-491: loads the step with its request, the guards on step status and level |
| `Authorise` | 493-528: reads the configuration row, checks the caller, changes the entity |
| `SaveStep`, `FlushStep` | 530: the SELECT and the UPDATE of `save(step)` |
| `CountApprovals` | 546-560: counts the approved rows of the level against `required_count` |
| `ScanSteps` | 565-570: reads all steps once |
| `SkipOptional`, `SaveSkip`, `FlushSkip` | 573-590: the loop that skips optional levels |
| `Advance`, `ApproveRequest` | 592-610: moves to the next level or finalises |
| `SaveRequest`, `FlushRequest` | `save(request)` at the end of each branch |
| `Crash` | the process or its connection ends between two calls |

Deliberate abstractions. One configuration of one entity type, because
`submitForApproval` looks it up by entity type and configurations share nothing.
`findOne` without an order may return any matching row (`ConfigStepsFor`,
`NextPending`). A level configured by role gets an `approver_id` that is no user
(`NoUser`), as `cs.approver_id || cs.approver_role` stores the role's code. Names,
comments, notifications and the audit log are left out.

Properties: `ApprovedMeansSigned`, `NotStranded`, `KeepsPromise` and `EveryRequestDecided` for
handlers one at a time; `NoUnsignedAdvance` for any interleaving, with crashes and edits;
`RejectionFinal`, which the code does not satisfy.

`NoUnsignedAdvance` is worded through the history and through the configurations
that may be read, because that is what the code can guarantee: a handler compares
the count with the `required_count` it read, which an edit may since have changed,
and in the middle of an edit there is no row and the quorum falls back to 1.

### Warehouse

All rows of the six tables are one partial function `db` from ids to records, so that
loading, comparing and saving an entity are written once.

| variable | in the code |
|---|---|
| `db` | committed rows of `locations`, `inventory_items`, `inbound_receipts`, `inbound_lines`, `outbound_orders`, `outbound_lines` |
| `own[h]` | rows written by the open transaction of handler `h`; they are locked until it ends |
| `call[h]` | the method in progress: its parameters, loaded entities, the columns a save is about to write |
| `arrived`, `shelved`, `taken`, `adjusted` | history of committed transactions |

`Program` lists, per method, its database statements in the order of the code. `At(h, stage)`
says that the next statement of `h` is `stage`; `Select` and `Update` are the two halves
of any save, `Insert` the creation of an item, `Commit` and `Rollback` the ends of
a transaction. What remains specific to a method is its reads:

| action | code |
|---|---|
| `Putaway`, `CheckLocation`, `FindReceiver`, `ScanInbound` | `inbound.service.ts` 187-329 |
| `Pick`, `FindStock`, `ReadLocation`, `ScanOutbound` | `outbound.service.ts` 205-315 |
| `Transfer`, `Adjust` | `inventory.service.ts` 181-315 |
| `UpdateQcResult`, `UpdateInboundStatus`, `UpdateOutboundStatus`, `UpdateLocation` | `findOne`, change, `save` outside a transaction; `Rollback` is their crash |
| `CreateReceipt`, `CreateOrder` | one cascaded save |

Deliberate abstractions. One product and one lot: items of other products share no
row with it but the location, whose `current_qty` counts all. `inventory_items` has
no unique key on location, product and lot, so two transactions may both insert; `Items`
holds two ids for a location where that matters. `qty_reserved` is written
by no service, so the available quantity is `qty_on_hand`. A failed check throws,
which rolls the transaction back: the check is the guard of the action that follows and
`Rollback` is always possible. A row lock makes `Update` wait; two transactions that
wait for each other stay until one of them takes `Rollback`, as PostgreSQL's deadlock
detection makes it. Document numbers, names and timestamps are left out.

`StockLedger` says what the movements are for: stock per location, accepted units and
shelf per inbound line, requested and picked units per outbound line. Its mapping
from `Warehouse` (`Ledger`) reads only committed rows, so every statement but `Commit`,
the two creations and the QC save must be a stutter, and a commit must be exactly one of
`Shelve`, `Take`, `Carry`, `Correct` or `Inspect`.

### Server: the modules below

The other modules extend `Server`. `call[h]` is a record with the local variables of handler `h`
and, as `pc`, the await it stands at; `Begin` starts a call, `Become` and `Goto` move it to its
next await, `Return` ends it, `Crash` ends it anywhere. `Dirty(e, row)` and `Merge(row, e, columns)`
are the two halves of `save()`. What the database writes in a transaction appears in one step,
its commit, unless a row it has locked makes others wait; then the row has a holder.

`overlaps` counts the calls that started while another was in progress and the handlers that
died, up to `MaxOverlaps`. `Calm` (`overlaps = 0`) therefore means: every call so far ran alone and to
its end. Some properties are conditioned on it, because the code has no protection
against overlapping calls and they fail then; "Divergences" says how. The others
hold at any `overlaps`, or say how much each overlap can cost (`OverspendPerOverlap`, `WaybillKeepsOrders`,
`SessionsBounded`, `TokensOnce`, `FailuresCounted`, `OutboundPerOrder`) or that one costs nothing (`overlaps <= 1`
in `ProjectsEndorsed` and `DoneMeansAllDone`). In the suites overlaps
and crashes are possible in every behaviour, so that a property with `Calm` is also evaluated
in states on the way to, and after, all of them.

### DocumentControl

One document. `doc` is its row (status, current and approved version, expiry), `versions` and
`requests` those of `document_versions` and of the approval requests, `notified` the notices, `day` the
clock; `signedOff` is history: the versions the engine approved.

| action | code (`documents/`) |
|---|---|
| `Upload`, `RollbackToVersion`, `CheckDuplicate` | `document-versions.service.ts`: the guards, before the file goes to the cloud |
| `ReadLatest`, `CommitVersion` | the transaction: the read that locks the latest version, and its commit |
| `ArchiveVersion`, `CheckCurrent`, `SaveArchived` | `archiveVersion` |
| `SubmitForApproval`, `CheckActive`, `CreateRequest`, `MarkPending` | `document-approval.service.ts` |
| `GetApprovalStatus`, `ReadRequest`, `CompareStatus`, `ShowDecision` | the decision is copied when somebody looks |
| `UpdateDocument`, `GenerateNotifications`, `SelectDocument`, `FlushDocument`, `InsertNotices` | `documents.service.ts`: edits, the daily scan, both halves of the save |
| `CreateDocument`, `RemoveDocument`, `Tick`, `DocCrash` | creation, deletion (which cascades), the clock, a dead handler |
| `EngineMoves` | any step of a request that `ApprovalPromise!Moves` allows |

The composition with the approval engine is assume-guarantee: `EngineMoves` lets requests
move exactly as `ApprovalPromise` allows, and `KeepsPromise` shows that `ApprovalWorkflow` moves them
in no other way, for chains that ask one approver at each order and one handler.

### SalesOrders

One customer: `customer` (debt and limit), `quotes`, `orders`, `outbounds` are rows;
`topLimit` and `bypassed` are history. `CreateOrder` .. `CommitOrder` is
`SalesOrderService.create` (`sales-order.service.ts` 85-205): guards on the customer and the quote read
outside the transaction, the number, the insert, the outbound on another connection
(`NumberOutbound`, `FreeOutbound`, `InsertOutbound`), the saves of quote and debt at the
commit. `CancelOrder` .. `CommitCancel` is `cancel`; `CreateQuote` .. `DeleteQuote` are the quote
service; `UpdateCustomer` .. `FlushCustomer` the edit of a customer, both halves of its save;
`OutboundMoves` is the warehouse taking an outbound up.

### Sessions

One account: `account` is its row in `users`, `tokens` and `resets` the two token tables, `minute` the
clock. History: `heirs` (how often a token was exchanged), `chosen` (passwords are numbered as they are
chosen), `reset` (the one the last reset by link stored), `misses` (failed logins in a row).

| action | code |
|---|---|
| `Login`, `Verify`, `FailAttempt`, `ClearFailures`, `ListSessions`, `RevokeOldest`, `IssueToken` | `auth.service.ts`: `login`, with `is_active` and the lockout as they were read |
| `RefreshTokens`, `RotateToken`, `RenewToken`; `Logout`, `RevokeToken` | `refreshTokens` (reuse of a revoked token revokes all), `logout` |
| `ForgotPassword`, `InvalidateLinks`, `SendLink` | `forgotPassword` |
| `ResetPassword`, `UseLink`, `StorePassword`, `RevokeAll` | `resetPassword` |
| `UpdateUser`, `SelectUser`, `SaveUser` | `users.service.ts` 119-142: an administrator sets a password, `is_active` or both; both halves of the whole-row save |

`auth.service.ts` writes single columns with `update`; `UpdateUser` saves the entity it loaded, so it may also put an old failure
count or lock back, which is one of the costs `FailuresCounted` allows an overlap. A user cannot change
a password while logged in: the server has no such operation. Deletion of an account (`users.service.ts` 206)
is left out: nothing of it remains that these properties speak of.

### The services suite

* **`ProjectRequests`** (`project-requests.service.ts`, `create` and `update` of `ProjectsService`): `proposal` and
  `project` are rows, `locker` holds the request's row lock of the final approval, `endorsed` is history, and so are
  in a project's row the request it comes `from` and the code it was `born` with.
  `Change`/`SelectProposal`/`UpdateProposal` are every handler that loads, checks and
  saves; `ApproveExec` .. `CommitApproval` the final approval, with `InsertProject` and `MakeFolders`
  on the other connection. `CreateDirectly` is a project created or imported without a request;
  `LoadProject`, `SaveProject` are `update`, which assigns `project_code` of any project and looks at no request. So
  `ProjectsEndorsed` speaks of the code a project was created with; the present one may be any.
* **`FieldWork`**: `kind` says which of four services the `subject` belongs to; `work` is its row in the
  feed; `listed` and `ticked` its parts; `writer` the holder of its row lock. `Answer` .. `CountResults`
  are a checklist's answers and an inspection's readings, `AddItem` .. `ToggleItem` and `Complete` an office
  task's, `Incident` .. `DecideRequest` the incident flow; all end in `SyncProgress`,
  which is `WorkItemsService.syncProgress`.
* **`Purchasing`**: `planned`, `cost`, `po`, `noted` are rows; `ceiling` and `unlimited` history.
  `UpsertBudget`, `CreateTransaction` and `CreatePO` share `ReadBudget` and `SumCosts`, the budget check
  (`budget.logic.ts` is `Affordable`); `ReceiveGoods`, `SelectOrder`, `WriteReceipt` are `receiveGoods`.

* **`Transport`** (`tms.service.ts`, with the two operations of `outbound.service.ts` that write an order's
  status): `shipment` is the status and the `waybill_id` of the outbound orders, `unpicked` the orders that have
  a line left, `waybill` the statuses of waybills; `carried` is history (the orders each waybill was created for).
  `CreateWaybill`, `CommitWaybill` are `createWaybill`; `UpdateWaybill` and `CompleteDelivery` share the save of
  the waybill (`SelectWaybill`, `WriteWaybill`), after which the latter saves its orders (`CommitDelivery`);
  `UpdateShipment`, `UpdateOrder` are `updateStatus` and `PickItem` .. `CommitLastPick` the end of `pickItem`. Every
  save of orders begins with `SelectOrders`. `Warehouse` has the same two operations with their lines and
  stock, and no waybill; here which line is the last is a choice.

### The planning suite

* **`Recurrence`** (`master-plan/queues/`, the registration in `master-plan.module.ts`): `today`, the
  day in the repeatable job (`cronDay`), scan jobs, one generate job per occurrence with its state and
  attempts, the template's `last_generated_date` and responsible person, the items. `Scan`, `Enqueue`,
  `Finish` and `Take` .. `Throw` are the processor; `WorkerDies` gives a job back to the
  queue (a stalled job), `Boot` is a restart. The queue is external and modelled from the options
  the code gives it: a job id is added once until the job completes and is forgotten.
* **`Schedule`**: `task` with the stored schedule of each, `link`, `buried` (deleted ids). Every change ends in
  `ReadTasks`, `Plan`, `SelectRows`, `WriteRows`, the recalculation. `Sorted`, `EarlyStart`, `LateFinish` are
  `cpm.logic.ts`, written as recursive functions over the sorted tasks. `ScheduleFits` fixes both passes: early dates
  from the predecessors, late ones from the successors or, without any, from `ProjectEnd`. That a late finish never
  exceeds `ProjectEnd` does not follow when there are leads (`LateStartDelaysNothing`).
* **`ConstructionPlans`**: `planRow`; `latest` and `endorsedText` are history. Handlers load the plan, then open
  their transaction (`ClearBaseline`, `SelectPlan`, `UpdatePlan`); a rejection clones the plan.
* **`MasterPlan`**: `master`, `node`, `busy` (nodes with work in progress, which archiving refuses).
  `RollUp` is `budget-rollup.logic.ts`; `LoadTree`, `CountWork`, `ArchiveNodes` is
  `archiveWbsNode`: it collects the branch by ids, asks for work in progress, and archives these ids.

## Runs

`tlc -workers 2 -config <cfg> <module>`; each takes at most about four minutes.
"States" are distinct states.

| run | configuration | checks | states | shows |
|---|---|---|---|---|
| `approval_chain` | `ApprovalChain` | `ApprovedMeansSigned`, `NotStranded`, `KeepsPromise`, `EveryRequestDecided` | 6 634 | a request of any amount, four levels of which two are optional, threshold rules, one handler: it is decided, over the signatures its chain asks for, and the engine keeps its promise |
| `approval_parallel` | `ApprovalParallel` | `NoUnsignedAdvance` | 615 505 | two handlers with crashes and a level of two approvers who must both sign |
| `approval_edit` | `ApprovalEdit` | `NoUnsignedAdvance` | 925 974 | the same with an administrator who edits, toggles and removes the configuration meanwhile |
| `warehouse_serial` | `WarehouseSerial` | `MovesAreLedgerMoves` | 3 092 611 | one movement at a time, failing at any statement: the warehouse implements the ledger |
| `warehouse_headers` | `WarehouseHeaders` | `AllShelvedCompleted`, `OccupancyTracksStock`, `OrderFollowsLines` | 228 473 | receipts and orders of two lines are concluded by their lines, `current_qty` follows putaway and picking |
| `warehouse_race` | `WarehouseRace` | `WithinBounds`, `NothingInvented`, `PickedWasTaken` | 2 772 728 | two transactions at once, putting away, picking, inspecting, reopening a full shelf |
| `documents_sales` | `DocumentsSales` | `VersionsDense`, `ApprovedWasSigned`, `CurrentIsLatest`, `ApprovedIsShown`, `OneOpenRequest`, `DebtWithinLimit`, `DebtIsOrders`, `QuoteConvertedOnce`, `OutboundPerOrder` | 5 590 276 | documents and sales, two handlers each, one overlap or crash |
| `documents_shown` | `DocumentsShown` | `DecisionShown` | 376 346 | users keep opening the document: the decision on the version shown gets shown, over uploads, scans, a handler that dies or a removal under one |
| `services` | `Services` | `SessionsBounded`, `TokensOnce`, `FailuresCounted`, `ResetEndsSessions`, `LockHolds`, `ProjectsEndorsed`, `WorkItemFollows`, `DoneMeansAllDone`, `OverspendPerOverlap`, `NotesCoverReceipts`, `WaybillKeepsOrders` | 5 567 243 | five services, two handlers each, one overlap or crash; sessions of one account with an administrator who changes it |
| `planning` | `Planning` | `NothingSkipped`, `LinksMakeSense`, `ScheduleFits`, `BaselineIsLatest`, `NothingLiveBelowArchived`, `PlanLife` | 3 857 608 | recurring work on two workers, one of which may die; the other three services one call at a time that may die at any await |
| `approval_reject` | `ApprovalReject` | `RejectionFinal` (violated) | - | one handler, a level of two approvers: a rejected request is approved through the sibling step |
| `recurrence_cron` | `RecurrenceCron` | `DueIsGenerated` (violated) | - | a server that stays up scans for the day on which it was started |

The last two expect a violation: TLC finds a behaviour of the code in which what a document, a comment or
a message of the program says fails. The properties below state more of what these say. They stand in their
modules and in no run, because the code breaks them: TLC finds each violated in the instance described, and
"Divergences" tells what happens.

| property | module | instance |
|---|---|---|
| `PickedMeansFull` | `MCWarehouse` | two handlers, one item; `createOrder`, `adjust`, `pick`; a line of 3, quantities 1 and 2 |
| `QcWithinReceived` | `MCWarehouse` | two handlers; `createReceipt`, `qc`; a line of 1 or 2 |
| `PutawayOnce` | `MCWarehouse` | two handlers; `createReceipt`, `qc`, `putaway`; a line of 1 |
| `AllShelvedCompleted` | `MCWarehouse` | two handlers; the same operations, two lines, two shelves |
| `OccupancyTracksStock` | `MCWarehouse` | one handler; the same with `transfer`, one line |
| `OrderFinal` | `MCWarehouse` | one handler; `createOrder`, `adjust`, `pick`, `outboundStatus` to CANCELED |
| `NoUploadWhilePending` | `DocumentControl` | one handler, the other constants as in `DocumentsSales` |
| `OneRequestAtATime`, `ShownIsNotArchived` | `DocumentControl` | two handlers, one overlap and two |
| `CreditHardBlock`, `QuoteBecomesOneOrder` | `SalesOrders` | two handlers, one overlap, constants as in `DocumentsSales` |
| `CancelStopsPicking` | `SalesOrders` | one handler |
| `SessionsOfPassword` | `Sessions` | one handler, constants as in `Services` |
| `LateStartDelaysNothing`, `HasCriticalTask` | `Schedule` | one handler, two tasks, one link, lags -2, 0, 1 |
| `NoCycleOfLinks` | `Schedule` | two handlers, one overlap, two tasks and links |
| `NothingLiveBelowArchived`, `PlanLife` | `MasterPlan` | two handlers, one overlap, two nodes and one |

The warehouse is checked twice: what holds one call at a time (`warehouse_serial`,
`warehouse_headers`) and what is left of it when two run at once (`warehouse_race`). In the second
case PostgreSQL loses updates, so that quantities are only bounded: no item shows more than was
brought to it, none is negative, no shelf is above its capacity, and a line that says PICKED had its request
taken. These bounds hold because
each save writes a value that was computed and checked against one row, even when the row has
changed since. Concurrent transfers and adjustments are too many for TLC with two handlers;
the theorems `NoneInvented`, `DoneIsTaken` and `BoundsKept` cover them.

`CHECK_DEADLOCK FALSE` stands in every configuration because these systems may
stop: all requests are decided or their configuration is removed, every handler is idle and
the bounded inputs (ids, the clock) are used up.

### Bounds

| bound | value | why it is enough |
|---|---|---|
| `Requests` (approval) | 1 | requests share only the configuration and the handlers |
| `Handlers` | 1 or 2 | every conflict found is between two writers of one row; the theorems remove the bound for the most important properties |
| `ConfigRows` | 3 or 4 | an optional level between mandatory ones, an optional last level, a parallel level followed by another |
| approval `Amounts`, `Rules` | 0 to 3, three rules | no amount, both sides of each limit, the rule that cuts all levels, the one without limit |
| `Locations`, `Items` | 1 or 2 shelves, up to 2 items each | transfer in both directions and onto itself, duplicate item rows |
| `Lines`, `OutLines` | up to 2 | the last line of a header and one before it |
| `LineQtys`, `Quantities` | up to 2 | partial and full picks, a pick that leaves stock, QC that splits |
| `Capacities` | 1 or 2 units, or none (0) | a shelf that a putaway fills exactly and one that it would overfill |
| `MaxArrivals` | 0 to 2 | caps the units that transfers and adjustments bring to a location; in no guard of the code |
| `Targets`, `Operations` | per run | the statuses and operations that matter to the run; each operation occurs in some passing run |
| `MaxOverlaps` | 1 (0 in `recurrence_cron`) | one call comes in the way of another, or dies: the case before, at and after the first disturbance |
| `Files`, `Expiries`, `Week`, `Month`, `LastDay` (documents) | one file, day 1, 1, 2, 1 | an upload of the same content is refused, of no content recorded before is stored; the document is valid, near its expiry and expired |
| `MaxVersions`, `MaxRequests` | 2 | a version shown and an older one; a second request after or beside a first |
| sales `Amounts`, `Limits` | 1 and 2 | an order within, at and above the limit, and a limit lowered below the debt |
| `QuoteIds`, `MaxOrders` | 1 quote, 2 orders | a quote converted twice, two orders that compete for the credit or for an outbound number |
| `SessionLimit`, `MaxAttempts`, `LockTime` | 2, 2, 1 (5, 5 and 15 in the code) | a limit that is reached with one session to spare; the smallest lock with a before and after |
| `LastMinute`, `MaxTokens`, `MaxResets`, `MaxPasswords` | 1, 3, 2, 2 | a lock that ends; one session above the limit; a second reset link; an administrator changes the password once before or after a reset, any number of resets |
| recurrence `LastDay`, `Batch`, `Attempts` | 3, 2, 2 (3, 3, 2 in `recurrence_cron`; 40 and 3 in the code) | one more day due than a scan looks at; a retry and a final failure; `Batch` is above the days in the violated run so that it plays no role |
| `Proposals`, `Codes` | 1, 2 | a request whose code is edited |
| `Parts`, `Requests`, `People`, `CostIds`, `Lines` | 2 each | the last one and one before it; a request beside another |
| `Amounts`, `OrderIds`, `Ordered` | 1 and 2; 1 order; 2 per line | under, at and over the budget; partial, full and excess receipts |
| `Shipments`, `MaxWaybills` | 2, 2 | a waybill of one order and one of both; two that want the same order |
| `service`, `Alone` (planning) | - | the services of a suite share no table, so that two at once show nothing new; `Alone` keeps the calls of all but recurring work to one at a time, which is what their properties are about |
| `Tasks`, `Durations`, `Lags`, `MaxLinks` | 3; 1, 2; -2, 0, 1; 3 | cycles of two and three, a diamond's sides, a lead longer than a task |
| `PlanIds`, `Texts` | 3, 2 | two baselines and a clone of a rejected plan |
| `NodeIds`, `Budgets` | 3; 1, 2 | a branch of depth three and two siblings that overspend together |

Handlers are exchanged by symmetry in safety runs, and so are ids of one kind that the
code only compares (files, costs, parts, codes, tasks, plans, nodes). `LockHolds` and `PlanLife` are
action properties whose formulas treat these ids alike, for which symmetry is sound as for
invariants; every run with a liveness or refinement property has no symmetry.

`WithinBounds` is checked with one capacity per shelf, so an edit that lowers
`max_capacity` under the stock does not count against a movement.

### Fairness

* `approval_chain` uses `FairSpec`. `WF_vars(Continue(h))`: an asynchronous handler goes on
  when its repository call returns, and the event loop starves none. Crashes are off in that run,
  because after one between the save of the step and that of the request nothing in
  the code resumes: the level is complete, its steps refuse further decisions and the
  request stays. `SF_vars(Answer(q, r))`: whoever a pending step waits for does
  eventually answer; it is strong because the request may find the handler busy again
  and again. It is an assumption about people, not about the code, and it does not say
  what they answer.
* `documents_shown` uses `DocFairSpec`: handlers go on, except for at most `MaxOverlaps`
  that die or are disturbed, and users keep opening the document
  (`SF_docVars(GetApprovalStatus(h))`, strong because the handler may be busy when they do).
  Without users who look the code never copies a decision: it has no callback from the engine.
* `recurrence_cron` uses `CronSpec`: the server stays up, a day is long enough for its jobs, days
  pass and workers go on. It is as generous as possible because the run shows a violation.

The warehouse has no liveness property: any transaction may fail every time. The suites have
none, for their services wait for nothing but users.

## Proofs

`tlapm` checks all obligations of the eight modules with theorems (`ApprovalProofs`, `WarehouseProofs`,
`StockLedgerProofs`, `DocumentsSalesProofs`, `ServiceProofs`, `PlanningProofs`, `HandlerFacts`, `SumFacts`)
with SMT, Zenon and LS4. In the table *one call at a time* means one handler, whose calls may still die or
fail anywhere; *calm* is the hypothesis the property itself makes, that every call so far ran alone and
to its end, with any number of handlers.

| theorem | property | for any values of the constants, and |
|---|---|---|
| `TypeCorrect` | `TypeOK` of `ApprovalWorkflow` | any interleaving, crashes, edits |
| `LevelsSettled` | `NoUnsignedAdvance` | any interleaving, crashes, edits |
| `ApprovedSigned` (of `ApprovalProofs`) | `ApprovedMeansSigned` | one call at a time, chains of one approver an order |
| `NeverStranded` | `NotStranded` | the same, no crash |
| `PromiseKept` | `KeepsPromise`: the engine implements `ApprovalPromise` | as `ApprovedSigned` |
| `WarehouseTyped`, `NoneInvented`, `DoneIsTaken` | `TypeOK`, `NothingInvented`, `PickedWasTaken` | any interleaving, failing transactions |
| `BoundsKept` | `WithinBounds` | the same, capacities stay fixed (`FixedCapacity`) |
| `ShelvedIsCompleted` | `AllShelvedCompleted` | one call at a time |
| `OccupancyIsStock` | `OccupancyTracksStock` | one call at a time, no transfer and no adjustment |
| `LastLineConcludes` | `OrderFollowsLines` | one call at a time |
| `WarehouseKeepsLedger` | `MovesAreLedgerMoves`: the warehouse implements `StockLedger` | one call at a time |
| `LedgerSound`, `ShelvedOnce` | what the requirements ask of `StockLedger` | - |
| `VersionsNumbered`, `ApprovedSigned` | `VersionsDense`, `ApprovedWasSigned` | any interleaving, crashes |
| `CurrentNewest`, `ApprovedShown`, `OneRequestOpen` | `CurrentIsLatest`, `ApprovedIsShown`, `OneOpenRequest` | calm |
| `DebtBounded` | `DebtWithinLimit` | any interleaving, crashes |
| `DebtExact`, `QuotesSoldOnce` | `DebtIsOrders`, `QuoteConvertedOnce` | calm |
| `OutboundsMatch` | `OutboundPerOrder` | any interleaving, crashes |
| `ReceiptsNoted` | `NotesCoverReceipts` | any interleaving, crashes; equality calm |
| `BudgetHeld` | `OverspendPerOverlap` | any interleaving, crashes |
| `SessionsStayBounded`, `TokensUsedOnce`, `FailuresAreCounted` | `SessionsBounded`, `TokensOnce`, `FailuresCounted` | any interleaving, crashes |
| `ResetsEndSessions`, `LocksHold` | `ResetEndsSessions`, `LockHolds` | calm |
| `OrdersStay` | `WaybillKeepsOrders` | any interleaving, crashes |
| `AllPartsDone` | `DoneMeansAllDone` | one overlap or crash; office tasks calm |
| `FeedFollows` | `WorkItemFollows` | calm, at most 200 parts (`FewParts`) |
| `ProjectsWereEndorsed` | `ProjectsEndorsed` | one overlap or crash; its last part calm |
| `NoGaps` | `NothingSkipped` | any interleaving, crashes |
| `OneBaseline` | `BaselineIsLatest` | one call at a time, crashes |
| `NothingLiveBelow`, `PlanLived` | `NothingLiveBelowArchived`, `PlanLife` | one call at a time, crashes |
| `NoCycles`, `EarliestSchedule` | `LinksMakeSense`, `ScheduleFits` | calm |

"One call at a time" is the hypothesis `OneCall`, `OneHandler` or `Serial` of the theorem: any two handlers
are the same one. It is not chosen for the proof's sake: with two handlers these properties are false, as
the sections below and "Divergences" say, because a stale save breaks them. In the same way
`FixedCapacity` (nobody calls `updateLocation`, or all capacities are one value) is there because an edit may put
a capacity below what is on the shelf, `OccupancyIsStock` excludes the two movements that
write no `current_qty` or set the stock freely, and
`SingleChains` (each order of a configuration asks for one approver, and edits keep which orders are optional) is
the use the promise is made for. `LedgerSound` and `ShelvedOnce` with `WarehouseKeepsLedger` carry over to the
warehouse.

The proofs rest on the named assumptions of the modules: `ConfigAssumption` (configuration rows are finite
records with a positive `required_count`), `UserAssumption`, `AmountAssumption` and `NonemptyAssumption` of
`ApprovalWorkflow`; `TableAssumption` (the ids of different tables differ, foreign keys point to rows of their
tables), `BoundAssumption` and `ItemsAssumption` (a location holds finitely many items) of `Warehouse`;
`ServerAssumption`; `SalesAssumption` (amounts and limits are natural numbers, finitely many quotes);
`PurchasingAssumption` (amounts are natural numbers of a column of bounded precision, so finitely many; at least one
is ordered of each line); `SessionsAssumption`, `TransportAssumption`, `MasterPlanAssumption`, `ScheduleAssumption` (the types of limits, amounts,
budgets, durations and lags); `PartsAssumption` (a checklist has finitely many parts); `RecurrenceAssumption`; `DayAssumption`, `FilesAssumption` and
`BoundAssumption` of `DocumentControl`. TLC evaluates them in every run; besides them and the hypotheses
of the table nothing is assumed.

### Sums and recursion

Debts, costs and the stock of a location are folds over sets; a branch of the master plan, the sort of the tasks and the
two passes of the critical path are recursive functions. The library's induction theorems take an operator as a parameter, which no installed prover
instantiates, so these facts are proved from a smallest counterexample, a plain set: a nonempty set of
subsets of a finite set has a least one (`SmallestBad`), and one of natural numbers too (`LeastExists`). `SumFacts`
shows so that the function behind a fold exists and is unique, hence unfolds once (`TotalStep`), and from that
what adding, removing or changing one member does to a sum, and that a part of a sum of natural numbers is no
more than the whole. In TLA+ a recursive function is a CHOOSE, so a proof first has to show that a function with these
values exists. For a recursion over the naturals `OrbitExists` does, once for the branch and the sort, and
`IteratesSettle` says that sets which only grow inside a finite set stand still after as many steps as it has members.
For a recursion along the links it is shown where the schedule is.

### SalesOrders

A handler holds a customer that may be old, and its save writes the debt computed from it over
whatever is there. `DebtInv` is `SalesTyped` (types, and that the rows a handler names exist) and,
unless an order was let through on purpose, `Solvent`: the committed row is within `topLimit`, and so
is what each handler may still write (`Claims`). Before the commit that is the debt it read plus the
total it checked; after, or when it cancels or edits the customer, the debt it holds. Claims survive
every step of others because `topLimit` only grows and nobody changes what a handler holds. The
theorem is about each literal value written.

That these values add up to the open orders (`DebtIsOrders`) is true only when calls run alone. `SerialInv` says
what a handler that was never disturbed knows at each await (`SalesKnows`): the customer and the quote it
holds are the rows, its dirty columns are those that differ, its order number is the next, the order it cancels is
still live. Each step then changes the debt and the sum by the same total, a fact of `SumFacts`, and a quote
names the one order that names it.

`OutboundPerOrder` needs no such condition. `OwnedInv`: an outbound is stored on another
connection before its order, and belongs to the one handler that still holds it or to one order. `PlacedInv` counts: outbounds
are no more than the orders, the handlers between the two inserts (`Placers`) and the overlaps; only a crash takes a
handler from the second group without giving its order to the first, and it costs an overlap.

### DocumentControl

`DocInv` adds to the two properties and `DocTypeOK`:

* `RequestsSigned`: a request that is APPROVED left its version in `signedOff`.
* `Vouched(c, signedOff)`: a handler about to write `approved_version_id` holds a version the engine
  approved, in an entity however old: `signedOff` only grows.
* `Numbered(c, Seqs)`: before its commit a handler holds a number whose predecessors all exist. They stay,
  because versions disappear only with their document, and `RemoveDocument` waits for the row that
  this transaction has locked. For the first version there is no row to lock, but no predecessor
  either. That two handlers hold one number is possible (both read before the first version is stored, or
  one waits for the lock with a list already read); then the unique index refuses the second (`Addable`).

`LastExists` (a nonempty set of versions has a highest number) uses that the natural numbers are
well-founded; everything else is by cases on the actions.

`DocSerial` holds while no call was disturbed. `DocKnows` says what a handler then knows at each await: its number is the next one,
the version it archives is not the one shown, the version it submits has no open request, and the entity it
saves agrees with the row on what is shown and what is approved. The last is the crux: a scan, an update of
metadata or the display of a decision saves the whole entity, and an entity shown APPROVED must name what it shows.

### Recurrence

`last_generated_date` moves up and down as jobs finish out of order, so the property says too little of a
state to be inductive. `SkipInv` states the order instead: `InOrder`, the occurrences that are `Kept` (they have
an item, a job that is not lost, or an excuse) have no gap above the day on which the template was last
scanned with nothing generated; and `CallOK`, what a scan still has to queue is preceded only by kept ones
or by others it has to queue. A scan keeps that because it looks at the first `Batch` occurrences from
`last_generated_date` on (`MatchingInOrder`, where finite cardinalities are compared), a date that is itself an
item's, and queues the earliest first; the queue keeps it because it forgets only jobs that completed, with
an item or an excuse. No step but `Enqueue` adds a kept occurrence. `NoneSkipped` then gives the property. Nothing is
assumed of the number of workers, retries or stalled jobs.

### Purchasing

In `NotesInv` a reception (`ReceiptOK`) holds quantities that exceed the notes by no more than what it will note
itself; notes only grow, so a save of old quantities may lose some and invents none. For the equality,
`Alone`: while nothing overlapped at most one handler runs, and its quantities are those of the row
plus its own. The budget check appears only as far as its calls must be told
from receptions.

`BudgetInv` counts for the limit what is booked and what the handlers between check and insert are about to book
(`Committed`). A handler passes the check against what is booked only, so it exceeds the limit by at most what
the other passed handlers will book: one amount each, and every busy handler but one has cost an overlap
(`Cardinality(Busy) <= overlaps + 1`). `ceiling` is the highest limit there was, so edits do not count.

### Sessions

The properties that count per overlap are not inductive, for what an overlap costs shows later, when a call
that read too early writes. `SessionInv` counts such calls in advance, with the bound of `HandlerFacts` that the busy handlers but
one have each cost an overlap (`PastOverlaps`).

* `RoomLeft`: take any set of calls that will open a session; the live sessions that they will not revoke, and
  the calls themselves, are no more than the limit and the overlaps. Any set, because each call has chosen what it revokes
  from the sessions it saw, and the worst set differs from state to state.
* `Exchanged`, `LinksLeft`: the calls about to exchange a token or to send a link count as if they had.
* `MissesKept`: the failures in a row exceed neither the stored count nor one that a running call may still write back
  (an attempt that read it, a save of the whole account) by more than the overlaps paid so far.
* `Undisturbed`, while calm: what a handler read before an await still is so (`Knows`). The password a login
  compared, the session a rotation renews and the account an administrator saves are not older than the last reset, and the
  lock he saves is the one that stands. `LockHolds` is about steps and follows: the statement that clears
  a lock after a login belongs to a login that found it run out.

### Transport

An overlap may rob a waybill of orders much later than it happens, when a stale entity is saved, so counting what is lost
is not inductive. `Charged` counts in advance: a waybill is `Exposed` when it has lost an order or a
running call holds an entity that would take one from it, and the exposed waybills together with the busy
handlers but one cost no more than the overlaps. A creation exposes waybills only when it reads orders while another call
runs, a call that starts beside another pays for itself, and when it ends its payment covers the one waybill it
exposed. `OwnIds` keeps two creations from sharing an id.

### Field work

In `FieldInv` three parts carry the theorems. `CountedInv`, for checklists and inspections with one overlap at most: either
every running call has seen every part that is listed, or the overlap was spent and one call runs alone, which missed the part
added behind its back; so what a call counts as complete contains every part that was expected. `FeedKnows`: a
save without a transaction writes the subject first and the feed after, one within a transaction the
other way round, and between the two each says what the other will. `OfficeKnows`: the ticks a call holds
are the items of the task. The feed follows only with `FewParts`, as "Divergences" explains.

### ProjectRequests

`ProposalInv` uses that with one overlap at most two calls run. While both are of that kind each has loaded the row as it is
(`FreshCall`); once one has written, the other may be stale, and `EndorsedCall` says what is left: the code an
approval holds was endorsed, and an edit cannot bring back an unendorsed code under a department's approval.
`DeployedInv` follows the project, made on another connection, until its request is saved. The update of a project is a
third kind of call: it holds no request, and changes nothing a project has `from` or was `born` with.

### ConstructionPlans and MasterPlan

With one call at a time what a handler has read cannot change before it writes, and `PlansInv` and `MasterInv` say it
await by await, also after calls that died midway. `PlansInv`: the rows whose flag an approval has set aside to clear are all the baselines there
are, the text it endorses is the row's. `MasterInv`: a plan about to become ACTIVE rolls up at every level, a node is
inserted under a live one, and the ids about to be archived are `Closed`: whatever hangs below one of them is one
of them. The last is a theorem about the recursive query (`BelowClosed`): the sets it collects grow until they are closed, and they
cannot grow more often than there are nodes.

### Schedule

Two thirds of this proof are about data. `HasCycle` says that some tasks each have a successor among them. Without such tasks any
set of tasks has a member without a successor in the set (`SinkExists`, the definition), and, because the tasks are
finitely many, also one without a predecessor in it (`SourceExists`, by a smallest counterexample). The rest follows from
these two. A smallest set of tasks, closed under predecessors, on which the forward pass has no solution has a sink, and the
solution without the sink extends to it (`EarlyExists`; `LateExists` from the other end). Its values are integers, for a
source of those that are not would be one; each is the largest of the bounds its links set (`StartsEarly`, `EndsLate`).
Float is not negative, for a sink of the tasks where it is would end where a successor or the project makes it end
(`PlannedFits`, which also says that a late finish is exactly what some successor, or the end of the project, leaves). And the sort emits every task, for a source of those left when it stands still would be released (`SortsAll`).

The rest is the service: `TaskKnows` says of a handler nobody disturbed that the links it searched for a cycle are the
links, that a task about to be deleted has none left, that the plan it writes was computed from the rows and links as
they are. `ScheduleInv` adds that the stored schedule fits whenever every handler is `Settled`, that is, idle
or not yet past the insertion of its link; after any other statement a recalculation is still to come. The recalculation cannot fail: the
graph has no cycle and no dangling link, so the exception of `topologicalSort` is never raised in calm.

### ApprovalWorkflow

`NoUnsignedAdvance` is not inductive: a handler in flight holds an old request entity, an old list of
steps and an old quorum, and may write any of them back. `LevelInv` adds what
makes that harmless.

* `ConfigInv`: what `rows` can be, and that requests exist only after a configuration.
* `RequestInv`: the levels below a request's `current_step` are settled, all of them when it
  is APPROVED.
* `StepInv`: a stored status has left its mark in the history; only optional levels are skipped.
* `CallInv(h)`, through `Claim`: the entity in the handler, however old, makes only true claims
  (`EntityInv`), its quorum was one some configuration asks for (`Legit`), after the count its
  level has enough signatures (`SignedEnough`), and its list of steps is covered by the
  history (`Marked`).

The argument is monotonicity. `signed`, `refused` and `skipped` only grow and the steps of a
request never change (`Kept`), so a settled level stays settled (`KeptSettled`) and a true claim
stays true (`ClaimKept`, `CallsKept`). A stale save then writes back a claim that is old but still
true. What a step must show in addition is only the claim of the handler that moves;
`QuietStep` covers the steps that write no table, `StepWrite` the two updates of
a step row. This also explains the finding `approval_reject`: decisions, unlike levels, are not monotone,
and a stale or repeated save does undo them.

One call at a time they are final, and `SerialInv` says why. `RestInv`: while no call is on a request, its steps
agree with it (`Agrees`: an open request has a pending step at its level, all done below it and all pending above it, `Waiting`) or
a call died between the step and the request (`Stuck`), which only an environment with crashes allows. `Holds`
tells of a call at each await what it has changed and what it has not: the entity is the row until it is
advanced, the list of steps it scans is the stored one, the step it signs is pending until it is flushed. `ApprovedMeansSigned`
and `NotStranded` read off `RestInv`. For `PromiseKept` each step but `Submit`, `FlushRequest` and `RemoveConfig` is
shown to leave every status alone, and those three to be steps of `ApprovalPromise`.

### Warehouse

The four properties speak of `db` only, but what a commit writes was read, changed and
merged before, while others committed. `Inv` states them of every copy of a row.

* `Fits(r, e)`: any copy `e` of row `r`, committed, written or loaded, is in its table's type and
  within the bounds of that row alone.
* `Earned(c, r, e)`: a copy claims no more than the history of committed movements explains and
  what the call `c` that holds it will add when it commits (`ItemGain`, `LineGain`). For the
  committed rows `c` is `Idle`, which adds nothing.
* `Holds(c)`: which entities a call has loaded at each stage, and that the units it is about to
  pick were free when it read the line. `DirtyOK(c)`: columns are pending only for a save of an
  existing row.
* `DbOK`, `HistoryOK`: the rows of receipts and orders are there before their lines, the history
  counts.

The steps fall into four kinds, each with a lemma of its own: a method begins (`BeginStep`: it
holds committed rows, which `DbRow` explains), it goes on (`AdvanceOK`: its gains only grow with
its stage, so what it held stays explained), it writes (`WriteStep`), it commits or creates rows
(`OtherCalls`: the history only grows, so what other calls hold stays explained). `MergeOK` is
where TypeORM's column-wise save matters: a row with some columns of one copy and the rest of another is
still within its bounds, because the columns these bounds compare come with a column nobody
changes (`requested_qty`, a fixed `max_capacity`). It fails for `accepted_qty` and
`rejected_qty`, or for `pick_status` and `picked_qty`, so that `QcWithinReceived` and `PickedMeansFull`
are false. `PickedWasTaken` survives, because it compares PICKED with `requested_qty` and with what was taken, which
only grows, and not with `picked_qty`.

For what holds one call at a time, `Serial(c, v)` describes a call `c` and the rows `v` it sees method by method (`PutawayCall`, `PickCall`, ...): which rows
it has written, that each holds exactly the changed entity (`SavedAt`), and that every other row is as it is committed
(`Unlike`). Its last stage therefore knows the commit completely (`PutawayDone`, `PickDone`), and the
properties, which hold of the committed rows before, are shown of the rows after: the status of a receipt is
derived from lines that are all the lines there are, the units an item gains are those a location gains. Stock at a
location is a sum over its items, so these proofs use `SumFacts` and need finitely many items.

`WarehouseKeepsLedger` maps the rows to the ledger's variables (`Stocks`, `Accepteds`, `Shelves`, `Askeds`, `Pickeds`). Steps inside a transaction
change no committed row and map to stutters; of the commits, putaway is `Shelve`, pick is `Take`, transfer is `Carry`, adjustment is `Correct`, QC
is `Inspect` and the creation of orders `Ask`; updates of a status or of a location stutter.

### What is only model-checked

* Liveness (`EveryRequestDecided`, `DecisionShown`): the provers treat neither fairness nor ENABLED.
* What fails: the two runs that expect a violation, and the properties without a run.
* Everything the theorems prove for one handler or while calm, TLC checks under the same conditions; what happens
  outside them is in "Divergences".

No run lists the type invariants, because the theorems cover them: `TypeCorrect` and `WarehouseTyped` state
those of `ApprovalWorkflow` and `Warehouse`, the other proofs have them as conjuncts of their invariants.

## Divergences

Each entry of `findings` in `PROJECT.json` quotes the line of the code and the comment or document it
contradicts, the property that states it, and the run in which TLC finds this violated, when it has one. In short:

* A request rejected by one of two parallel approvers is approved through the other (`RejectionFinal`).
* Beside each other, two picks leave a line PICKED with less than it asks for (`PickedMeansFull`), two inspections accept and
  reject more than was received (`QcWithinReceived`), two putaways store a line twice (`PutawayOnce`) or leave a
  receipt open for good (`AllShelvedCompleted`). Transfers and adjustments forget the occupancy of their shelves
  (`OccupancyTracksStock`); a CANCELED order is picked (`OrderFinal`).
* The expiry scan lets a version be uploaded while another awaits its decision (`NoUploadWhilePending`); two submissions open
  two requests (`OneRequestAtATime`); a late save shows an archived version (`ShownIsNotArchived`).
* Two orders at once pass the credit limit (`CreditHardBlock`), one quote becomes two orders
  (`QuoteBecomesOneOrder`), and the outbound of a cancelled order is picked (`CancelStopsPicking`).
* A password given by an administrator leaves the sessions of the old one alive (`SessionsOfPassword`).
* With leads, a late start delays the project (`LateStartDelaysNothing`) and no task is critical (`HasCriticalTask`); two
  links at once close a cycle (`NoCycleOfLinks`).
* A node comes to live below an archived one (`NothingLiveBelowArchived`), a CLOSED master plan is open again (`PlanLife`).
* The daily scan works on the day of the last start (`DueIsGenerated`).

Seen while modelling and not findings of their own:

Approval and warehouse
* A level configured by role stores the role's code as `approver_id`
  (`approvals.service.ts:346`); `docs/specs/approval-workflow-SA_DESIGN.md:54` resolves it to a user.
* `required_count` 2 on the only row of its level can never be reached (`approvals.service.ts:553`):
  each row is one step and is decided once.
* Two handlers may decide one step, and a stale `save(request)` may set `current_step` back
  (`approvals.service.ts:530`, `600`); the request is then stuck. Two submissions of one entity open two requests.
* Putaway of a line of a REJECTED receipt reopens the receipt (`inbound.service.ts:320`).
* A shelf that putaway filled stays FULL when its units are picked (`outbound.service.ts:280`).
* `updateLocation` may lower `max_capacity` below `current_qty` (`inventory.service.ts:96`).

Sales and sessions
* The sequence of order codes does not start anew each day; a quote number may collide after a quote was deleted;
  accepting a quote ignores its expiry; a quote's customer is not compared with the order's; nothing sets FULFILLING
  or DELIVERED. Two overlapping cancellations of one order forgive its debt twice.
* Two refreshes of one token exchange it twice; after a crash in a password reset, or a rotation in its midst, old
  sessions stay (`auth.service.ts:213`, `471`). An administrator's save of the account may put back a failure
  count or a lock it loaded before (`users.service.ts:142`), and a disabled account keeps its sessions (136).

Recurring work and requests
* `INTERVAL` and `FREQ` of a rule are parsed and never used, and a BYHOUR list gives `NaN`
  (`rrule-parser.logic.ts` 20-61); jobs queued before the plan was closed still generate (BR-MP-07, `docs/features/master-plan/BA_SPEC.md:280`); an id whose job
  failed for good is never queued again.
* REJECTED says it can return to DRAFT and no operation does it (`request-status.enum.ts:46`); a crash in the final
  approval leaves a project without its request; resubmission ignores `pending_return_status`. `projects.update` may give
  a deployed project a code that no request ever proposed (`projects.service.ts:193`); no document forbids it.

Field work
* With more than 200 parts, one part done of them all is 0 % after `Math.round`, and `syncProgress` takes 0 % for
  NEW: the subject is IN_PROGRESS and the feed says nothing has begun (`work-items.service.ts` 52-56,
  `instance-transition.logic.ts:21`). The proof of `FeedFollows` needed `FewParts` for it.
* BR-CHK-03 and BR-CHK-05 fail under overlap, and two toggles of an office task undo each other;
  `decideAssigneeChange` moves a COMPLETED incident (`incidents.service.ts` 360-362 against 401-407); the incident
  sequence is per project but the code is unique for all (103-119); a reading recorded again is compared with
  its own earlier value (`energy-inspection.service.ts` 135, 136-141).

Transport
* Overlapping creations, or a stale save of an order, take orders from a waybill: `WaybillKeepsOrders` counts the
  overlaps this costs.
* `updateWaybill` may set a waybill DELIVERED or CANCELED and leave its orders SHIPPED (`tms.service.ts:183`); beside
  `completeDelivery` each writes over the other's status (188, 229).
* `updateStatus` does not treat DELIVERED as final, so a delivered order may be PENDING again
  (`outbound.service.ts` 175-178); a late pick sets a SHIPPED order back to PICKING or PICKED (308-314).

Monitoring and BOQ (read, not modelled)
* `rejectVO` looks at no status: an approved change order can be rejected and keeps its budget
  (`project-monitoring.service.ts:405`).
* A WBS node may be made its own ancestor, and `propagateProgress` then never ends (`project-wbs.service.ts:174`).
* Nothing calls `incrementIssuedQty` (`project-boq.service.ts:267`), so the BOQ gate of `outbound.create` counts no issue.

Purchasing and planning
* The budget check never counts purchase orders (`projects.service.ts:1036`); a purchase order is COMPLETED while
  lines not in this reception are open (`procurement.service.ts:106`, 117-129, 156); two receptions lose
  a quantity (124); more than ordered may be received.
* Two overlapping creations give two plans one version number; an approval beside a rejection unfreezes a plan; two
  overlapping approvals leave two baselines.
* A stale save of a node of the master plan takes it out of the archive; BR-MP-04 (`BA_SPEC.md:277`) is not
  looked at after the approval; a plan is approved without a template on each leaf, which BR-MP-02 (275) asks for.

## Not modelled

`PROJECT.json` gives the reason for each component. Of the modelled ones: `importFromExcel` and the
read-only queries of the approval engine; document numbers, the BOQ and budget gates
of `outbound.create`, and the read-only queries of the warehouse; folders, downloads and the audit trail of
documents; prices and lines of orders; the blocklist of access tokens; schedule baselines; the annual grid and
the export of the master plan. The notes of their components name them.

Most of the rest of the repository, the web client and the CRUD services that make up nine tenths of its lines, has no
state of several steps: each method finds a row, refuses or changes it, and saves it. Their hazards are the
same few, once per method, and a module of one would repeat its guards: a stale save of `projects.update` (148-204) of columns other than the code; the role matrix and a user's roles are
deleted, then inserted; an organisation can be made its own ancestor; an employee is removed while
an account is created for him.

## Plan

1. Done: all modules of the table above; theorems for every safety property and every action property of the
   passing runs; both refinements.
2. Next proof: that the approval engine keeps a weaker promise under concurrency (a request is decided, though a
   rejection may be overwritten).
3. The project's own status flow (`projects.service.ts`), with the change orders of `project-monitoring/`, which raise
   its budget.
